---------------------------- MODULE ZedPartsProofs ----------------------------
(* Three parts of the ZED nodes that share no variable.                       *)
(* The frames of the ZED node: buffers that are published together are of one *)
(* frame, frames leave once and in order with their own stamp, and the        *)
(* transforms compose to the SDK's pose; for any number of frames, resets and *)
(* poses, any subscribers and any interleaving of the three threads.          *)
(* Its parameters: what rclcpp has accepted has reached the camera when       *)
(* nothing is marked and nothing is being sent; for any cameras, any number   *)
(* of changes and refusals and any interleaving of callback and grab thread.  *)
(* The parameters of the ZED One node: the same when nothing is due, although *)
(* its grab thread sets parameters itself, and it comes to rest.              *)
EXTENDS ZedPipeline, ZedSettings, ZedOneSettings, TLAPS

USE ZedPipelineAssumption DEF ZedPipelineAssumption

-----------------------------------------------------------------------------
(* Poses are numbers modulo Poses. *)

LEMMA ModType == \A x \in Int : x % Poses \in 0..(Poses - 1)
  OBVIOUS

LEMMA FramesAreNat == Frames \subseteq Nat
  BY DEF Frames

\* Taking a pose away and composing it again leads back.
LEMMA ComposeBack ==
  ASSUME NEW w \in 0..(Poses - 1), NEW o \in 0..(Poses - 1)
  PROVE  (((w - o) % Poses) + o) % Poses = w
<1>1. /\ w - o >= 0 => (w - o) % Poses = w - o
      /\ w - o < 0 => (w - o) % Poses = w - o + Poses
  OBVIOUS
<1>2. w % Poses = w /\ (w + Poses) % Poses = w
  OBVIOUS
<1>3. QED  BY <1>1, <1>2

-----------------------------------------------------------------------------
LEMMA ZpInvInit == ZpInit => ZpInv
<1> SUFFICES ASSUME ZpInit PROVE ZpInv
  OBVIOUS
<1> USE DEF ZpInit
<1>1. ZpTypeOK
  BY DEF ZpTypeOK, Frames, W
<1>2. Locked
  BY DEF Locked, Published, W
<1>3. Retrieved
  BY DEF Retrieved, Grabbed, W
<1>4. DOMAIN images = {} /\ DOMAIN clouds = {}
  OBVIOUS
<1>5. PairsMatch /\ Fresh("vd", images, sdkTs) /\ Fresh("pc", clouds, cloud)
  BY <1>4 DEF PairsMatch, Fresh
<1>6. QED  BY <1>1, <1>2, <1>3, <1>5 DEF ZpInv

-----------------------------------------------------------------------------
(* The grab thread. *)

LEMMA GrabKeepsTypes ==
  ASSUME ZpTypeOK, GrabStep
  PROVE  ZpTypeOK'
<1> USE DEF ZpTypeOK, Frames, Go, videoVars, workVars, poseVars
<1>1. CASE Top \/ Tf  BY <1>1 DEF Top, Tf
<1>2. CASE Required \/ Subscribed  BY <1>2 DEF Required, Subscribed, Refresh
<1>3. CASE Grab
  <2>1. world' \in 0..(Poses - 1)
    <3>1. CASE world' = world
      BY <3>1
    <3>2. ASSUME NEW m \in {0, 1}, NEW c \in {0, 1}, world' = (world + m + c) % Poses
          PROVE  world' \in 0..(Poses - 1)
      <4>1. world \in 0..(Poses - 1)
        OBVIOUS
      <4>2. world + m + c \in Int
        BY <4>1
      <4>3. QED  BY <3>2, <4>2, ModType
    <3>3. QED  BY <1>3, <3>1, <3>2 DEF Grab
  <2>2. QED  BY <1>3, <2>1, SMTT(60) DEF Grab
<1>4. CASE Video  BY <1>4 DEF Video, TryLock, W
<1>5. CASE Depth  BY <1>5 DEF Depth, W
<1>6. CASE Cloud  BY <1>6 DEF Cloud, TryLock, W
<1>7. CASE Odometry
  <2>1. odom' \in 0..(Poses - 1)
    <3>1. 0 \in 0..(Poses - 1) /\ odom \in 0..(Poses - 1) /\ motion \in {0, 1}
      OBVIOUS
    <3>2. odom + motion \in Int
      BY <3>1
    <3>3. (odom + motion) % Poses \in 0..(Poses - 1)
      BY <3>2, ModType
    <3>4. odom' \in {0, odom, (odom + motion) % Poses}
      BY <1>7 DEF Odometry
    <3>5. QED  BY <3>1, <3>3, <3>4
  <2>2. QED  BY <1>7, <2>1 DEF Odometry
<1>8. CASE Pose
  <2>1. map2odom' \in 0..(Poses - 1)
    <3>1. world - odom \in Int
      OBVIOUS
    <3>2. QED  BY <1>8, <3>1, ModType DEF Pose
  <2>2. QED  BY <1>8, <2>1 DEF Pose
<1>9. QED  BY <1>1, <1>2, <1>3, <1>4, <1>5, <1>6, <1>7, <1>8 DEF GrabStep

LEMMA GrabKeepsLocks ==
  ASSUME ZpInv, GrabStep
  PROVE  Locked'
<1> USE DEF ZpInv, ZpTypeOK, Go, workVars, Locked, Published, W
<1>1. CASE Top \/ Grab \/ Cloud \/ Odometry \/ Pose \/ Tf
  BY <1>1 DEF Top, Grab, Cloud, Odometry, Pose, Tf
<1>2. CASE Required \/ Subscribed  BY <1>2 DEF Required, Subscribed, Refresh
<1>3. CASE Video  BY <1>3 DEF Video, TryLock
<1>4. CASE Depth  BY <1>4 DEF Depth
<1>5. QED  BY <1>1, <1>2, <1>3, <1>4 DEF GrabStep

LEMMA GrabKeepsBuffers ==
  ASSUME ZpInv, GrabStep
  PROVE  Retrieved'
<1> USE DEF ZpInv, Retrieved, Grabbed, Go, workVars, videoVars
<1>1. images' = images /\ at' = at
  BY DEF GrabStep, Top, Required, Subscribed, Refresh, Grab, Video, Depth, Cloud, Odometry, Pose, Tf
<1>2. frame \in Nat /\ sdkTs \in Nat /\ cloud \in Nat
  BY FramesAreNat DEF ZpTypeOK
<1>3. at["vd"] = "depth" => lock["vd"] = "vd"
  BY DEF Locked, Published, W
<1>4. CASE Top \/ Odometry \/ Pose \/ Tf  BY <1>1, <1>4 DEF Top, Odometry, Pose, Tf
<1>5. CASE Required \/ Subscribed  BY <1>1, <1>5 DEF Required, Subscribed, Refresh
<1>6. CASE Grab  BY <1>1, <1>2, <1>6 DEF Grab
<1>7. CASE Video  BY <1>1, <1>2, <1>3, <1>7 DEF Video, TryLock, W
<1>8. CASE Depth  BY <1>1, <1>2, <1>3, <1>8 DEF Depth, Locked
<1>9. CASE Cloud  BY <1>1, <1>2, <1>9 DEF Cloud
<1>10. QED  BY <1>4, <1>5, <1>6, <1>7, <1>8, <1>9 DEF GrabStep

\* A newer frame is handed over, or nothing is.
LEMMA FreshGrown ==
  ASSUME NEW w, NEW out, NEW handed \in Nat, NEW new \in Nat, handed < new,
         \A i \in DOMAIN out : out[i].of \in Nat /\ out[i].of <= handed
  PROVE  \A i \in DOMAIN out : out[i].of < new
  OBVIOUS

LEMMA GrabKeepsFresh ==
  ASSUME ZpInv, GrabStep
  PROVE  Fresh("vd", images, sdkTs)' /\ Fresh("pc", clouds, cloud)'
<1> USE DEF ZpInv, Go, workVars, videoVars
<1>1. /\ \A i \in DOMAIN images : images[i].of \in Nat
      /\ \A i \in DOMAIN clouds : clouds[i].of \in Nat
      /\ frame \in Nat /\ sdkTs \in Nat /\ cloud \in Nat
  <2>1. /\ \A i \in DOMAIN images : images[i] \in ImagePairs
        /\ \A i \in DOMAIN clouds : clouds[i] \in Clouds
    BY DEF ZpTypeOK
  <2>2. QED  BY <2>1, FramesAreNat DEF ZpTypeOK, ImagePairs, Clouds
<1>2. images' = images /\ clouds' = clouds /\ at' = at
  BY DEF GrabStep, Top, Required, Subscribed, Refresh, Grab, Video, Depth, Cloud, Odometry, Pose, Tf
<1>3. Fresh("vd", images, sdkTs)'
  <2>1. CASE Depth
    <3>1. sdkTs' = frame /\ sdkTs < frame
      BY <2>1 DEF Depth, Retrieved, Grabbed
    <3>2. \A i \in DOMAIN images : images[i].of < frame
      BY <1>1, <3>1, FreshGrown DEF Fresh
    <3>3. QED  BY <1>1, <1>2, <3>1, <3>2 DEF Fresh
  <2>2. CASE ~Depth
    <3>1. sdkTs' = sdkTs /\ ready'["vd"] = ready["vd"]
      BY <2>2 DEF GrabStep, Top, Required, Subscribed, Refresh, Grab, Video, Cloud, Odometry, Pose, Tf,
         ZpTypeOK, W
    <3>2. QED  BY <1>2, <3>1 DEF Fresh
  <2>3. QED  BY <2>1, <2>2
<1>4. Fresh("pc", clouds, cloud)'
  <2>1. CASE Cloud /\ cloud' = frame
    <3>1. cloud < frame
      BY <2>1 DEF Cloud, Retrieved
    <3>2. \A i \in DOMAIN clouds : clouds[i].of < frame
      BY <1>1, <3>1, FreshGrown DEF Fresh
    <3>3. QED  BY <1>1, <1>2, <2>1, <3>2 DEF Fresh
  <2>2. CASE ~(Cloud /\ cloud' = frame)
    <3>1. cloud' = cloud /\ ready'["pc"] = ready["pc"]
      BY <2>2 DEF GrabStep, Top, Required, Subscribed, Refresh, Grab, Video, Depth, Cloud, Odometry, Pose,
         Tf, ZpTypeOK, W
    <3>2. QED  BY <1>2, <3>1 DEF Fresh
  <2>3. QED  BY <2>1, <2>2
<1>5. QED  BY <1>3, <1>4

LEMMA GrabKeeps ==
  ASSUME ZpInv, GrabStep
  PROVE  ZpInv'
<1>1. images' = images
  BY DEF GrabStep, Top, Required, Subscribed, Refresh, Grab, Video, Depth, Cloud, Odometry, Pose, Tf,
     workVars
<1>2. PairsMatch'
  BY <1>1 DEF ZpInv, PairsMatch
<1>3. ZpTypeOK'
  BY GrabKeepsTypes DEF ZpInv
<1>4. QED  BY <1>2, <1>3, GrabKeepsLocks, GrabKeepsBuffers, GrabKeepsFresh DEF ZpInv

-----------------------------------------------------------------------------
(* The steps of the other two threads that publish nothing. *)

LEMMA WorkKeeps ==
  ASSUME ZpInv, NEW w \in W, WorkStep(w)
  PROVE  ZpInv'
<1> USE DEF GoW, Idle, WorkStep, Start, Lock, Check, Wake, EndWait, Sleep, Sleeping, Slept, ReadyCleared
<1>1. /\ UNCHANGED <<input, launch, subs, counts, grab, frame, videoVars, cloud, stop, poseVars>>
      /\ UNCHANGED <<last, images, clouds>>
  OBVIOUS
<1>2. ZpTypeOK'
  <2>1. lock' \in [W -> W \cup {"grab", None}]
    BY DEF ZpInv, ZpTypeOK
  <2>2. ready' = ready \/ ready' = [ready EXCEPT ![w] = FALSE]
    BY DEF ZpInv
  <2>3. ready' \in [W -> BOOLEAN]
    BY <2>2, Zenon DEF ZpInv, ZpTypeOK
  <2>4. at' \in [W -> {"start", "lock", "check", "wait", "publish", "depth", "sleep", "sleeping", "end"}]
    BY DEF ZpInv, ZpTypeOK
  <2>5. QED  BY <1>1, <2>1, <2>3, <2>4 DEF ZpInv, ZpTypeOK, videoVars, poseVars
<1>3. Locked'
  BY <1>1 DEF ZpInv, ZpTypeOK, Locked, Published, W
<1>4. at'["vd"] # "depth"  \/ at'["vd"] = at["vd"]
  BY DEF ZpInv, ZpTypeOK, W
<1>5. Retrieved'
  BY <1>1, <1>4 DEF ZpInv, Retrieved, Grabbed, videoVars
<1>6. PairsMatch'
  BY <1>1 DEF ZpInv, PairsMatch
<1>7. \A x \in W : ready'[x] /\ at'[x] \notin Published => ready[x] /\ at[x] \notin Published
  BY DEF ZpInv, ZpTypeOK, W, Published, Locked
<1>8. Fresh("vd", images, sdkTs)' /\ Fresh("pc", clouds, cloud)'
  BY <1>1, <1>7 DEF ZpInv, Fresh, videoVars, W
<1>9. QED  BY <1>2, <1>3, <1>5, <1>6, <1>8 DEF ZpInv

-----------------------------------------------------------------------------
(* Publishing. *)

LEMMA PublishRgbKeeps ==
  ASSUME ZpInv, PublishRgb
  PROVE  ZpInv'
<1> DEFINE p == [rgb |-> IF "rgb" \in counts THEN rgb ELSE 0, depth |-> 0, stamp |-> Stamp(sdkTs),
                 of |-> sdkTs, taken |-> taken]
<1>1. /\ UNCHANGED <<input, launch, subs, counts, grab, frame, videoVars, cloud, stop, poseVars>>
      /\ UNCHANGED <<lock, ready, clouds>>
      /\ at["vd"] = "publish" /\ lock["vd"] = "vd" /\ ready["vd"]
  BY DEF PublishRgb, Idle, GoW, ZpInv, Locked, W
<1>2. grab # "depth"
  BY <1>1 DEF ZpInv, Locked, W
<1>3. CASE sdkTs = last["vd"]
  <2>1. at' = [at EXCEPT !["vd"] = "sleep"] /\ UNCHANGED <<last, images>>
    BY <1>3 DEF PublishRgb, GoW
  <2>2. ZpTypeOK'
    BY <1>1, <2>1 DEF ZpInv, ZpTypeOK, videoVars, poseVars, W
  <2>3. Locked' /\ Retrieved'
    BY <1>1, <2>1 DEF ZpInv, ZpTypeOK, Locked, Retrieved, Grabbed, Published, W, videoVars
  <2>4. PairsMatch'
    BY <2>1 DEF ZpInv, PairsMatch
  <2>5. Fresh("vd", images, sdkTs)' /\ Fresh("pc", clouds, cloud)'
    BY <1>1, <2>1 DEF ZpInv, ZpTypeOK, Fresh, Published, W, videoVars
  <2>6. QED  BY <2>2, <2>3, <2>4, <2>5 DEF ZpInv
<1>4. CASE sdkTs # last["vd"]
  <2>1. /\ at' = [at EXCEPT !["vd"] = "depth"] /\ images' = Append(images, p)
        /\ last' = last \/ last' = [last EXCEPT !["vd"] = sdkTs]
    BY <1>4 DEF PublishRgb, ImageWithInfo, GoW
  <2>2. p \in ImagePairs /\ images \in Seq(ImagePairs)
    BY DEF ZpInv, ZpTypeOK, ImagePairs, Frames, Stamp
  <2> HIDE DEF p
  <2>3. /\ Len(images) \in Nat /\ DOMAIN images = 1..Len(images)
        /\ Len(images') = Len(images) + 1 /\ DOMAIN images' = 1..(Len(images) + 1)
        /\ images' \in Seq(ImagePairs)
        /\ images'[Len(images) + 1] = p
        /\ \A i \in 1..Len(images) : images'[i] = images[i]
    BY <2>1, <2>2
  <2>4. ZpTypeOK'
    <3>1. last' \in [W -> Frames]
      BY <2>1 DEF ZpInv, ZpTypeOK, W
    <3>2. at' \in [W -> {"start", "lock", "check", "wait", "publish", "depth", "sleep", "sleeping", "end"}]
      BY <2>1 DEF ZpInv, ZpTypeOK, W
    <3>3. QED  BY <1>1, <2>3, <3>1, <3>2, SMTT(60) DEF ZpInv, ZpTypeOK, videoVars, poseVars
  <2>5. Locked'
    BY <1>1, <2>1 DEF ZpInv, ZpTypeOK, Locked, Published, W
  <2>6. p.of = sdkTs /\ p.taken = taken
    BY DEF p
  <2>7. images'[Len(images')] = p /\ images' # <<>>
    BY <2>3
  <2>8. Retrieved'
    BY <1>1, <1>2, <2>6, <2>7 DEF ZpInv, Retrieved, Grabbed, videoVars
  <2>9. /\ p.rgb # 0 /\ "rgb" \in p.taken => p.rgb = p.of
        /\ p.depth = 0
    BY <1>2 DEF ZpInv, Retrieved, p
  <2>10. PairsMatch'
    BY <2>3, <2>9 DEF ZpInv, PairsMatch
  <2>11. \A i \in DOMAIN images' : images'[i].of <= sdkTs
    <3>1. sdkTs \in Nat
      BY DEF ZpInv, ZpTypeOK, Frames
    <3>2. QED  BY <2>3, <2>6, <3>1 DEF ZpInv, Fresh
  <2>12. Fresh("vd", images, sdkTs)' /\ Fresh("pc", clouds, cloud)'
    BY <1>1, <2>1, <2>11 DEF ZpInv, ZpTypeOK, Fresh, Published, W, videoVars
  <2>13. QED  BY <2>4, <2>5, <2>8, <2>10, <2>12 DEF ZpInv
<1>5. QED  BY <1>3, <1>4

LEMMA PublishDepthKeeps ==
  ASSUME ZpInv, PublishDepth
  PROVE  ZpInv'
<1> DEFINE n == Len(images)
<1>1. /\ UNCHANGED <<input, launch, subs, counts, grab, frame, videoVars, cloud, stop, poseVars>>
      /\ UNCHANGED <<lock, ready, last, clouds>>
      /\ at["vd"] = "depth" /\ at' = [at EXCEPT !["vd"] = "sleep"] /\ lock["vd"] = "vd"
  BY DEF PublishDepth, Idle, GoW, ZpInv, Locked, Published, W
<1>2. grab # "depth"
  BY <1>1 DEF ZpInv, Locked, W
<1>3. /\ images \in Seq(ImagePairs) /\ n \in Nat \ {0} /\ DOMAIN images = 1..n
      /\ images[n].of = sdkTs /\ images[n].taken = taken
  BY <1>1 DEF ZpInv, ZpTypeOK, Retrieved
<1>4. /\ images' \in Seq(ImagePairs) /\ DOMAIN images' = 1..n
      /\ \A i \in 1..n : i # n => images'[i] = images[i]
      /\ \A i \in 1..n : images'[i].of = images[i].of
      /\ images'[n].rgb = images[n].rgb /\ images'[n].taken = images[n].taken
      /\ images'[n].depth \in {images[n].depth, depth}
  <2>1. depth \in Frames
    BY DEF ZpInv, ZpTypeOK
  <2>2. CASE images' = images
    BY <1>3, <2>2
  <2>3. CASE images' = [images EXCEPT ![n].depth = depth]
    <3>1. n \in 1..n /\ images[n] \in ImagePairs
      BY <1>3
    <3>2. [images[n] EXCEPT !.depth = depth] \in ImagePairs
      BY <2>1, <3>1 DEF ImagePairs
    <3>3. images' = [images EXCEPT ![n] = [images[n] EXCEPT !.depth = depth]]
      BY <2>3
    <3>4. images' \in Seq(ImagePairs) /\ DOMAIN images' = 1..n
      BY <1>3, <3>1, <3>2, <3>3
    <3>5. QED  BY <1>3, <3>1, <3>3, <3>4 DEF ImagePairs
  <2>4. QED  BY <2>2, <2>3 DEF PublishDepth, DepthWithInfo
<1> HIDE DEF n
<1>5. ZpTypeOK'
  BY <1>1, <1>4 DEF ZpInv, ZpTypeOK, videoVars, poseVars, W
<1>6. Locked' /\ Retrieved'
  BY <1>1, <1>2 DEF ZpInv, ZpTypeOK, Locked, Retrieved, Grabbed, Published, W, videoVars
<1>7. PairsMatch'
  <2> SUFFICES ASSUME NEW i \in 1..n
               PROVE  /\ images'[i].rgb # 0 /\ "rgb" \in images'[i].taken =>
                           images'[i].rgb = images'[i].of
                      /\ images'[i].depth # 0 /\ "depth" \in images'[i].taken =>
                           images'[i].depth = images'[i].of
    BY <1>4 DEF PairsMatch
  <2>1. CASE i # n
    BY <1>3, <1>4, <2>1 DEF ZpInv, PairsMatch
  <2>2. CASE i = n
    <3>1. "depth" \in taken => depth = sdkTs
      BY <1>2 DEF ZpInv, Retrieved
    <3>2. QED  BY <1>3, <1>4, <2>2, <3>1 DEF ZpInv, PairsMatch
  <2>3. QED  BY <2>1, <2>2
<1>8. Fresh("vd", images, sdkTs)' /\ Fresh("pc", clouds, cloud)'
  BY <1>1, <1>3, <1>4 DEF ZpInv, ZpTypeOK, Fresh, Published, W, videoVars
<1>9. QED  BY <1>5, <1>6, <1>7, <1>8 DEF ZpInv

LEMMA PublishCloudKeeps ==
  ASSUME ZpInv, PublishCloud
  PROVE  ZpInv'
<1> DEFINE p == [of |-> cloud, stamp |-> Stamp(cloud)]
<1>1. /\ UNCHANGED <<input, launch, subs, counts, grab, frame, videoVars, cloud, stop, poseVars>>
      /\ UNCHANGED <<lock, ready, images>>
      /\ at["pc"] = "publish" /\ at' = [at EXCEPT !["pc"] = "sleep"] /\ lock["pc"] = "pc" /\ ready["pc"]
      /\ last' = last \/ last' = [last EXCEPT !["pc"] = Stamp(cloud)]
      /\ clouds' = clouds \/ clouds' = Append(clouds, p)
  BY DEF PublishCloud, Idle, GoW, ZpInv, Locked, W
<1>2. Stamp(cloud) \in Frames /\ p \in Clouds /\ clouds \in Seq(Clouds) /\ p.of = cloud
  BY DEF ZpInv, ZpTypeOK, Clouds, Frames, Stamp
<1> HIDE DEF p
<1>3. clouds' \in Seq(Clouds)
  BY <1>1, <1>2
<1>4. ZpTypeOK'
  BY <1>1, <1>2, <1>3 DEF ZpInv, ZpTypeOK, videoVars, poseVars, W
<1>5. Locked' /\ Retrieved'
  BY <1>1 DEF ZpInv, ZpTypeOK, Locked, Retrieved, Grabbed, Published, W, videoVars
<1>6. PairsMatch'
  BY <1>1 DEF ZpInv, PairsMatch
<1>7. \A i \in DOMAIN clouds' : clouds'[i].of <= cloud
  <2>1. cloud \in Nat
    BY DEF ZpInv, ZpTypeOK, Frames
  <2>2. CASE clouds' = clouds
    BY <2>2 DEF ZpInv, Fresh
  <2>3. CASE clouds' = Append(clouds, p)
    <3>1. /\ Len(clouds) \in Nat /\ DOMAIN clouds = 1..Len(clouds)
          /\ DOMAIN clouds' = 1..(Len(clouds) + 1)
          /\ clouds'[Len(clouds) + 1] = p
          /\ \A i \in 1..Len(clouds) : clouds'[i] = clouds[i]
      BY <1>2, <2>3
    <3>2. QED  BY <1>2, <2>1, <3>1 DEF ZpInv, Fresh
  <2>4. QED  BY <1>1, <2>2, <2>3
<1>8. Fresh("vd", images, sdkTs)' /\ Fresh("pc", clouds, cloud)'
  BY <1>1, <1>7 DEF ZpInv, ZpTypeOK, Fresh, Published, W, videoVars
<1>9. QED  BY <1>4, <1>5, <1>6, <1>8 DEF ZpInv

-----------------------------------------------------------------------------
(* The executor, and all together. *)

LEMMA ExecutorKeeps ==
  ASSUME ZpInv, ResetOdometry \/ CallRestart \/ Restart \/ Join \/ Stop
  PROVE  ZpInv'
<1>1. /\ UNCHANGED <<input, launch, counts, grab, frame, videoVars, cloud, workVars, motion>>
      /\ subs' \subseteq Topics
      /\ {odom', map2odom', world'} \subseteq 0..(Poses - 1)
  BY DEF ZpInv, ZpTypeOK, ResetOdometry, ResetRequest, CallRestart, Restart, Join, Stop, poseVars
<1>2. ZpTypeOK'
  BY <1>1 DEF ZpInv, ZpTypeOK, videoVars, workVars
<1>3. Locked' /\ Retrieved'
  BY <1>1 DEF ZpInv, Locked, Retrieved, videoVars, workVars
<1>4. PairsMatch' /\ Fresh("vd", images, sdkTs)' /\ Fresh("pc", clouds, cloud)'
  BY <1>1 DEF ZpInv, PairsMatch, Fresh, videoVars, workVars
<1>5. QED  BY <1>2, <1>3, <1>4 DEF ZpInv

LEMMA ZpInvNext == ASSUME ZpInv, [ZpNext]_zpVars PROVE ZpInv'
<1>1. CASE UNCHANGED zpVars
  <2>1. UNCHANGED <<input, launch, subs, counts, grab, frame, videoVars, cloud, workVars, stop, poseVars>>
    BY <1>1 DEF zpVars
  <2>2. ZpTypeOK' /\ Locked' /\ Retrieved'
    BY <2>1 DEF ZpInv, ZpTypeOK, Locked, Retrieved, videoVars, workVars, poseVars
  <2>3. PairsMatch' /\ Fresh("vd", images, sdkTs)' /\ Fresh("pc", clouds, cloud)'
    BY <2>1 DEF ZpInv, PairsMatch, Fresh, videoVars, workVars
  <2>4. QED  BY <2>2, <2>3 DEF ZpInv
<1>2. QED
  BY <1>1, GrabKeeps, WorkKeeps, PublishRgbKeeps, PublishDepthKeeps, PublishCloudKeeps, ExecutorKeeps
  DEF ZpNext, VideoStep

(* An image and a depth map that were retrieved together and are published    *)
(* together are of one frame, the one in their header, whatever the three     *)
(* threads, the subscribers and the services do meanwhile.                    *)
THEOREM ZpInvariant == ZpSpec => []ZpInv
  BY ZpInvInit, ZpInvNext, PTL DEF ZpSpec

-----------------------------------------------------------------------------
(* The order of what leaves. *)

\* The part of StampsMatch about one topic.
InOrder(out) ==
  /\ \A i, j \in DOMAIN out : i < j => out[i].of < out[j].of
  /\ input = "live" => \A i \in DOMAIN out : out[i].stamp = out[i].of

LEMMA StampsMatchParts == StampsMatch <=> InOrder(images) /\ InOrder(clouds)
  BY DEF StampsMatch, InOrder

\* What is appended is newer than all that has left.
LEMMA AppendInOrder ==
  ASSUME NEW S, NEW out \in Seq(S), NEW p \in S, InOrder(out),
         \A i \in DOMAIN out : out[i].of < p.of,
         input = "live" => p.stamp = p.of
  PROVE  InOrder(Append(out, p))
<1>1. /\ Len(out) \in Nat /\ DOMAIN out = 1..Len(out)
      /\ DOMAIN Append(out, p) = 1..(Len(out) + 1)
      /\ Append(out, p)[Len(out) + 1] = p
      /\ \A i \in 1..Len(out) : Append(out, p)[i] = out[i]
  OBVIOUS
<1>2. ASSUME NEW i \in 1..(Len(out) + 1), NEW j \in 1..(Len(out) + 1), i < j
      PROVE  Append(out, p)[i].of < Append(out, p)[j].of
  <2>1. i \in 1..Len(out)
    BY <1>1, <1>2
  <2>2. CASE j = Len(out) + 1
    BY <1>1, <2>1, <2>2
  <2>3. CASE j \in 1..Len(out)
    BY <1>1, <1>2, <2>1, <2>3 DEF InOrder
  <2>4. QED  BY <1>1, <2>2, <2>3
<1>3. ASSUME input = "live", NEW i \in 1..(Len(out) + 1)
      PROVE  Append(out, p)[i].stamp = Append(out, p)[i].of
  BY <1>1, <1>3 DEF InOrder
<1>4. QED  BY <1>1, <1>2, <1>3 DEF InOrder

LEMMA ImagesInOrder ==
  ASSUME ZpInv, InOrder(images), PublishRgb
  PROVE  InOrder(images)'
<1>1. input' = input
  BY DEF PublishRgb, Idle
<1>2. CASE images' = images
  BY <1>1, <1>2 DEF InOrder
<1>3. CASE images' # images
  <2> DEFINE p == [rgb |-> IF "rgb" \in counts THEN rgb ELSE 0, depth |-> 0, stamp |-> Stamp(sdkTs),
                   of |-> sdkTs, taken |-> taken]
  <2>1. images' = Append(images, p)
    BY <1>3 DEF PublishRgb, ImageWithInfo
  <2>2. images \in Seq(ImagePairs) /\ p \in ImagePairs
    BY DEF ZpInv, ZpTypeOK, ImagePairs, Frames, Stamp
  <2>3. p.of = sdkTs /\ (input = "live" => p.stamp = sdkTs)
    BY DEF Stamp
  <2> HIDE DEF p
  <2>4. at["vd"] = "publish" /\ ready["vd"]
    BY DEF PublishRgb, GoW, ZpInv, Locked, W
  <2>5. \A i \in DOMAIN images : images[i].of < p.of
    BY <2>3, <2>4 DEF ZpInv, Fresh, Published
  <2>6. InOrder(Append(images, p))
    BY <2>2, <2>3, <2>5, AppendInOrder
  <2>7. QED  BY <1>1, <2>1, <2>6 DEF InOrder
<1>4. QED  BY <1>2, <1>3

\* The depth maps are added to the last pair: its frame and its stamp stay.
LEMMA DepthInOrder ==
  ASSUME ZpInv, InOrder(images), PublishDepth
  PROVE  InOrder(images)'
<1> DEFINE n == Len(images)
<1>1. input' = input
  BY DEF PublishDepth, Idle
<1>2. images \in Seq(ImagePairs) /\ n \in Nat \ {0} /\ DOMAIN images = 1..n
  BY DEF PublishDepth, GoW, ZpInv, ZpTypeOK, Retrieved
<1>3. DOMAIN images' = 1..n /\ \A i \in 1..n : images'[i].of = images[i].of /\ images'[i].stamp = images[i].stamp
  <2>1. CASE images' = images
    BY <1>2, <2>1
  <2>2. CASE images' = [images EXCEPT ![n] = [images[n] EXCEPT !.depth = depth]]
    <3>1. n \in 1..n /\ images[n] \in ImagePairs
      BY <1>2
    <3>2. QED  BY <1>2, <2>2, <3>1 DEF ImagePairs
  <2>3. QED  BY <2>1, <2>2 DEF PublishDepth, DepthWithInfo
<1> HIDE DEF n
<1>4. QED  BY <1>1, <1>2, <1>3 DEF InOrder

LEMMA CloudsInOrder ==
  ASSUME ZpInv, InOrder(clouds), PublishCloud
  PROVE  InOrder(clouds)'
<1>1. input' = input
  BY DEF PublishCloud, Idle
<1>2. CASE clouds' = clouds
  BY <1>1, <1>2 DEF InOrder
<1>3. CASE clouds' # clouds
  <2> DEFINE p == [of |-> cloud, stamp |-> Stamp(cloud)]
  <2>1. clouds' = Append(clouds, p)
    BY <1>3 DEF PublishCloud
  <2>2. clouds \in Seq(Clouds) /\ p \in Clouds
    BY DEF ZpInv, ZpTypeOK, Clouds, Frames, Stamp
  <2>3. p.of = cloud /\ (input = "live" => p.stamp = cloud)
    BY DEF Stamp
  <2> HIDE DEF p
  <2>4. at["pc"] = "publish" /\ ready["pc"]
    BY DEF PublishCloud, GoW, ZpInv, Locked, W
  <2>5. \A i \in DOMAIN clouds : clouds[i].of < p.of
    BY <2>3, <2>4 DEF ZpInv, Fresh, Published
  <2>6. InOrder(Append(clouds, p))
    BY <2>2, <2>3, <2>5, AppendInOrder
  <2>7. QED  BY <1>1, <2>1, <2>6 DEF InOrder
<1>4. QED  BY <1>2, <1>3

LEMMA StampsNext ==
  ASSUME ZpInv, StampsMatch, [ZpNext]_zpVars
  PROVE  StampsMatch'
<1>1. InOrder(images) /\ InOrder(clouds)
  BY StampsMatchParts
<1>2. CASE PublishRgb
  <2>1. clouds' = clouds /\ input' = input
    BY <1>2 DEF PublishRgb, Idle
  <2>2. QED  BY <1>1, <1>2, <2>1, ImagesInOrder DEF StampsMatch, InOrder
<1>3. CASE PublishDepth
  <2>1. clouds' = clouds /\ input' = input
    BY <1>3 DEF PublishDepth, Idle
  <2>2. QED  BY <1>1, <1>3, <2>1, DepthInOrder DEF StampsMatch, InOrder
<1>4. CASE PublishCloud
  <2>1. images' = images /\ input' = input
    BY <1>4 DEF PublishCloud, Idle
  <2>2. QED  BY <1>1, <1>4, <2>1, CloudsInOrder DEF StampsMatch, InOrder
<1>5. CASE UNCHANGED <<images, clouds, input>>
  BY <1>5 DEF StampsMatch
<1>6. CASE GrabStep
  <2>1. UNCHANGED <<images, clouds, input>>
    BY <1>6 DEF GrabStep, Top, Required, Subscribed, Refresh, Grab, Video, Depth, Cloud, Odometry, Pose,
       Tf, workVars
  <2>2. QED  BY <1>5, <2>1
<1>7. CASE \E w \in W : WorkStep(w)
  <2>1. UNCHANGED <<images, clouds, input>>
    BY <1>7 DEF WorkStep, Start, Lock, Check, Wake, EndWait, Sleep, Slept, Idle
  <2>2. QED  BY <1>5, <2>1
<1>8. CASE ResetOdometry \/ CallRestart \/ Restart \/ Join \/ Stop \/ UNCHANGED zpVars
  <2>1. UNCHANGED <<images, clouds, input>>
    BY <1>8 DEF ResetOdometry, CallRestart, Restart, Join, Stop, zpVars, workVars
  <2>2. QED  BY <1>5, <2>1
<1>9. QED  BY <1>2, <1>3, <1>4, <1>6, <1>7, <1>8 DEF ZpNext, VideoStep

(* No image pair and no cloud leaves the node twice or after a later one, from *)
(* a camera or from a recording, and those of a live camera carry the stamp of *)
(* their frame.                                                               *)
THEOREM ZpStamps == ZpSpec => []StampsMatch
<1>1. ZpInit => StampsMatch
  BY DEF ZpInit, StampsMatch
<1>2. QED  BY <1>1, StampsNext, ZpInvariant, PTL DEF ZpSpec

-----------------------------------------------------------------------------
(* The transforms. *)

LEMMA ChainNext ==
  ASSUME ZpInv, ChainMatches, [ZpNext]_zpVars
  PROVE  ChainMatches'
<1>1. CASE Pose
  <2>1. odom \in 0..(Poses - 1) /\ world \in 0..(Poses - 1)
    BY DEF ZpInv, ZpTypeOK
  <2>2. /\ odom' = odom /\ world' = world /\ odomOk' = odomOk
        /\ odomOk => map2odom' = (world - odom) % Poses
    BY <1>1 DEF Pose
  <2>3. QED  BY <2>1, <2>2, ComposeBack DEF ChainMatches
<1>2. CASE GrabStep /\ ~Pose
  <2>1. grab' # "tf"
    BY <1>2 DEF GrabStep, Top, Required, Subscribed, Refresh, Grab, Video, Depth, Cloud, Odometry, Tf, Go
  <2>2. QED  BY <2>1 DEF ChainMatches
<1>3. CASE Restart
  <2>1. grab' = grab /\ grab # "tf"
    BY <1>3 DEF Restart
  <2>2. QED  BY <2>1 DEF ChainMatches
<1>4. CASE UNCHANGED <<grab, odomOk, map2odom, odom, world>>
  BY <1>4 DEF ChainMatches
<1>5. CASE VideoStep \/ PublishCloud \/ \E w \in W : WorkStep(w)
  <2>1. UNCHANGED <<grab, odomOk, map2odom, odom, world>>
    BY <1>5 DEF VideoStep, PublishRgb, PublishDepth, PublishCloud, WorkStep, Start, Lock, Check, Wake,
       EndWait, Sleep, Slept, Idle, poseVars
  <2>2. QED  BY <1>4, <2>1
<1>6. CASE ResetOdometry \/ CallRestart \/ Join \/ Stop \/ UNCHANGED zpVars
  <2>1. UNCHANGED <<grab, odomOk, map2odom, odom, world>>
    BY <1>6 DEF ResetOdometry, ResetRequest, CallRestart, Join, Stop, zpVars, poseVars
  <2>2. QED  BY <1>4, <2>1
<1>7. QED  BY <1>1, <1>2, <1>3, <1>5, <1>6 DEF ZpNext

(* Whenever the transforms are broadcast for a frame with valid odometry,      *)
(* map -> odom composed with odom -> base is the pose of the SDK: a reset of   *)
(* the odometry, whenever it is asked for, never moves the base in the map.    *)
THEOREM ZpChain == ZpSpec => []ChainMatches
<1>1. ZpInit => ChainMatches
  BY DEF ZpInit, ChainMatches
<1>2. QED  BY <1>1, ChainNext, ZpInvariant, PTL DEF ZpSpec

HIDE ZedPipelineAssumption DEF ZedPipelineAssumption

-----------------------------------------------------------------------------
(***************************************************************************)
(* The parameters.  The callback is a fold over the parameters of a call:  *)
(* first what a handler does to the members of the node, then a parameter, *)
(* then a call of one or of two; then what the thread has come past when a *)
(* step is done, and each action.                                          *)
(***************************************************************************)

LEMMA SetsOfParams ==
  /\ Declared \subseteq Params /\ Autos \subseteq Declared /\ Rates \subseteq Declared
  /\ \A p \in Manual : AutoOf(p) \in Autos
  /\ VideoParams \subseteq Params /\ Manual \subseteq VideoParams /\ Autos \subseteq VideoParams
  /\ Manual \cap Autos = {} /\ Rates \cap VideoParams = {}
<1> USE DEF Declared, VideoDeclared, DepthDeclared, ObjDeclared, Params, VideoParams, Usb3, Gmsl2,
            Common, Rates, Autos, Manual, AutoOf
<1>1. QED  OBVIOUS

LEMMA SentIsNat == GrabRate \in Nat => \A p \in Params : Sent(p) \subseteq Nat
  BY DEF Sent, Rates

\* The members of the node, as the callback works on them.
Sane(n) ==
  /\ n \in [wish : [Declared -> Nat], trigger : SUBSET Autos,
            dirty : SUBSET {"video", "obj", "body"}, refused : BOOLEAN]
  /\ \A p \in Declared : n.wish[p] \in Sent(p)
  /\ \A p \in Rates : n.wish[p] > 0

\* The group of a parameter is marked.
Marked(m, p) ==
  /\ p \in VideoParams => "video" \in m.dirty
  /\ p = "people" => "obj" \in m.dirty
  /\ p = "keypoints" => "body" \in m.dirty

\* From n to m, handling p: marks are only set, what changes is p, or the automatic mode of p,
\* and is marked; a mode that is switched on is triggered.
Grows(n, m, p) ==
  /\ Sane(m) /\ n.trigger \subseteq m.trigger /\ n.dirty \subseteq m.dirty
  /\ \A q \in Declared : m.wish[q] # n.wish[q] => (q = p \/ (p \in Manual /\ q = AutoOf(p))) /\ Marked(m, p)
  /\ \A a \in Autos : m.wish[a] = 1 /\ n.wish[a] # 1 => a \in m.trigger

\* What accepting p comes to.
Effect(m, p, v) == Marked(m, p) /\ (p \notin Rates \cup Autos => m.wish[p] = v)

LEMMA GrowsByItself == ASSUME NEW n, NEW p, Sane(n) PROVE Grows(n, n, p)
  BY DEF Grows, Sane

LEMMA GrowsByRefusal ==
  ASSUME NEW n, NEW p, Sane(n) PROVE Grows(n, Refuse(n), p) /\ Refuse(n).refused /\ Refuse(n).wish = n.wish
  BY DEF Grows, Sane, Refuse

LEMMA GrowsByMark ==
  ASSUME NEW n, NEW p, Sane(n), NEW g \in {"video", "obj", "body"}
  PROVE  /\ Grows(n, Dirty(n, g), p) /\ Dirty(n, g).wish = n.wish /\ g \in Dirty(n, g).dirty
         /\ Dirty(n, g).refused = n.refused /\ Dirty(n, g).dirty = n.dirty \cup {g}
         /\ Dirty(n, g).trigger = n.trigger
  BY DEF Grows, Sane, Dirty

LEMMA SetStays ==
  ASSUME NEW n, Sane(n), NEW p \in Declared, NEW v \in Sent(p), v \in Nat, p \in Rates => v > 0
  PROVE  LET m == Set(n, p, v)
         IN Sane(m) /\ m.wish[p] = v /\ (\A q \in Declared \ {p} : m.wish[q] = n.wish[q])
            /\ m.trigger = n.trigger /\ m.dirty = n.dirty /\ m.refused = n.refused
<1>1. n = [wish |-> n.wish, trigger |-> n.trigger, dirty |-> n.dirty, refused |-> n.refused]
  BY DEF Sane
<1>2. Set(n, p, v) = [wish |-> [n.wish EXCEPT ![p] = v], trigger |-> n.trigger, dirty |-> n.dirty,
                      refused |-> n.refused]
  BY <1>1 DEF Set
<1>3. [n.wish EXCEPT ![p] = v] \in [Declared -> Nat]
  BY DEF Sane
<1>4. QED  BY <1>2, <1>3 DEF Sane

\* What a handler that has to do with p does, and one that has not.
Handled(n, m, p, v, mine) ==
  /\ Grows(n, m, p)
  /\ p \notin mine => m.wish = n.wish
  /\ p \in mine /\ ~m.refused => Effect(m, p, v)

LEMMA OwnHandled ==
  ASSUME NEW n, Sane(n), NEW p \in Declared, NEW v \in Sent(p), v \in Nat, GrabRate \in Nat \ {0}
  PROVE  Handled(n, HandleOwnParams(n, p, v), p, v, {"fused_pointcloud_freq"})
<1> DEFINE m == HandleOwnParams(n, p, v)
           highest == n.wish["point_cloud_freq"]
<1>1. CASE p # "fused_pointcloud_freq"
  BY <1>1, GrowsByItself DEF HandleOwnParams, Handled
<1>2. CASE p = "fused_pointcloud_freq" /\ v > highest
  BY <1>2, GrowsByRefusal DEF HandleOwnParams, Handled
<1>3. CASE p = "fused_pointcloud_freq" /\ ~(v > highest)
  <2>1. highest \in 1..GrabRate
    <3>1. "point_cloud_freq" \in Declared \cap Rates /\ Sent("point_cloud_freq") = 0..GrabRate
      BY SetsOfParams DEF Rates, Sent
    <3>2. QED  BY <3>1 DEF Sane
  <2>2. Rate(v, highest) \in 1..GrabRate /\ Sent(p) = 0..GrabRate
    BY <1>3, <2>1 DEF Rate, Sent, Rates
  <2>3. m = Set(n, p, Rate(v, highest))
    BY <1>3 DEF HandleOwnParams
  <2>4. /\ Sane(m) /\ (\A q \in Declared \ {p} : m.wish[q] = n.wish[q])
        /\ m.trigger = n.trigger /\ m.dirty = n.dirty
    <3> HIDE DEF m, highest
    <3>1. Rate(v, highest) \in Sent(p) /\ Rate(v, highest) \in Nat /\ Rate(v, highest) > 0
      BY <2>2
    <3>2. QED  BY <2>3, <3>1, SetStays
  <2>5. Marked(m, p) /\ p \in Rates /\ p \notin Autos
    BY <1>3 DEF Marked, VideoParams, Usb3, Gmsl2, Common, Autos, Rates
  <2>6. \A a \in Autos : m.wish[a] = n.wish[a]
    BY <2>4, <2>5, SetsOfParams
  <2>7. QED  BY <2>4, <2>5, <2>6, <1>3 DEF Handled, Grows, Effect
<1>4. QED  BY <1>1, <1>2, <1>3

\* A parameter of the video group that is set and marked, with its automatic mode or without.
LEMMA MarkedVideo ==
  ASSUME NEW n, Sane(n), NEW p \in Declared \cap VideoParams, NEW v \in Sent(p), v \in Nat, p \notin Autos,
         NEW m, m = Dirty(IF p \in Manual THEN SetManual(n, p, v) ELSE Set(n, p, v), "video")
  PROVE  Handled(n, m, p, v, {p}) 
<1>1. p \notin Rates /\ p \notin {"people", "keypoints"}
  BY DEF VideoParams, Usb3, Gmsl2, Common, Autos, Rates
<1> DEFINE s == Set(n, p, v)
           a == AutoOf(p)
<1>2. Sane(s) /\ s.wish[p] = v /\ (\A q \in Declared \ {p} : s.wish[q] = n.wish[q])
      /\ s.trigger = n.trigger /\ s.dirty = n.dirty /\ s.refused = n.refused
  BY <1>1, SetStays
<1>3. CASE p \in Manual
  <2>1. a \in Autos /\ a \in Declared /\ a # p /\ 0 \in Sent(a) /\ a \notin Rates
    BY <1>3, SetsOfParams DEF AutoOf, Sent, Autos, Rates
  <2> DEFINE t == Set(s, a, 0)
  <2>2. Sane(t) /\ t.wish[a] = 0 /\ (\A q \in Declared \ {a} : t.wish[q] = s.wish[q])
        /\ t.trigger = s.trigger /\ t.dirty = s.dirty /\ t.refused = s.refused
    <3> HIDE DEF s, a
    <3>1. QED  BY <1>2, <2>1, SetStays
  <2>3. m = Dirty(t, "video")
    BY <1>3 DEF SetManual
  <2>4. /\ Sane(m) /\ m.wish = t.wish /\ m.dirty = n.dirty \cup {"video"} /\ m.trigger = n.trigger
    <3> HIDE DEF s, a, t
    <3>1. QED  BY <1>2, <2>2, <2>3, GrowsByMark DEF Grows
  <2> HIDE DEF s, a, t
  <2>5. Marked(m, p) 
    BY <2>4, <1>1 DEF Marked
  <2>6. m.wish[p] = v /\ \A q \in Declared : m.wish[q] # n.wish[q] => q = p \/ (p \in Manual /\ q = AutoOf(p))
    BY <1>2, <1>3, <2>1, <2>2, <2>4 DEF a
  <2>7. \A b \in Autos : m.wish[b] = 1 => n.wish[b] = 1
    BY <1>2, <2>1, <2>2, <2>4, SetsOfParams
  <2>8. QED  BY <2>4, <2>5, <2>6, <2>7 DEF Handled, Grows, Effect
<1>4. CASE p \notin Manual
  <2>3. m = Dirty(s, "video")
    BY <1>4
  <2>4. /\ Sane(m) /\ m.wish = s.wish /\ m.dirty = n.dirty \cup {"video"} /\ m.trigger = n.trigger
    <3> HIDE DEF s
    <3>1. QED  BY <1>2, <2>3, GrowsByMark DEF Grows
  <2> HIDE DEF s
  <2>5. Marked(m, p) 
    BY <2>4, <1>1 DEF Marked
  <2>7. \A b \in Autos : m.wish[b] = n.wish[b]
    BY <1>2, <2>4, SetsOfParams
  <2>8. QED  BY <1>2, <2>4, <2>5, <2>7 DEF Handled, Grows, Effect
<1>5. QED  BY <1>3, <1>4

LEMMA AutoHandled ==
  ASSUME NEW n, Sane(n), NEW p \in Autos, NEW v \in Sent(p), v \in Nat,
         NEW m, m = HandleAuto(n, p, v)
  PROVE  Handled(n, m, p, v, {p}) 
<1>1. p \notin Rates /\ p \notin {"people", "keypoints"} /\ p \in Declared
  BY SetsOfParams DEF Autos, Rates
<1> DEFINE s == Set(n, p, v)
           t == [s EXCEPT !.trigger = @ \cup (IF v # n.wish[p] THEN {p} ELSE {})]
<1>2. Sane(s) /\ s.wish[p] = v /\ (\A q \in Declared \ {p} : s.wish[q] = n.wish[q])
      /\ s.trigger = n.trigger /\ s.dirty = n.dirty /\ s.refused = n.refused
  BY <1>1, SetStays
<1>3. /\ Sane(t) /\ t.wish = s.wish /\ t.dirty = s.dirty
      /\ t.trigger = n.trigger \cup (IF v # n.wish[p] THEN {p} ELSE {})
  <2> HIDE DEF s
  <2>1. QED  BY <1>2 DEF Sane
<1>4. m = Dirty(t, "video")
  BY DEF HandleAuto
<1>5. /\ Sane(m) /\ m.wish = s.wish /\ m.dirty = n.dirty \cup {"video"} /\ m.trigger = t.trigger
  <2> HIDE DEF s, t
  <2>1. QED  BY <1>2, <1>3, <1>4, GrowsByMark DEF Grows
<1> HIDE DEF s, t
<1>6. Marked(m, p)
  BY <1>5, <1>1 DEF Marked
<1>7. \A b \in Autos : m.wish[b] = 1 /\ n.wish[b] # 1 => b \in m.trigger
  BY <1>2, <1>3, <1>5, SetsOfParams
<1>8. m.wish[p] = v /\ \A q \in Declared : m.wish[q] # n.wish[q] => q = p
  BY <1>2, <1>5
<1>9. QED  BY <1>3, <1>5, <1>6, <1>7, <1>8 DEF Handled, Grows, Effect

LEMMA GroupsDisjoint ==
  \A p : /\ p \in Gmsl2 => p \notin Usb3 \cup Common \cup {"depth_confidence", "point_cloud_freq"}
         /\ p \in Usb3 => p \notin Common \cup {"depth_confidence", "point_cloud_freq"} \cup Manual
         /\ p \in Common => p \notin {"depth_confidence", "point_cloud_freq"}
  BY DEF Gmsl2, Usb3, Common, Autos, Manual

LEMMA VideoHandled ==
  ASSUME NEW n, Sane(n), NEW p \in Declared, NEW v \in Sent(p), v \in Nat, GrabRate \in Nat \ {0}
  PROVE  Handled(n, HandleVideoDepthDynamicParams(n, p, v), p, v,
                 VideoParams \cup {"depth_confidence", "point_cloud_freq"})
<1> DEFINE m == HandleVideoDepthDynamicParams(n, p, v)
<1>1. CASE p \in Autos
  <2>1. p \in Common /\ p \notin Gmsl2 \cup Usb3 /\ p \in VideoParams
    BY <1>1 DEF Autos, Common, Gmsl2, Usb3, VideoParams
  <2>2. m = HandleAuto(n, p, v)
    BY <1>1, <2>1, GroupsDisjoint DEF HandleVideoDepthDynamicParams, HandleCommonVideoParams
  <2>3. Handled(n, m, p, v, {p})
    BY <1>1, <2>2, AutoHandled
  <2>4. QED  BY <2>1, <2>3 DEF Handled
<1>2. CASE p \in VideoParams \ Autos
  <2>1. m = Dirty(IF p \in Manual THEN SetManual(n, p, v) ELSE Set(n, p, v), "video")
    <3>1. CASE p \in Gmsl2
      BY <3>1, GroupsDisjoint DEF HandleVideoDepthDynamicParams, HandleGmsl2Params
    <3>2. CASE p \in Usb3
      BY <3>2, GroupsDisjoint DEF HandleVideoDepthDynamicParams, HandleUsb3Params
    <3>3. CASE p \notin Gmsl2 /\ p \notin Usb3
      <4>1. p \in Common
        BY <3>3, <1>2 DEF VideoParams
      <4>2. QED  BY <3>3, <4>1, <1>2, GroupsDisjoint DEF HandleVideoDepthDynamicParams, HandleCommonVideoParams
    <3>4. QED  BY <3>1, <3>2, <3>3
  <2> HIDE DEF m
  <2>2. Handled(n, m, p, v, {p})
    BY <1>2, <2>1, MarkedVideo
  <2>3. QED  BY <1>2, <2>2 DEF m, Handled
<1>3. CASE p \in {"depth_confidence", "point_cloud_freq"}
  <2>1. p \notin VideoParams /\ p \notin Gmsl2 /\ p \notin Usb3 /\ p \notin Common
    BY <1>3 DEF VideoParams, Usb3, Gmsl2, Common, Autos
  <2> DEFINE w == IF p \in Rates THEN Rate(v, GrabRate) ELSE v
  <2>2. m = Set(n, p, w)
    BY <1>3, <2>1 DEF HandleVideoDepthDynamicParams, HandleDepthParams
  <2>3. w \in Sent(p) /\ w \in Nat /\ (p \in Rates => w > 0)
    BY DEF Rate, Sent, Rates
  <2>4. /\ Sane(m) /\ m.wish[p] = w /\ (\A q \in Declared \ {p} : m.wish[q] = n.wish[q])
        /\ m.trigger = n.trigger /\ m.dirty = n.dirty
    <3> HIDE DEF m, w
    <3>1. QED  BY <2>2, <2>3, SetStays
  <2> HIDE DEF m
  <2>5. Marked(m, p)
    BY <1>3, <2>1 DEF Marked
  <2>6. \A b \in Autos : m.wish[b] = n.wish[b]
    BY <2>1, <2>4, SetsOfParams
  <2>7. QED  BY <1>3, <2>4, <2>5, <2>6 DEF m, Handled, Grows, Effect
<1>4. CASE p \notin VideoParams \cup {"depth_confidence", "point_cloud_freq"}
  <2>1. m = n
    BY <1>4 DEF HandleVideoDepthDynamicParams, VideoParams
  <2>2. QED  BY <1>4, <2>1, GrowsByItself DEF Handled
<1>5. QED  BY <1>1, <1>2, <1>3, <1>4

\* A parameter of the objects or the bodies.
LEMMA SetOther ==
  ASSUME NEW n, Sane(n), NEW p \in Declared, p \notin VideoParams, p \notin Rates, NEW v \in Sent(p), v \in Nat,
         NEW g \in {"obj", "body"}, p = "people" => g = "obj", p = "keypoints" => g = "body",
         NEW m, m = Dirty(Set(n, p, v), g)
  PROVE  Handled(n, m, p, v, {p})
<1> DEFINE s == Set(n, p, v)
<1>1. Sane(s) /\ s.wish[p] = v /\ (\A q \in Declared \ {p} : s.wish[q] = n.wish[q])
      /\ s.trigger = n.trigger /\ s.dirty = n.dirty
  BY SetStays
<1>2. Sane(m) /\ m.wish = s.wish /\ m.dirty = n.dirty \cup {g} /\ m.trigger = n.trigger
  <2> HIDE DEF s
  <2>1. m = Dirty(s, g) BY DEF s
  <2>2. QED  BY <1>1, <2>1, GrowsByMark DEF Grows
<1> HIDE DEF s
<1>3. Marked(m, p)
  BY <1>2 DEF Marked
<1>4. \A b \in Autos : m.wish[b] = n.wish[b]
  BY <1>1, <1>2, SetsOfParams
<1>5. QED  BY <1>1, <1>2, <1>3, <1>4 DEF Handled, Grows, Effect

LEMMA MarkedOnly ==
  ASSUME NEW n, Sane(n), NEW p, NEW v, NEW g \in {"obj", "body"}
  PROVE  Handled(n, Dirty(n, g), p, v, {})
  BY GrowsByMark DEF Handled

LEMMA RefusedOnly ==
  ASSUME NEW n, Sane(n), NEW p, NEW v, NEW mine
  PROVE  p \in mine => Handled(n, Refuse(n), p, v, mine)
  BY GrowsByRefusal DEF Handled

Objects(n, p, v) == IF launched.custom THEN HandleCustomOdDynamicParams(n, p, v)
                    ELSE HandleOdDynamicParams(n, p, v)

LEMMA ObjectsHandled ==
  ASSUME NEW n, Sane(n), NEW p \in Declared, NEW v \in Sent(p), v \in Nat
  PROVE  Handled(n, Objects(n, p, v), p, v, {"people", "class"})
<1>1. /\ p \in {"people", "class"} => p \notin VideoParams /\ p \notin Rates
      /\ launched.custom => p # "people"
      /\ ~launched.custom => p # "class"
  BY DEF VideoParams, Usb3, Gmsl2, Common, Autos, Rates, Declared, VideoDeclared, DepthDeclared, ObjDeclared
<1>2. CASE launched.custom /\ p = "class" /\ v > 1
  BY <1>2, RefusedOnly DEF Objects, HandleCustomOdDynamicParams
<1>3. CASE launched.custom /\ p = "class" /\ ~(v > 1)
  <2>1. Objects(n, p, v) = Dirty(Set(n, p, v), "obj")
    BY <1>3 DEF Objects, HandleCustomOdDynamicParams
  <2>2. Handled(n, Dirty(Set(n, p, v), "obj"), p, v, {p})
    BY <1>1, <1>3, SetOther
  <2>3. QED  BY <1>3, <2>1, <2>2 DEF Handled
<1>4. CASE launched.custom /\ p # "class"
  <2>1. Objects(n, p, v) = n
    BY <1>4 DEF Objects, HandleCustomOdDynamicParams
  <2>2. QED  BY <1>1, <1>4, <2>1, GrowsByItself DEF Handled
<1>5. CASE ~launched.custom /\ p = "people"
  <2>1. Objects(n, p, v) = Dirty(Set(n, p, v), "obj")
    BY <1>5 DEF Objects, HandleOdDynamicParams
  <2>2. Handled(n, Dirty(Set(n, p, v), "obj"), p, v, {p})
    BY <1>1, <1>5, SetOther
  <2>3. QED  BY <1>5, <2>1, <2>2 DEF Handled
<1>6. CASE ~launched.custom /\ p # "people"
  <2>1. Objects(n, p, v) = Dirty(n, "obj")
    BY <1>6 DEF Objects, HandleOdDynamicParams
  <2>2. Handled(n, Dirty(n, "obj"), p, v, {})
    BY MarkedOnly
  <2>3. QED  BY <1>1, <1>6, <2>1, <2>2 DEF Handled
<1>7. QED  BY <1>2, <1>3, <1>4, <1>5, <1>6

LEMMA BodiesHandled ==
  ASSUME NEW n, Sane(n), NEW p \in Declared, NEW v \in Sent(p), v \in Nat
  PROVE  Handled(n, HandleBodyTrkDynamicParams(n, p, v), p, v, {"keypoints"})
<1>1. p = "keypoints" => p \notin VideoParams /\ p \notin Rates
  BY DEF VideoParams, Usb3, Gmsl2, Common, Autos, Rates
<1>2. CASE p = "keypoints" /\ v > 1
  BY <1>2, RefusedOnly DEF HandleBodyTrkDynamicParams
<1>3. CASE p = "keypoints" /\ ~(v > 1)
  <2>1. HandleBodyTrkDynamicParams(n, p, v) = Dirty(Set(n, p, v), "body")
    BY <1>3 DEF HandleBodyTrkDynamicParams
  <2>2. Handled(n, HandleBodyTrkDynamicParams(n, p, v), p, v, {p})
    BY <1>1, <1>3, <2>1, SetOther
  <2>3. QED  BY <1>3, <2>2
<1>4. CASE p # "keypoints"
  <2>1. HandleBodyTrkDynamicParams(n, p, v) = Dirty(n, "body")
    BY <1>4 DEF HandleBodyTrkDynamicParams
  <2>2. Handled(n, Dirty(n, "body"), p, v, {})
    BY MarkedOnly
  <2>3. QED  BY <1>4, <2>1, <2>2 DEF Handled
<1>5. QED  BY <1>2, <1>3, <1>4

\* What an iteration of the callback has come to.
Done(n, m, p, v, mine) == Grows(n, m, p) /\ (p \in mine /\ ~m.refused => Effect(m, p, v))

LEMMA GrowsOn ==
  ASSUME NEW n, NEW m, NEW k, NEW p, Grows(n, m, p), Grows(m, k, p)
  PROVE  Grows(n, k, p)
<1>1. Marked(m, p) => Marked(k, p)
  BY DEF Marked, Grows
<1>2. QED  BY <1>1 DEF Grows

LEMMA DoneOn ==
  ASSUME NEW n, NEW m, NEW k, NEW p, NEW v, NEW a, NEW b, Done(n, m, p, v, a),
         IF m.refused THEN k = m ELSE Handled(m, k, p, v, b), m.refused \in BOOLEAN
  PROVE  Done(n, k, p, v, a \cup b)
<1>1. CASE m.refused
  BY <1>1 DEF Done
<1>2. CASE ~m.refused
  <2>1. Grows(m, k, p) /\ Grows(n, k, p)
    BY <1>2, GrowsOn DEF Done, Handled
  <2>2. Effect(m, p, v) /\ k.wish = m.wish => Effect(k, p, v)
    BY <2>1 DEF Effect, Marked, Grows
  <2>3. QED  BY <1>2, <2>1, <2>2 DEF Done, Handled
<1>3. QED  BY <1>1, <1>2

LEMMA ParamHandled ==
  ASSUME NEW n, Sane(n), NEW p \in Declared, NEW v \in Sent(p), v \in Nat, GrabRate \in Nat \ {0},
         NEW m, m = HandleParam(n, <<p, v>>)
  PROVE  (n.refused => m = n) /\ Done(n, m, p, v, {p})
<1> DEFINE m1 == IF n.refused THEN n ELSE HandleOwnParams(n, p, v)
           m2 == IF m1.refused THEN m1 ELSE HandleVideoDepthDynamicParams(m1, p, v)
           m3 == IF m2.refused THEN m2 ELSE Objects(m2, p, v)
           m4 == IF m3.refused THEN m3 ELSE HandleBodyTrkDynamicParams(m3, p, v)
           A == {"fused_pointcloud_freq"}
           B == VideoParams \cup {"depth_confidence", "point_cloud_freq"}
           C == {"people", "class"}
           D == {"keypoints"}
<1>1. m = m4
  BY Zenon DEF HandleParam, Objects
<1>2. \A k : Done(n, k, p, v, A) => Sane(k) /\ k.refused \in BOOLEAN
  BY DEF Done, Grows, Sane
<1>3. p \in A \cup B \cup C \cup D
  BY DEF Declared, VideoDeclared, DepthDeclared, ObjDeclared, VideoParams
<1>4. Done(n, n, p, v, {}) /\ n.refused \in BOOLEAN
  BY GrowsByItself DEF Done, Sane
<1>5. Done(n, m1, p, v, {} \cup A) /\ Sane(m1) /\ m1.refused \in BOOLEAN
  <2>1. IF n.refused THEN m1 = n ELSE Handled(n, m1, p, v, A)
    BY OwnHandled
  <2> HIDE DEF m1, A
  <2>2. Done(n, m1, p, v, {} \cup A)
    BY <1>4, <2>1, DoneOn
  <2>3. QED  BY <2>2 DEF Done, Grows, Sane
<1>6. Done(n, m2, p, v, A \cup B) /\ Sane(m2) /\ m2.refused \in BOOLEAN
  <2> HIDE DEF m1, A
  <2>1. IF m1.refused THEN m2 = m1 ELSE Handled(m1, m2, p, v, B)
    BY <1>5, VideoHandled
  <2> HIDE DEF m2, B
  <2>2. Done(n, m2, p, v, A \cup B)
    BY <1>5, <2>1, DoneOn
  <2>3. QED  BY <2>2 DEF Done, Grows, Sane
<1>7. Done(n, m3, p, v, A \cup B \cup C) /\ Sane(m3) /\ m3.refused \in BOOLEAN
  <2> HIDE DEF m1, m2, A, B
  <2>1. IF m2.refused THEN m3 = m2 ELSE Handled(m2, m3, p, v, C)
    BY <1>6, ObjectsHandled
  <2> HIDE DEF m3, C
  <2>2. Done(n, m3, p, v, A \cup B \cup C)
    BY <1>6, <2>1, DoneOn
  <2>3. QED  BY <2>2 DEF Done, Grows, Sane
<1>8. Done(n, m4, p, v, A \cup B \cup C \cup D)
  <2> HIDE DEF m1, m2, m3, A, B, C
  <2>1. IF m3.refused THEN m4 = m3 ELSE Handled(m3, m4, p, v, D)
    BY <1>7, BodiesHandled
  <2> HIDE DEF m4, D
  <2>2. QED  BY <1>7, <2>1, DoneOn
<1>9. n.refused => m4 = n
  OBVIOUS
<1> HIDE DEF m1, m2, m3, m4
<1>10. QED  BY <1>1, <1>3, <1>8, <1>9 DEF Done

-----------------------------------------------------------------------------
(* A call. *)

\* The two folds of a call.
Stores(f, batch) == FoldLeft(Store, f, batch)
Handles(n, batch) == FoldLeft(HandleParam, n, batch)

LEMMA MaxOne == Max({1}) = 1
  BY DEF Max
LEMMA MaxTwo == Max({1, 2}) = 2 /\ Max({2}) = 2 /\ {1, 2} \ {2} = {1}
  BY DEF Max

LEMMA StoreOfOne ==
  ASSUME NEW f, NEW c
  PROVE  Stores(f, <<c>>) = Store(f, c)
<1> DEFINE D == DOMAIN <<c>>
           Eq(h) == h = [s \in SUBSET D |-> IF s = {} THEN f
                                          ELSE Store(h[s \ {Max(s)}], <<c>>[Max(s)])]
           g == [s \in SUBSET {1} |-> IF s = {} THEN f ELSE Store(f, c)]
           h == CHOOSE h : Eq(h)
<1>1. D = {1}
  OBVIOUS
<1>2. Eq(g)
  <2>1. ASSUME NEW s \in SUBSET {1}, s # {} PROVE Store(f, c) = Store(g[s \ {Max(s)}], <<c>>[Max(s)])
    <3>1. s = {1} /\ s \ {Max(s)} = {}
      BY <2>1, MaxOne
    <3>2. QED  BY <3>1, MaxOne
  <2>2. QED  BY <1>1, <2>1
<1>3. Stores(f, <<c>>) = h[D]
  BY DEF Stores, FoldLeft, MapThenFoldSet
<1>4. Eq(h)
  <2> HIDE DEF Eq, g
  <2>1. QED  BY <1>2
<1>5. h[{}] = f /\ h[{1}] = Store(h[{1} \ {Max({1})}], <<c>>[Max({1})])
  <2> HIDE DEF h
  <2>1. QED  BY <1>1, <1>4
<1>6. {1} \ {1} = {} /\ <<c>>[1] = c
  OBVIOUS
<1> HIDE DEF h
<1>7. QED  BY <1>1, <1>3, <1>5, <1>6, MaxOne DEF h

LEMMA StoreOfTwo ==
  ASSUME NEW f, NEW b, NEW c
  PROVE  Stores(f, <<b, c>>) = Store(Store(f, b), c)
<1> DEFINE D == DOMAIN <<b, c>>
           Eq(h) == h = [s \in SUBSET D |-> IF s = {} THEN f
                                          ELSE Store(h[s \ {Max(s)}], <<b, c>>[Max(s)])]
           g == [s \in SUBSET {1, 2} |->
                   IF s = {} THEN f ELSE IF s = {1} THEN Store(f, b)
                   ELSE IF s = {2} THEN Store(f, c) ELSE Store(Store(f, b), c)]
           h == CHOOSE h : Eq(h)
<1>1. D = {1, 2}
  OBVIOUS
<1>2. Eq(g)
  <2>1. ASSUME NEW s \in SUBSET {1, 2}, s # {} PROVE g[s] = Store(g[s \ {Max(s)}], <<b, c>>[Max(s)])
    <3>1. g[{}] = f /\ g[{1}] = Store(f, b) /\ g[{2}] = Store(f, c) /\ g[{1, 2}] = Store(Store(f, b), c)
      <4>1. {1, 2} # {1} /\ {1, 2} # {2} /\ {2} # {1} /\ {1, 2} # {} /\ {1} # {} /\ {2} # {}
        OBVIOUS
      <4>2. QED  BY <4>1
    <3>2. s = {1} \/ s = {2} \/ s = {1, 2}
      BY <2>1
    <3>3. {1} \ {1} = {} /\ {2} \ {2} = {} /\ <<b, c>>[1] = b /\ <<b, c>>[2] = c
      OBVIOUS
    <3> HIDE DEF g
    <3>4. QED  BY <3>1, <3>2, <3>3, MaxOne, MaxTwo
  <2>2. \A s \in SUBSET {1, 2} : g[s] = IF s = {} THEN f ELSE Store(g[s \ {Max(s)}], <<b, c>>[Max(s)])
    BY <2>1
  <2>3. g = [s \in SUBSET {1, 2} |-> g[s]]
    OBVIOUS
  <2> HIDE DEF g
  <2>4. QED  BY <1>1, <2>2, <2>3
<1>3. Stores(f, <<b, c>>) = h[D]
  BY DEF Stores, FoldLeft, MapThenFoldSet
<1>4. Eq(h)
  <2> HIDE DEF Eq, g
  <2>1. QED  BY <1>2
<1>5. /\ h[{}] = f /\ h[{1}] = Store(h[{1} \ {Max({1})}], <<b, c>>[Max({1})])
      /\ h[{1, 2}] = Store(h[{1, 2} \ {Max({1, 2})}], <<b, c>>[Max({1, 2})])
  <2> HIDE DEF h
  <2>1. QED  BY <1>1, <1>4
<1>6. {1} \ {1} = {} /\ <<b, c>>[1] = b /\ <<b, c>>[2] = c
  OBVIOUS
<1> HIDE DEF h
<1>7. QED  BY <1>1, <1>3, <1>5, <1>6, MaxOne, MaxTwo DEF h

LEMMA HandleOfOne ==
  ASSUME NEW f, NEW c
  PROVE  Handles(f, <<c>>) = HandleParam(f, c)
<1> DEFINE D == DOMAIN <<c>>
           Eq(h) == h = [s \in SUBSET D |-> IF s = {} THEN f
                                          ELSE HandleParam(h[s \ {Max(s)}], <<c>>[Max(s)])]
           g == [s \in SUBSET {1} |-> IF s = {} THEN f ELSE HandleParam(f, c)]
           h == CHOOSE h : Eq(h)
<1>1. D = {1}
  OBVIOUS
<1>2. Eq(g)
  <2>1. ASSUME NEW s \in SUBSET {1}, s # {} PROVE HandleParam(f, c) = HandleParam(g[s \ {Max(s)}], <<c>>[Max(s)])
    <3>1. s = {1} /\ s \ {Max(s)} = {}
      BY <2>1, MaxOne
    <3>2. QED  BY <3>1, MaxOne
  <2>2. QED  BY <1>1, <2>1
<1>3. Handles(f, <<c>>) = h[D]
  BY DEF Handles, FoldLeft, MapThenFoldSet
<1>4. Eq(h)
  <2> HIDE DEF Eq, g
  <2>1. QED  BY <1>2
<1>5. h[{}] = f /\ h[{1}] = HandleParam(h[{1} \ {Max({1})}], <<c>>[Max({1})])
  <2> HIDE DEF h
  <2>1. QED  BY <1>1, <1>4
<1>6. {1} \ {1} = {} /\ <<c>>[1] = c
  OBVIOUS
<1> HIDE DEF h
<1>7. QED  BY <1>1, <1>3, <1>5, <1>6, MaxOne DEF h

LEMMA HandleOfTwo ==
  ASSUME NEW f, NEW b, NEW c
  PROVE  Handles(f, <<b, c>>) = HandleParam(HandleParam(f, b), c)
<1> DEFINE D == DOMAIN <<b, c>>
           Eq(h) == h = [s \in SUBSET D |-> IF s = {} THEN f
                                          ELSE HandleParam(h[s \ {Max(s)}], <<b, c>>[Max(s)])]
           g == [s \in SUBSET {1, 2} |->
                   IF s = {} THEN f ELSE IF s = {1} THEN HandleParam(f, b)
                   ELSE IF s = {2} THEN HandleParam(f, c) ELSE HandleParam(HandleParam(f, b), c)]
           h == CHOOSE h : Eq(h)
<1>1. D = {1, 2}
  OBVIOUS
<1>2. Eq(g)
  <2>1. ASSUME NEW s \in SUBSET {1, 2}, s # {} PROVE g[s] = HandleParam(g[s \ {Max(s)}], <<b, c>>[Max(s)])
    <3>1. g[{}] = f /\ g[{1}] = HandleParam(f, b) /\ g[{2}] = HandleParam(f, c) /\ g[{1, 2}] = HandleParam(HandleParam(f, b), c)
      <4>1. {1, 2} # {1} /\ {1, 2} # {2} /\ {2} # {1} /\ {1, 2} # {} /\ {1} # {} /\ {2} # {}
        OBVIOUS
      <4>2. QED  BY <4>1
    <3>2. s = {1} \/ s = {2} \/ s = {1, 2}
      BY <2>1
    <3>3. {1} \ {1} = {} /\ {2} \ {2} = {} /\ <<b, c>>[1] = b /\ <<b, c>>[2] = c
      OBVIOUS
    <3> HIDE DEF g
    <3>4. QED  BY <3>1, <3>2, <3>3, MaxOne, MaxTwo
  <2>2. \A s \in SUBSET {1, 2} : g[s] = IF s = {} THEN f ELSE HandleParam(g[s \ {Max(s)}], <<b, c>>[Max(s)])
    BY <2>1
  <2>3. g = [s \in SUBSET {1, 2} |-> g[s]]
    OBVIOUS
  <2> HIDE DEF g
  <2>4. QED  BY <1>1, <2>2, <2>3
<1>3. Handles(f, <<b, c>>) = h[D]
  BY DEF Handles, FoldLeft, MapThenFoldSet
<1>4. Eq(h)
  <2> HIDE DEF Eq, g
  <2>1. QED  BY <1>2
<1>5. /\ h[{}] = f /\ h[{1}] = HandleParam(h[{1} \ {Max({1})}], <<b, c>>[Max({1})])
      /\ h[{1, 2}] = HandleParam(h[{1, 2} \ {Max({1, 2})}], <<b, c>>[Max({1, 2})])
  <2> HIDE DEF h
  <2>1. QED  BY <1>1, <1>4
<1>6. {1} \ {1} = {} /\ <<b, c>>[1] = b /\ <<b, c>>[2] = c
  OBVIOUS
<1> HIDE DEF h
<1>7. QED  BY <1>1, <1>3, <1>5, <1>6, MaxOne, MaxTwo DEF h

\* What a call leaves of the members of the node.
After(n, m, batch) ==
  /\ Sane(m) /\ n.trigger \subseteq m.trigger /\ n.dirty \subseteq m.dirty
  /\ \A q \in Declared : m.wish[q] # n.wish[q] => (q \in Autos \/ q \in Of(batch)) /\ Marked(m, q)
  /\ \A a \in Autos : m.wish[a] = 1 /\ n.wish[a] # 1 => a \in m.trigger
  /\ ~m.refused => \A q \in Of(batch) : Marked(m, q)

LEMMA ChangesTyped ==
  \A c \in Changes : c = <<c[1], c[2]>> /\ c[1] \in Declared /\ c[2] \in Sent(c[1])
  BY DEF Changes

LEMMA AutoMarked ==
  ASSUME NEW m, NEW p \in Manual, Marked(m, p) PROVE Marked(m, AutoOf(p))
<1>1. p \in VideoParams /\ AutoOf(p) \in Autos
  BY SetsOfParams
<1>2. AutoOf(p) # "people" /\ AutoOf(p) # "keypoints"
  BY <1>1 DEF Autos
<1>3. QED  BY <1>1, <1>2 DEF Marked

LEMMA AfterOne ==
  ASSUME NEW n, Sane(n), ~n.refused, NEW c \in Changes, GrabRate \in Nat \ {0},
         NEW m, m = Handles(n, <<c>>)
  PROVE  /\ After(n, m, <<c>>)
         /\ ~m.refused /\ c[1] \notin Rates \cup Autos => m.wish[c[1]] = c[2]
<1>1. c = <<c[1], c[2]>> /\ c[1] \in Declared /\ c[2] \in Sent(c[1]) /\ c[2] \in Nat
  BY ChangesTyped, SentIsNat, SetsOfParams
<1>2. m = HandleParam(n, <<c[1], c[2]>>)
  BY <1>1, HandleOfOne
<1>3. Done(n, m, c[1], c[2], {c[1]})
  BY <1>1, <1>2, ParamHandled
<1>4. Of(<<c>>) = {c[1]}
  BY DEF Of
<1>5. ASSUME NEW q \in Declared, m.wish[q] # n.wish[q]
      PROVE  (q \in Autos \/ q = c[1]) /\ Marked(m, q)
  <2>1. (q = c[1] \/ (c[1] \in Manual /\ q = AutoOf(c[1]))) /\ Marked(m, c[1])
    BY <1>3, <1>5 DEF Done, Grows
  <2>2. QED  BY <2>1, AutoMarked, SetsOfParams
<1>6. QED  BY <1>3, <1>4, <1>5 DEF After, Done, Grows, Effect

LEMMA AfterTwo ==
  ASSUME NEW n, Sane(n), ~n.refused, NEW b \in Changes, NEW c \in Changes, b[1] # c[1],
         GrabRate \in Nat \ {0}, NEW m, m = Handles(n, <<b, c>>)
  PROVE  /\ After(n, m, <<b, c>>)
         /\ ~m.refused => /\ b[1] \notin Rates \cup Autos => m.wish[b[1]] = b[2]
                          /\ c[1] \notin Rates \cup Autos => m.wish[c[1]] = c[2]
<1>1. /\ c = <<c[1], c[2]>> /\ c[1] \in Declared /\ c[2] \in Sent(c[1]) /\ c[2] \in Nat
      /\ b = <<b[1], b[2]>> /\ b[1] \in Declared /\ b[2] \in Sent(b[1]) /\ b[2] \in Nat
  BY ChangesTyped, SentIsNat, SetsOfParams
<1> DEFINE k == Handles(n, <<b>>)
<1>2. k = HandleParam(n, b) /\ m = HandleParam(k, <<c[1], c[2]>>)
  <2>1. k = HandleParam(n, b)
    BY HandleOfOne
  <2>2. m = HandleParam(k, c)
    BY <2>1, HandleOfTwo
  <2>3. HandleParam(k, c) = HandleParam(k, <<c[1], c[2]>>)
    BY <1>1
  <2> HIDE DEF k
  <2>4. QED  BY <2>1, <2>2, <2>3
<1>3. /\ After(n, k, <<b>>)
      /\ ~k.refused /\ b[1] \notin Rates \cup Autos => k.wish[b[1]] = b[2]
  BY AfterOne
<1> HIDE DEF k
<1>4. Sane(k)
  BY <1>3 DEF After
<1>5. Done(k, m, c[1], c[2], {c[1]}) /\ (k.refused => m = k)
  BY <1>1, <1>2, <1>4, ParamHandled
<1>6. Of(<<b>>) = {b[1]} /\ Of(<<b, c>>) = {b[1], c[1]}
  <2>1. DOMAIN <<b>> = {1} /\ DOMAIN <<b, c>> = {1, 2}
    OBVIOUS
  <2>2. QED  BY <2>1 DEF Of
<1>7. \A q : Marked(k, q) => Marked(m, q)
  BY <1>5 DEF Marked, Done, Grows
<1>8. ASSUME NEW q \in Declared, m.wish[q] # n.wish[q]
      PROVE  (q \in Autos \/ q \in Of(<<b, c>>)) /\ Marked(m, q)
  <2>1. CASE m.wish[q] # k.wish[q]
    <3>1. (q = c[1] \/ (c[1] \in Manual /\ q = AutoOf(c[1]))) /\ Marked(m, c[1])
      BY <1>5, <2>1 DEF Done, Grows
    <3>2. QED  BY <3>1, <1>6, AutoMarked, SetsOfParams
  <2>2. CASE m.wish[q] = k.wish[q]
    BY <2>2, <1>3, <1>6, <1>7, <1>8 DEF After
  <2>3. QED  BY <2>1, <2>2
<1>9. ASSUME NEW a \in Autos, m.wish[a] = 1, n.wish[a] # 1 PROVE a \in m.trigger
  BY <1>9, <1>3, <1>5 DEF After, Done, Grows
<1>10. ASSUME ~m.refused PROVE ~k.refused /\ \A q \in Of(<<b, c>>) : Marked(m, q)
  BY <1>10, <1>3, <1>5, <1>6, <1>7 DEF After, Done, Effect
<1>11. ASSUME ~m.refused, b[1] \notin Rates \cup Autos PROVE m.wish[b[1]] = k.wish[b[1]]
  BY <1>1, <1>5, <1>11, SetsOfParams DEF Done, Grows
<1>12. After(n, m, <<b, c>>)
  BY <1>3, <1>5, <1>8, <1>9, <1>10 DEF After, Done, Grows
<1>13. QED  BY <1>3, <1>5, <1>10, <1>11, <1>12 DEF Done, Effect

LEMMA StoreTyped ==
  ASSUME NEW f \in [Declared -> Nat], \A q \in Declared : f[q] \in Sent(q), NEW c \in Changes, GrabRate \in Nat
  PROVE  LET g == Store(f, c)
         IN /\ g \in [Declared -> Nat] /\ (\A q \in Declared : g[q] \in Sent(q))
            /\ g[c[1]] = c[2] /\ \A q \in Declared \ {c[1]} : g[q] = f[q]
<1>1. c[1] \in Declared /\ c[2] \in Sent(c[1]) /\ c[2] \in Nat
  BY ChangesTyped, SentIsNat, SetsOfParams
<1>2. QED  BY <1>1 DEF Store

\* What it leaves of the members, and what rclcpp would store.
Call(batch, n, s) ==
  /\ After(Members, n, batch) /\ Of(batch) \subseteq Declared
  /\ s \in [Declared -> Nat] /\ (\A q \in Declared : s[q] \in Sent(q))
  /\ \A q \in Declared \ Of(batch) : s[q] = server[q]
  /\ ~n.refused => \A q \in Of(batch) \ (Rates \cup Autos) : n.wish[q] = s[q]

LEMMA Called ==
  ASSUME SettingsTypeOK, NEW batch \in Batches, GrabRate \in Nat \ {0},
         NEW n, n = Handles(Members, batch), NEW s, s = Stores(server, batch)
  PROVE  Call(batch, n, s)
<1>1. Sane(Members) /\ ~Members.refused
  BY DEF Members, Sane, SettingsTypeOK
<1>2. server \in [Declared -> Nat] /\ (\A q \in Declared : server[q] \in Sent(q)) /\ GrabRate \in Nat
  BY DEF SettingsTypeOK
<1>3. ASSUME NEW c \in Changes, batch = <<c>> PROVE Call(batch, n, s)
  <2>1. s = Store(server, c) /\ Of(batch) = {c[1]} /\ c[1] \in Declared
    BY <1>3, StoreOfOne, ChangesTyped DEF Of
  <2>2. /\ After(Members, n, batch)
        /\ ~n.refused /\ c[1] \notin Rates \cup Autos => n.wish[c[1]] = c[2]
    BY <1>1, <1>3, AfterOne
  <2>3. QED  BY <1>2, <2>1, <2>2, StoreTyped DEF Call
<1>4. ASSUME NEW b \in Changes, NEW c \in Changes, b[1] # c[1], batch = <<b, c>> PROVE Call(batch, n, s)
  <2> DEFINE f == Store(server, b)
  <2>1. s = Store(f, c)
    BY <1>4, StoreOfTwo
  <2>2. Of(batch) = {b[1], c[1]} /\ b[1] \in Declared /\ c[1] \in Declared
    <3>1. DOMAIN <<b, c>> = {1, 2}
      OBVIOUS
    <3>2. QED  BY <1>4, <3>1, ChangesTyped DEF Of
  <2>3. /\ After(Members, n, batch)
        /\ ~n.refused => /\ b[1] \notin Rates \cup Autos => n.wish[b[1]] = b[2]
                         /\ c[1] \notin Rates \cup Autos => n.wish[c[1]] = c[2]
    BY <1>1, <1>4, AfterTwo
  <2>4. /\ f \in [Declared -> Nat] /\ (\A q \in Declared : f[q] \in Sent(q))
        /\ f[b[1]] = b[2] /\ \A q \in Declared \ {b[1]} : f[q] = server[q]
    BY <1>2, StoreTyped
  <2> HIDE DEF f
  <2>5. /\ s \in [Declared -> Nat] /\ (\A q \in Declared : s[q] \in Sent(q))
        /\ s[c[1]] = c[2] /\ \A q \in Declared \ {c[1]} : s[q] = f[q]
    BY <1>2, <2>1, <2>4, StoreTyped
  <2>6. s[b[1]] = b[2]
    BY <1>4, <2>2, <2>4, <2>5
  <2>7. QED  BY <2>2, <2>3, <2>4, <2>5, <2>6 DEF Call
<1>5. (\E c \in Changes : batch = <<c>>) \/ \E b, c \in Changes : b[1] # c[1] /\ batch = <<b, c>>
  BY DEF Batches
<1>6. QED  BY <1>3, <1>4, <1>5

-----------------------------------------------------------------------------
(* The iteration of the grab thread. *)

Kept == Told /\ AutosKept /\ ManualsKept /\ OthersKept
IndInv == SettingsTypeOK /\ Kept

\* An object or body group is not marked, or about to be cleared.
Quiet(g) == g \in dirty => Sending(g)

LEMMA SameSets ==
  ASSUME launched' = launched
  PROVE  Declared' = Declared /\ Reached' = Reached
  BY DEF Declared, VideoDeclared, DepthDeclared, ObjDeclared, Reached

LEMMA Joined ==
  ASSUME NEW S, NEW s \in Seq(S), NEW t \in Seq(S)
  PROVE  /\ Len(s \o t) = Len(s) + Len(t)
         /\ \A i \in 1..Len(s) : (s \o t)[i] = s[i]
         /\ \A i \in 1..Len(t) : (s \o t)[Len(s) + i] = t[i]
  OBVIOUS

LEMMA InJoined ==
  ASSUME NEW S, NEW s \in Seq(S), NEW t \in Seq(S)
  PROVE  s \o t \in Seq(S) /\ \A e : Contains(s \o t, e) <=> Contains(s, e) \/ Contains(t, e)
<1> DEFINE r == s \o t
<1>1. r \in Seq(S) /\ Len(s) \in Nat /\ Len(t) \in Nat
  OBVIOUS
<1>2. /\ Len(r) = Len(s) + Len(t)
      /\ \A i \in 1..Len(s) : r[i] = s[i]
      /\ \A i \in 1..Len(t) : r[Len(s) + i] = t[i]
  BY Joined
<1> HIDE DEF r
<1>3. ASSUME NEW e PROVE Contains(r, e) <=> Contains(s, e) \/ Contains(t, e)
  <2>1. ASSUME NEW i \in 1..Len(r), r[i] = e PROVE Contains(s, e) \/ Contains(t, e)
    <3>1. CASE i <= Len(s)
      BY <1>1, <1>2, <2>1, <3>1 DEF Contains
    <3>2. CASE i > Len(s)
      <4>1. (i - Len(s)) \in 1..Len(t) /\ t[i - Len(s)] = e
        BY <1>1, <1>2, <2>1, <3>2
      <4>2. QED  BY <4>1 DEF Contains
    <3>3. QED  BY <1>1, <1>2, <2>1, <3>1, <3>2
  <2>2. ASSUME NEW i \in 1..Len(s), s[i] = e PROVE Contains(r, e)
    BY <1>1, <1>2, <2>2 DEF Contains
  <2>3. ASSUME NEW i \in 1..Len(t), t[i] = e PROVE Contains(r, e)
    <3>1. Len(s) + i \in 1..Len(r) /\ r[Len(s) + i] = e
      BY <1>1, <1>2, <2>3
    <3>2. QED  BY <3>1 DEF Contains
  <2>4. QED  BY <2>1, <2>2, <2>3 DEF Contains
<1>4. QED  BY <1>1, <1>3 DEF r

LEMMA Queued ==
  ASSUME queue \in Seq(Steps), queue # <<>>, NEW todo \in Seq(Steps), Next(todo)
  PROVE  /\ queue' \in Seq(Steps)
         /\ \A e : Contains(queue, e)' <=> Contains(todo, e) \/ Contains(Tail(queue), e)
         /\ \A e : Contains(queue, e) <=> e = Head(queue) \/ Contains(Tail(queue), e)
<1> DEFINE t == Tail(queue)
<1>1. t \in Seq(Steps) /\ Len(t) = Len(queue) - 1 /\ \A i \in 1..Len(t) : t[i] = queue[i + 1]
  OBVIOUS
<1>2. queue' = todo \o t
  BY DEF Next
<1> HIDE DEF t
<1>3. queue' \in Seq(Steps) /\ \A e : Contains(queue', e) <=> Contains(todo, e) \/ Contains(t, e)
  <2>1. todo \in Seq(Steps) /\ t \in Seq(Steps)
    BY <1>1
  <2>2. todo \o t \in Seq(Steps) /\ \A e : Contains(todo \o t, e) <=> Contains(todo, e) \/ Contains(t, e)
    BY ONLY <2>1, InJoined
  <2>3. QED  BY <1>2, <2>2
<1>5. ASSUME NEW e PROVE Contains(queue, e) <=> e = Head(queue) \/ Contains(t, e)
  <2>1. ASSUME NEW i \in 1..Len(queue), queue[i] = e PROVE e = Head(queue) \/ Contains(t, e)
    <3>1. CASE i = 1
      BY <2>1, <3>1
    <3>2. CASE i # 1
      <4>1. i - 1 \in 1..Len(t) /\ t[i - 1] = e
        BY <1>1, <2>1, <3>2
      <4>2. QED  BY <4>1 DEF Contains
    <3>3. QED  BY <3>1, <3>2
  <2>2. Contains(queue, Head(queue))
    <3>1. 1 \in 1..Len(queue) /\ queue[1] = Head(queue)
      OBVIOUS
    <3>2. QED  BY <3>1 DEF Contains
  <2>3. ASSUME NEW i \in 1..Len(t), t[i] = e PROVE Contains(queue, e)
    <3>1. i + 1 \in 1..Len(queue) /\ queue[i + 1] = e
      BY <1>1, <2>3
    <3>2. QED  BY <3>1 DEF Contains
  <2>4. QED  BY <2>1, <2>2, <2>3 DEF Contains
<1>6. QED  BY <1>3, <1>5 DEF t

LEMMA NothingQueued == \A e : ~Contains(<<>>, e) /\ <<>> \in Seq(Steps)
  BY DEF Contains

\* A step of the thread is taken from the queue, for others that send nothing: what has
\* been passed afterwards, but for the step itself, has been passed before.
LEMMA StepTaken ==
  ASSUME queue \in Seq(Steps), NEW step, At(step), NEW todo \in Seq(Steps), Next(todo), dirty' = dirty
  PROVE  /\ queue' \in Seq(Steps)
         /\ (\A p \in Params : ~Contains(todo, <<"send", p>>)) /\ ~Contains(todo, <<"clear", "video">>) =>
              \A q \in Params : step # <<"send", q>> /\ Passed(q)' => Passed(q)
         /\ \A g \in {"obj", "body"} :
              ~Contains(todo, <<"clear", g>>) /\ Quiet(g)' => Quiet(g)
<1> DEFINE t == Tail(queue)
<1>1. /\ queue' \in Seq(Steps)
      /\ \A e : Contains(queue, e)' <=> Contains(todo, e) \/ Contains(t, e)
      /\ \A e : Contains(queue, e) <=> e = step \/ Contains(t, e)
  BY Queued DEF At
<1> HIDE DEF t
<1>2. ASSUME \A p \in Params : ~Contains(todo, <<"send", p>>), ~Contains(todo, <<"clear", "video">>),
             NEW q \in Params, step # <<"send", q>>, Passed(q)'
      PROVE  Passed(q)
  <2>1. ~Contains(queue, <<"send", q>>)
    BY <1>1, <1>2 DEF Passed
  <2>2. Sending("video")' => Sending("video")
    BY <1>1, <1>2 DEF Sending
  <2>3. QED  BY <1>2, <2>1, <2>2 DEF Passed
<1>3. ASSUME NEW g \in {"obj", "body"}, ~Contains(todo, <<"clear", g>>), Quiet(g)' PROVE Quiet(g)
  <2>1. Sending(g)' => Sending(g)
    BY <1>1, <1>3 DEF Sending
  <2>2. QED  BY <1>3, <2>1 DEF Quiet
<1>4. QED  BY <1>1, <1>2, <1>3

LEMMA FirstIsManual ==
  \A a \in Autos : FirstOf(a) \in Manual \cap VideoParams \cap Declared /\ AutoOf(FirstOf(a)) = a
  BY DEF FirstOf, Autos, Manual, AutoOf, VideoParams, Usb3, Gmsl2, Common, Declared, VideoDeclared

LEMMA StepDropped ==
  ASSUME queue \in Seq(Steps), NEW step, At(step), Next(<<>>), dirty' = dirty,
         \A q \in VideoParams : step # <<"send", q>>
  PROVE  /\ queue' \in Seq(Steps)
         /\ \A q \in VideoParams : Passed(q)' => Passed(q)
         /\ \A g \in {"obj", "body"} : Quiet(g)' => Quiet(g)
<1>1. <<>> \in Seq(Steps) /\ \A e : ~Contains(<<>>, e)
  BY NothingQueued
<1>2. /\ queue' \in Seq(Steps)
      /\ \A q \in Params : step # <<"send", q>> /\ Passed(q)' => Passed(q)
      /\ \A g \in {"obj", "body"} : Quiet(g)' => Quiet(g)
  BY <1>1, StepTaken
<1>3. QED  BY <1>2, SetsOfParams

\* Nothing is sent.
LEMMA NothingSent ==
  ASSUME IndInv, UNCHANGED <<launched, server, wish, trigger, dial, excused, broken>>,
         \A q \in VideoParams \cap Declared : Passed(q)' => Passed(q),
         \A g \in {"obj", "body"} : Quiet(g)' => Quiet(g)
  PROVE  Kept'
<1> USE SameSets DEF IndInv, Kept
<1>1. Told'
  BY DEF Told
<1>2. AutosKept'
  <2>1. \A a \in Autos : a \in VideoParams \cap Declared /\ FirstOf(a) \in VideoParams \cap Declared
    BY FirstIsManual, SetsOfParams
  <2>2. QED  BY <2>1 DEF AutosKept
<1>3. ManualsKept'
  BY SetsOfParams DEF ManualsKept
<1>4. OthersKept'
  <2>1. Reached \subseteq VideoParams /\ Group("people") = "obj" /\ Group("keypoints") = "body"
    BY DEF Reached, Gmsl2, Common, Usb3, VideoParams, Group
  <2>2. QED  BY <2>1, Zenon DEF OthersKept, Quiet
<1>5. QED  BY <1>1, <1>2, <1>3, <1>4

\* The step of parameter p is done.
Past(p) ==
  /\ p \in VideoParams /\ launched' = launched
  /\ \A q \in VideoParams \ {p} : Passed(q)' => Passed(q)
  /\ \A g \in {"obj", "body"} : Quiet(g)' => Quiet(g)

LEMMA ReachedVideo ==
  Reached \subseteq VideoParams /\ Group("people") = "obj" /\ Group("keypoints") = "body"
  /\ "people" \notin VideoParams /\ "keypoints" \notin VideoParams
  BY DEF Reached, Gmsl2, Common, Usb3, VideoParams, Group, Autos

\* A step that sends nothing, because the mode is automatic, was not changed, or because
\* the camera has no such setting.
LEMMA SkipKept ==
  ASSUME IndInv, NEW p, Past(p), UNCHANGED <<server, wish, trigger, dial, excused, broken>>,
         \/ p \in Manual /\ wish[AutoOf(p)] = 1
         \/ p \in Autos /\ p \notin trigger
         \/ p \notin Manual \cup Autos /\ p \notin Reached \cap Declared
  PROVE  Kept'
<1> USE SameSets, SetsOfParams, FirstIsManual DEF IndInv, Kept, Past
<1>1. Told'
  BY DEF Told
<1>2. AutosKept'
  <2>1. ASSUME NEW a \in Autos, wish[a] = 1, a \notin trigger \/ (Passed(a)' /\ a \notin excused) PROVE dial[a] = 1
    BY <2>1 DEF AutosKept
  <2>2. ASSUME NEW a \in Autos, wish[a] = 0, Passed(FirstOf(a))', a \notin excused PROVE dial[a] = 0
    <3>1. FirstOf(a) # p
      BY <2>2
    <3>2. QED  BY <2>2, <3>1 DEF AutosKept
  <2>3. QED  BY <2>1, <2>2 DEF AutosKept
<1>3. ManualsKept'
  BY DEF ManualsKept
<1>4. OthersKept'
  <2>1. ASSUME NEW q \in (Reached \cap Declared) \ (Manual \cup Autos \cup excused), Passed(q)' PROVE dial[q] = wish[q]
    BY <2>1, ReachedVideo DEF OthersKept
  <2>2. ASSUME NEW q \in ({"people", "keypoints"} \cap Declared) \ excused, Quiet(Group(q))' PROVE dial[q] = wish[q]
    <3>1. Quiet(Group(q))
      BY <2>2, ReachedVideo
    <3>2. QED  BY <2>2, <3>1, Zenon DEF OthersKept, Quiet
  <2>3. QED  BY <2>1, <2>2, Zenon DEF OthersKept, Quiet
<1>5. QED  BY <1>1, <1>2, <1>3, <1>4

\* A step that the SDK refuses.
LEMMA RefusedKept ==
  ASSUME IndInv, NEW p, Past(p), UNCHANGED <<server, wish, trigger, dial, broken>>,
         NEW given, p \in given, excused' = excused \cup given, p \in Manual => AutoOf(p) \in given,
         p \in Autos => p \in trigger
  PROVE  Kept'
<1> USE SameSets, SetsOfParams, FirstIsManual DEF IndInv, Kept, Past
<1>1. Told'
  BY DEF Told
<1>2. AutosKept'
  <2>1. ASSUME NEW a \in Autos, wish[a] = 1, a \notin trigger \/ (Passed(a)' /\ a \notin excused') PROVE dial[a] = 1
    BY <2>1 DEF AutosKept
  <2>2. ASSUME NEW a \in Autos, wish[a] = 0, Passed(FirstOf(a))', a \notin excused' PROVE dial[a] = 0
    <3>1. FirstOf(a) # p
      BY <2>2
    <3>2. QED  BY <2>2, <3>1 DEF AutosKept
  <2>3. QED  BY <2>1, <2>2 DEF AutosKept
<1>3. ManualsKept'
  BY DEF ManualsKept
<1>4. OthersKept'
  <2>1. ASSUME NEW q \in (Reached \cap Declared) \ (Manual \cup Autos \cup excused'), Passed(q)' PROVE dial[q] = wish[q]
    BY <2>1, ReachedVideo DEF OthersKept
  <2>2. ASSUME NEW q \in ({"people", "keypoints"} \cap Declared) \ excused', Quiet(Group(q))' PROVE dial[q] = wish[q]
    <3>1. Quiet(Group(q)) /\ q \notin excused
      BY <2>2, ReachedVideo
    <3>2. QED  BY <2>2, <3>1, Zenon DEF OthersKept, Quiet
  <2>3. QED  BY <2>1, <2>2, Zenon DEF OthersKept, Quiet
<1>5. QED  BY <1>1, <1>2, <1>3, <1>4

\* A step with which the camera has what is given.
LEMMA AcceptedKept ==
  ASSUME IndInv, NEW p, Past(p), UNCHANGED <<server, wish, broken>>, trigger' = trigger \ {p},
         NEW given, p \in given, given \subseteq VideoParams, given \cap Manual \subseteq {p}, excused' = excused \ given,
         dial' = [q \in Declared |-> IF q \in given THEN wish[q] ELSE dial[q]],
         p \in Manual => AutoOf(p) \in given /\ wish[AutoOf(p)] = 0
  PROVE  Kept'
<1> USE SameSets, SetsOfParams, FirstIsManual DEF IndInv, Kept, Past
<1>1. Told'
  BY DEF Told
<1>2. AutosKept'
  <2>1. ASSUME NEW a \in Autos, wish[a] = 1, a \notin trigger' \/ (Passed(a)' /\ a \notin excused') PROVE dial'[a] = 1
    BY <2>1 DEF AutosKept
  <2>2. ASSUME NEW a \in Autos, wish[a] = 0, Passed(FirstOf(a))', a \notin excused' PROVE dial'[a] = 0
    <3>1. CASE a \in given
      BY <2>2, <3>1
    <3>2. CASE a \notin given
      <4>1. FirstOf(a) # p /\ a \notin excused
        BY <2>2, <3>2
      <4>2. QED  BY <2>2, <3>2, <4>1 DEF AutosKept
    <3>3. QED  BY <3>1, <3>2
  <2>3. QED  BY <2>1, <2>2 DEF AutosKept
<1>3. ManualsKept'
  <2>1. ASSUME NEW q \in (Manual \cap Declared) \ excused', wish[AutoOf(q)] = 0, Passed(q)'
        PROVE  dial'[q] = wish[q] /\ dial'[AutoOf(q)] = 0
    <3>1. CASE q = p
      BY <2>1, <3>1
    <3>2. CASE q # p /\ q \notin excused
      <4>1. dial[q] = wish[q] /\ dial[AutoOf(q)] = 0
        BY <2>1, <3>2 DEF ManualsKept
      <4>2. QED  BY <2>1, <4>1
    <3>3. CASE q # p /\ q \in excused
      BY <2>1, <3>3
    <3>4. QED  BY <3>1, <3>2, <3>3
  <2>2. QED  BY <2>1 DEF ManualsKept
<1>4. OthersKept'
  <2>1. ASSUME NEW q \in (Reached \cap Declared) \ (Manual \cup Autos \cup excused'), Passed(q)' PROVE dial'[q] = wish[q]
    BY <2>1, ReachedVideo DEF OthersKept
  <2>2. ASSUME NEW q \in ({"people", "keypoints"} \cap Declared) \ excused', Quiet(Group(q))' PROVE dial'[q] = wish[q]
    <3>1. Quiet(Group(q)) /\ q \notin excused /\ q \notin given
      BY <2>2, ReachedVideo
    <3>2. dial[q] = wish[q]
      BY <2>2, <3>1, Zenon DEF OthersKept, Quiet
    <3>3. QED  BY <2>2, <3>1, <3>2
  <2>3. QED  BY <2>1, <2>2, Zenon DEF OthersKept, Quiet
<1>5. QED  BY <1>1, <1>2, <1>3, <1>4

\* One that finds the value of the camera, whose own mode is thought to be off.
LEMMA SameKept ==
  ASSUME IndInv, NEW p \in Manual, Past(p), UNCHANGED <<server, wish, trigger, dial, broken>>,
         wish[AutoOf(p)] = 0, dial[p] = wish[p],
         excused' = IF dial[AutoOf(p)] = 1 THEN excused \cup {p, AutoOf(p)} ELSE excused \ {p}
  PROVE  Kept'
<1>1. CASE dial[AutoOf(p)] = 1
  <2> DEFINE given == {p, AutoOf(p)}
  <2>1. p \in given /\ AutoOf(p) \in given /\ excused' = excused \cup given /\ p \notin Autos
    BY <1>1, SetsOfParams
  <2> HIDE DEF given
  <2>2. QED  BY <2>1, RefusedKept
<1>2. CASE dial[AutoOf(p)] # 1
  <2> USE SameSets, SetsOfParams, FirstIsManual DEF IndInv, Kept, Past
  <2>1. excused' = excused \ {p} /\ dial[AutoOf(p)] = 0
    <3>1. AutoOf(p) \in Declared /\ Sent(AutoOf(p)) = 0..1
      BY DEF Sent, Autos, Rates
    <3>2. QED  BY <1>2, <3>1 DEF SettingsTypeOK
  <2>2. Told'
    BY DEF Told
  <2>3. AutosKept'
    <3>1. ASSUME NEW a \in Autos, wish[a] = 1, a \notin trigger \/ (Passed(a)' /\ a \notin excused') PROVE dial[a] = 1
      BY <2>1, <3>1 DEF AutosKept
    <3>2. ASSUME NEW a \in Autos, wish[a] = 0, Passed(FirstOf(a))', a \notin excused' PROVE dial[a] = 0
      <4>1. CASE FirstOf(a) = p
        BY <2>1, <4>1
      <4>2. CASE FirstOf(a) # p
        BY <2>1, <3>2, <4>2 DEF AutosKept
      <4>3. QED  BY <4>1, <4>2
    <3>3. QED  BY <3>1, <3>2 DEF AutosKept
  <2>4. ManualsKept'
    BY <2>1 DEF ManualsKept
  <2>5. OthersKept'
    <3>1. ASSUME NEW q \in (Reached \cap Declared) \ (Manual \cup Autos \cup excused'), Passed(q)' PROVE dial[q] = wish[q]
      BY <2>1, <3>1, ReachedVideo DEF OthersKept
    <3>2. ASSUME NEW q \in ({"people", "keypoints"} \cap Declared) \ excused', Quiet(Group(q))' PROVE dial[q] = wish[q]
      <4>1. Quiet(Group(q)) /\ q \notin excused
        BY <2>1, <3>2, ReachedVideo
      <4>2. QED  BY <3>2, <4>1, Zenon DEF OthersKept, Quiet
    <3>3. QED  BY <3>1, <3>2, Zenon DEF OthersKept, Quiet
  <2>6. QED  BY <2>2, <2>3, <2>4, <2>5
<1>3. QED  BY <1>1, <1>2

-----------------------------------------------------------------------------
(* The actions. *)

LEMMA DeclaredSame == launched' = launched => SettingsTypeOK' =
  (/\ launched \in Launched /\ trigger' \subseteq Autos /\ dirty' \subseteq {"video", "obj", "body"}
   /\ {server', wish', dial'} \subseteq [Declared -> Nat]
   /\ (\A p \in Declared : {server'[p], wish'[p], dial'[p]} \subseteq Sent(p))
   /\ (\A p \in Rates : wish'[p] > 0)
   /\ queue' \in Seq(Steps) /\ excused' \cup broken' \subseteq Params
   /\ changes' \in 0..MaxChanges /\ refusals' \in 0..MaxRefusals)
  BY SameSets DEF SettingsTypeOK

LEMMA OfTypes ==
  SettingsTypeOK =>
    /\ server \in [Declared -> Nat] /\ wish \in [Declared -> Nat] /\ dial \in [Declared -> Nat]
    /\ \A p \in Declared : server[p] \in Sent(p) /\ wish[p] \in Sent(p) /\ dial[p] \in Sent(p)
    /\ queue \in Seq(Steps)
  BY DEF SettingsTypeOK

\* A step of the thread with which the camera may take wishes.
LEMMA TypesKept ==
  ASSUME SettingsTypeOK, UNCHANGED <<launched, server, wish, broken, changes>>,
         trigger' \subseteq trigger, dirty' \subseteq dirty, queue' \in Seq(Steps),
         NEW given, dial' = [q \in Declared |-> IF q \in given THEN wish[q] ELSE dial[q]],
         excused' \subseteq Params, refusals' \in 0..MaxRefusals
  PROVE  SettingsTypeOK'
<1>1. dial' \in [Declared -> Nat] /\ \A q \in Declared : dial'[q] \in Sent(q)
  BY OfTypes
<1>2. QED  BY <1>1, OfTypes, DeclaredSame DEF SettingsTypeOK

LEMMA TypesStay ==
  ASSUME SettingsTypeOK, UNCHANGED <<launched, server, wish, dial, broken, changes>>,
         trigger' \subseteq trigger, dirty' \subseteq dirty, queue' \in Seq(Steps),
         excused' \subseteq Params, refusals' \in 0..MaxRefusals
  PROVE  SettingsTypeOK'
  BY OfTypes, DeclaredSame DEF SettingsTypeOK

LEMMA PastSend ==
  ASSUME SettingsTypeOK, NEW p \in VideoParams, At(<<"send", p>>), Next(<<>>), UNCHANGED <<launched, dirty>>
  PROVE  Past(p) /\ queue' \in Seq(Steps)
<1>1. \A q \in Params \ {p} : <<"send", p>> # <<"send", q>>
  OBVIOUS
<1>2. /\ \A q \in Params : <<"send", p>> # <<"send", q>> /\ Passed(q)' => Passed(q)
      /\ \A g \in {"obj", "body"} : Quiet(g)' => Quiet(g)
      /\ queue' \in Seq(Steps)
  BY OfTypes, NothingQueued, StepTaken
<1>3. QED  BY <1>1, <1>2, SetsOfParams DEF Past

LEMMA SkipInv ==
  ASSUME IndInv, NEW p \in VideoParams, Skip(p),
         \/ p \in Manual /\ wish[AutoOf(p)] = 1
         \/ p \in Autos /\ p \notin trigger
         \/ p \notin Manual \cup Autos /\ p \notin Reached \cap Declared
  PROVE  IndInv'
<1>1. Past(p) /\ queue' \in Seq(Steps)
  BY PastSend DEF IndInv, Skip
<1>2. Kept'
  BY <1>1, SkipKept DEF Skip, history
<1>3. SettingsTypeOK'
  <2>1. excused' \subseteq Params /\ refusals' \in 0..MaxRefusals
    BY DEF Skip, history, IndInv, SettingsTypeOK
  <2>2. QED  BY <1>1, <2>1, TypesStay DEF IndInv, Skip, history
<1>4. QED  BY <1>2, <1>3 DEF IndInv

LEMMA RefusedInv ==
  ASSUME IndInv, NEW p \in VideoParams, NEW given \in SUBSET VideoParams, Refused(p, given),
         p \in given, p \in Manual => AutoOf(p) \in given, p \in Autos => p \in trigger
  PROVE  IndInv'
<1>1. Past(p) /\ queue' \in Seq(Steps)
  BY PastSend DEF IndInv, Refused
<1>2. Kept'
  BY <1>1, RefusedKept DEF Refused
<1>3. SettingsTypeOK'
  <2>1. refusals' \in 0..MaxRefusals
    BY ZedSettingsAssumption DEF ZedSettingsAssumption, Refused, IndInv, SettingsTypeOK
  <2>2. excused' \subseteq Params
    BY SetsOfParams DEF Refused, IndInv, SettingsTypeOK
  <2>3. QED  BY <1>1, <2>1, <2>2, TypesStay DEF IndInv, Refused
<1>4. QED  BY <1>2, <1>3 DEF IndInv

LEMMA AcceptedInv ==
  ASSUME IndInv, NEW p \in VideoParams, NEW given \in SUBSET VideoParams, Accepted(p, given),
         p \in given, given \cap Manual \subseteq {p}, p \in Manual => AutoOf(p) \in given /\ wish[AutoOf(p)] = 0
  PROVE  IndInv'
<1>1. Past(p) /\ queue' \in Seq(Steps)
  BY PastSend DEF IndInv, Accepted
<1>2. Kept'
  BY <1>1, AcceptedKept DEF Accepted
<1>3. SettingsTypeOK'
  <2>1. refusals' \in 0..MaxRefusals /\ excused' \subseteq Params
    BY DEF Accepted, IndInv, SettingsTypeOK
  <2>2. QED  BY <1>1, <2>1, TypesKept DEF IndInv, Accepted
<1>4. QED  BY <1>2, <1>3 DEF IndInv

LEMMA SendAutoInv ==
  ASSUME IndInv, NEW a \in Autos, SendAuto(a)
  PROVE  IndInv'
<1>1. a \in VideoParams /\ a \in {a} /\ a \notin Manual
  BY SetsOfParams
<1>2. QED  BY <1>1, SkipInv, RefusedInv, AcceptedInv DEF SendAuto

LEMMA SendIfDifferentInv ==
  ASSUME IndInv, NEW p \in VideoParams, p \notin Autos, p \notin Manual, SendIfDifferent(p)
  PROVE  IndInv'
  BY RefusedInv, AcceptedInv DEF SendIfDifferent

LEMMA SendManualInv ==
  ASSUME IndInv, NEW p \in Manual, SendManual(p)
  PROVE  IndInv'
<1>1. p \in VideoParams /\ AutoOf(p) \in Autos /\ AutoOf(p) \in VideoParams /\ p \notin Autos
  BY SetsOfParams
<1>2. wish[AutoOf(p)] \in {0, 1}
  <2>1. AutoOf(p) \in Declared /\ Sent(AutoOf(p)) = 0..1
    BY <1>1, SetsOfParams DEF Sent, Autos, Rates
  <2>2. QED  BY <2>1, OfTypes DEF IndInv
<1>3. CASE wish[AutoOf(p)] = 1
  BY <1>1, <1>3, SkipInv DEF SendManual
<1>4. CASE wish[AutoOf(p)] = 0 /\ dial[p] # wish[p]
  <2> DEFINE given == {p, AutoOf(p)}
  <2>1. p \in given /\ AutoOf(p) \in given /\ given \in SUBSET VideoParams /\ given \cap Manual \subseteq {p}
    BY <1>1, SetsOfParams
  <2>2. Accepted(p, given) \/ Refused(p, given)
    BY <1>4 DEF SendManual
  <2> HIDE DEF given
  <2>3. QED  BY <1>1, <1>4, <2>1, <2>2, RefusedInv, AcceptedInv
<1>5. CASE wish[AutoOf(p)] = 0 /\ dial[p] = wish[p]
  <2>1. /\ At(<<"send", p>>) /\ Next(<<>>)
        /\ excused' = IF dial[AutoOf(p)] = 1 THEN excused \cup {p, AutoOf(p)} ELSE excused \ {p}
        /\ UNCHANGED <<launched, server, wish, trigger, dirty, dial, broken, changes, refusals>>
    BY <1>5 DEF SendManual
  <2>2. Past(p) /\ queue' \in Seq(Steps)
    BY <1>1, <2>1, PastSend DEF IndInv
  <2>3. Kept'
    BY <1>5, <2>1, <2>2, SameKept
  <2>4. excused' \subseteq Params /\ refusals' \in 0..MaxRefusals
    BY <1>1, <2>1, SetsOfParams DEF IndInv, SettingsTypeOK
  <2>5. SettingsTypeOK'
    BY <2>1, <2>2, <2>4, TypesStay DEF IndInv
  <2>6. QED  BY <2>3, <2>5 DEF IndInv
<1>6. QED  BY <1>2, <1>3, <1>4, <1>5

LEMMA NotReached ==
  /\ launched.kind = "virtual" => {"exposure_range", "analog_range", "digital_range"} \cap Reached = {}
  /\ launched.kind = "stream" => {"compensation", "denoising", "antibanding"} \cap Reached = {}
  /\ launched.kind \in ZedX => "brightness" \notin Declared
<1>1. CASE launched.kind = "virtual"
  <2>1. Reached = (Gmsl2 \ {"exposure_range", "analog_range", "digital_range"}) \cup Common
    BY <1>1 DEF Reached
  <2>2. {"exposure_range", "analog_range", "digital_range"} \cap Common = {}
    BY DEF Common, Autos
  <2>3. QED  BY <1>1, <2>1, <2>2 DEF ZedX, Kinds, Declared, VideoDeclared, DepthDeclared, ObjDeclared, Common, Gmsl2, Autos
<1>2. CASE launched.kind = "stream"
  <2>1. Reached = (Gmsl2 \ {"compensation", "denoising", "antibanding"}) \cup Common
    BY <1>2 DEF Reached
  <2>2. {"compensation", "denoising", "antibanding"} \cap Common = {}
    BY DEF Common, Autos
  <2>3. QED  BY <1>2, <2>1, <2>2 DEF ZedX, Kinds, Declared, VideoDeclared, DepthDeclared, ObjDeclared, Common, Gmsl2, Autos
<1>3. launched.kind \in ZedX => "brightness" \notin Declared
  BY DEF ZedX, Declared, VideoDeclared, DepthDeclared, ObjDeclared, Common, Gmsl2, Autos
<1>4. QED  BY <1>1, <1>2, <1>3

LEMMA VideoNames ==
  /\ {"brightness", "sharpness", "exposure_range", "compensation", "analog_range", "digital_range",
      "denoising", "antibanding"} \subseteq VideoParams \ (Autos \cup Manual)
  /\ {"exposure", "temperature", "exposure_time", "analog_gain"} = Manual
  /\ {"auto_exposure_gain", "auto_whitebalance"} = Autos
  BY DEF VideoParams, Usb3, Gmsl2, Common, Autos, Manual

LEMMA SendUnlessInv ==
  ASSUME IndInv, NEW p \in VideoParams \ (Autos \cup Manual), NEW kind, SendUnless(kind, p),
         launched.kind = kind => p \notin Reached
  PROVE  IndInv'
  BY SkipInv, SendIfDifferentInv DEF SendUnless

LEMMA ApplyVideoInv == IndInv /\ ApplyVideo => IndInv'
<1> SUFFICES ASSUME IndInv, ApplyVideo PROVE IndInv'
  OBVIOUS
<1> USE VideoNames
<1>1. CASE ApplyAutoExposureGainSettings
  BY <1>1, SendAutoInv DEF ApplyAutoExposureGainSettings
<1>2. CASE ApplyExposureGainSettings
  BY <1>2, SendManualInv DEF ApplyExposureGainSettings
<1>3. CASE ApplyWhiteBalanceSettings
  BY <1>3, SendAutoInv, SendManualInv DEF ApplyWhiteBalanceSettings
<1>4. CASE ApplyBrightnessContrastHueSettings
  <2>1. CASE launched.kind \in ZedX
    BY <1>4, <2>1, NotReached, SkipInv DEF ApplyBrightnessContrastHueSettings
  <2>2. CASE launched.kind \notin ZedX
    BY <1>4, <2>2, SendIfDifferentInv DEF ApplyBrightnessContrastHueSettings
  <2>3. QED  BY <2>1, <2>2
<1>5. CASE ApplySaturationSharpnessGammaSettings
  BY <1>5, SendIfDifferentInv DEF ApplySaturationSharpnessGammaSettings
<1>6. CASE ApplyZedXExposureSettings \/ ApplyZedXAnalogDigitalGain
  BY <1>6, SendManualInv DEF ApplyZedXExposureSettings, ApplyZedXAnalogDigitalGain
<1>7. CASE ApplyZedXAutoExposureTimeRange
  BY <1>7, NotReached, SendUnlessInv DEF ApplyZedXAutoExposureTimeRange
<1>8. CASE ApplyZedXAutoAnalogGainRange
  BY <1>8, NotReached, SendUnlessInv DEF ApplyZedXAutoAnalogGainRange
<1>9. CASE ApplyZedXAutoDigitalGainRange
  BY <1>9, NotReached, SendUnlessInv DEF ApplyZedXAutoDigitalGainRange
<1>10. CASE ApplyZedXExposureCompensation
  BY <1>10, NotReached, SendUnlessInv DEF ApplyZedXExposureCompensation
<1>11. CASE ApplyZedXDenoising
  BY <1>11, NotReached, SendUnlessInv DEF ApplyZedXDenoising
<1>12. CASE ApplyZedXAEAntibanding
  BY <1>12, NotReached, SendUnlessInv DEF ApplyZedXAEAntibanding
<1>13. QED  BY <1>1, <1>2, <1>3, <1>4, <1>5, <1>6, <1>7, <1>8, <1>9, <1>10, <1>11, <1>12 DEF ApplyVideo

LEMMA FourSteps ==
  ASSUME NEW a, NEW b, NEW c, NEW d
  PROVE  /\ \A S : a \in S /\ b \in S /\ c \in S /\ d \in S => <<a, b, c, d>> \in Seq(S)
         /\ \A e : Contains(<<a, b, c, d>>, e) <=> e \in {a, b, c, d}
<1> DEFINE s == <<a, b, c, d>>
<1>1. Len(s) = 4 /\ s[1] = a /\ s[2] = b /\ s[3] = c /\ s[4] = d
  OBVIOUS
<1>2. \A S : a \in S /\ b \in S /\ c \in S /\ d \in S => s \in Seq(S)
  OBVIOUS
<1> HIDE DEF s
<1>3. \A e : Contains(s, e) <=> e \in {a, b, c, d}
  BY <1>1 DEF Contains
<1>4. QED  BY <1>2, <1>3 DEF s

LEMMA IterateInv == IndInv /\ Iterate => IndInv'
<1> SUFFICES ASSUME IndInv, Iterate PROVE IndInv'
  OBVIOUS
<1> USE DEF Iterate, history
<1> DEFINE begun == <<<<"depth", "">>, <<"video", "">>, <<"obj", "">>, <<"body", "">>>>
<1>1. begun \in Seq(Steps)
  <2>1. /\ <<"depth", "">> \in Steps /\ <<"video", "">> \in Steps
        /\ <<"obj", "">> \in Steps /\ <<"body", "">> \in Steps
    BY DEF Steps
  <2>2. QED  BY <2>1, FourSteps
<1>2. ASSUME NEW p PROVE ~Contains(begun, <<"send", p>>) /\ ~Contains(begun, <<"clear", p>>)
  <2>1. /\ <<"send", p>> \notin {<<"depth", "">>, <<"video", "">>, <<"obj", "">>, <<"body", "">>}
        /\ <<"clear", p>> \notin {<<"depth", "">>, <<"video", "">>, <<"obj", "">>, <<"body", "">>}
    OBVIOUS
  <2>2. QED  BY <2>1, FourSteps
<1>3. /\ \A q \in VideoParams \cap Declared : Passed(q)' => Passed(q)
      /\ \A g \in {"obj", "body"} : Quiet(g)' => Quiet(g)
  <2> HIDE DEF begun
  <2>1. \A g : Sending(g)' => Sending(g)
    BY <1>2 DEF Sending, begun
  <2>2. QED  BY <2>1, NothingQueued DEF Passed, Quiet
<1>4. Kept'
  BY <1>3, NothingSent
<1>5. SettingsTypeOK'
  BY <1>1, TypesStay DEF IndInv, SettingsTypeOK
<1>6. QED  BY <1>4, <1>5 DEF IndInv

\* Every setting that is declared has its step.
LEMMA VideoStepsAre ==
  /\ VideoSteps \in Seq(Steps)
  /\ \A q \in VideoParams \cap Declared : Contains(VideoSteps, <<"send", q>>)
  /\ \A g \in {"obj", "body"} : ~Contains(VideoSteps, <<"clear", g>>)
<1> DEFINE a == <<<<"send", "auto_exposure_gain">>, <<"send", "exposure">>, <<"send", "auto_whitebalance">>,
                  <<"send", "temperature">>, <<"send", "brightness">>, <<"send", "sharpness">>>>
           b == <<<<"send", "exposure_time">>, <<"send", "exposure_range">>, <<"send", "compensation">>,
                  <<"send", "analog_gain">>, <<"send", "analog_range">>, <<"send", "digital_range">>,
                  <<"send", "denoising">>, <<"send", "antibanding">>>>
           c == <<<<"clear", "video">>>>
           A == {"auto_exposure_gain", "exposure", "auto_whitebalance", "temperature", "brightness", "sharpness"}
           B == {"exposure_time", "exposure_range", "compensation", "analog_gain", "analog_range",
                 "digital_range", "denoising", "antibanding"}
<1>1. a \in Seq(Steps) /\ \A e : Contains(a, e) <=> \E q \in A : e = <<"send", q>>
  <2>1. /\ Len(a) = 6 /\ a[1] = <<"send", "auto_exposure_gain">> /\ a[2] = <<"send", "exposure">>
        /\ a[3] = <<"send", "auto_whitebalance">> /\ a[4] = <<"send", "temperature">>
        /\ a[5] = <<"send", "brightness">> /\ a[6] = <<"send", "sharpness">>
    OBVIOUS
  <2>2. \A q \in A : <<"send", q>> \in Steps
    BY DEF Steps, Params, Usb3, Gmsl2, Common, Autos
  <2>3. a \in Seq(Steps)
    BY <2>2
  <2> HIDE DEF a
  <2>4. \A e : Contains(a, e) <=> \E q \in A : e = <<"send", q>>
    BY <2>1 DEF Contains
  <2>5. QED  BY <2>3, <2>4
<1>2. b \in Seq(Steps) /\ \A e : Contains(b, e) <=> \E q \in B : e = <<"send", q>>
  <2>1. /\ Len(b) = 8 /\ b[1] = <<"send", "exposure_time">> /\ b[2] = <<"send", "exposure_range">>
        /\ b[3] = <<"send", "compensation">> /\ b[4] = <<"send", "analog_gain">>
        /\ b[5] = <<"send", "analog_range">> /\ b[6] = <<"send", "digital_range">>
        /\ b[7] = <<"send", "denoising">> /\ b[8] = <<"send", "antibanding">>
    OBVIOUS
  <2>2. \A q \in B : <<"send", q>> \in Steps
    BY DEF Steps, Params, Usb3, Gmsl2, Common, Autos
  <2>3. b \in Seq(Steps)
    BY <2>2
  <2> HIDE DEF b
  <2>4. \A e : Contains(b, e) <=> \E q \in B : e = <<"send", q>>
    BY <2>1 DEF Contains
  <2>5. QED  BY <2>3, <2>4
<1>3. c \in Seq(Steps) /\ \A e : Contains(c, e) <=> e = <<"clear", "video">>
  <2>1. Len(c) = 1 /\ c[1] = <<"clear", "video">> /\ <<"clear", "video">> \in Steps
    BY DEF Steps
  <2>2. c \in Seq(Steps)
    BY <2>1
  <2> HIDE DEF c
  <2>3. QED  BY <2>1, <2>2 DEF Contains
<1>4. ZedXSteps = IF launched.kind \notin ZedX THEN <<>> ELSE b
  BY DEF ZedXSteps
<1>5. ZedXSteps \in Seq(Steps)
  BY <1>2, <1>4, NothingQueued
<1>6. VideoSteps = a \o ZedXSteps \o c
  BY DEF VideoSteps
<1> HIDE DEF a, b, c
<1>7. (a \o ZedXSteps) \in Seq(Steps)
      /\ \A e : Contains(a \o ZedXSteps, e) <=> Contains(a, e) \/ Contains(ZedXSteps, e)
  BY <1>1, <1>5, InJoined
<1>8. /\ VideoSteps \in Seq(Steps)
      /\ \A e : Contains(VideoSteps, e) <=> Contains(a \o ZedXSteps, e) \/ Contains(c, e)
  <2> DEFINE d == a \o ZedXSteps
  <2>1. d \in Seq(Steps) /\ VideoSteps = d \o c
    BY <1>6, <1>7
  <2> HIDE DEF d
  <2>2. d \o c \in Seq(Steps) /\ \A e : Contains(d \o c, e) <=> Contains(d, e) \/ Contains(c, e)
    BY <1>3, <2>1, InJoined
  <2>3. QED  BY <2>1, <2>2 DEF d
<1>9. ASSUME NEW q \in VideoParams \cap Declared PROVE Contains(VideoSteps, <<"send", q>>)
  <2>1. q \in A \/ (q \in B /\ launched.kind \in ZedX)
    BY DEF Declared, VideoDeclared, DepthDeclared, ObjDeclared, VideoParams, Usb3, Gmsl2, Common, Autos
  <2> HIDE DEF A, B
  <2>2. QED  BY <1>1, <1>2, <1>4, <1>7, <1>8, <2>1
<1>10. ASSUME NEW g \in {"obj", "body"} PROVE ~Contains(VideoSteps, <<"clear", g>>)
  <2>1. \A q : <<"clear", g>> # <<"send", q>>
    OBVIOUS
  <2>2. <<"clear", g>> # <<"clear", "video">>
    OBVIOUS
  <2> HIDE DEF A, B
  <2>3. QED  BY <1>1, <1>2, <1>3, <1>4, <1>7, <1>8, <2>1, <2>2, NothingQueued
<1>11. QED  BY <1>8, <1>9, <1>10

LEMMA ApplyVideoSettingsInv == IndInv /\ ApplyVideoSettings => IndInv'
<1> SUFFICES ASSUME IndInv, ApplyVideoSettings PROVE IndInv'
  OBVIOUS
<1> USE DEF ApplyVideoSettings, history
<1>1. SettingsTypeOK /\ queue \in Seq(Steps)
  BY OfTypes DEF IndInv
<1>2. /\ queue' \in Seq(Steps)
      /\ \A q \in VideoParams \cap Declared : Passed(q)' => Passed(q)
      /\ \A g \in {"obj", "body"} : Quiet(g)' => Quiet(g)
  <2>1. CASE Next(<<>>)
    <3>1. \A q : <<"video", "">> # <<"send", q>>
      OBVIOUS
    <3>2. QED  BY <1>1, <2>1, <3>1, NothingQueued, StepTaken, SetsOfParams
  <2>2. CASE Next(VideoSteps)
    <3>1. /\ queue' \in Seq(Steps)
          /\ \A g \in {"obj", "body"} : Quiet(g)' => Quiet(g)
      BY <1>1, <2>2, VideoStepsAre, StepTaken
    <3>2. \A e : Contains(VideoSteps, e) => Contains(queue, e)'
      BY <1>1, <2>2, VideoStepsAre, Queued DEF At
    <3>3. \A q \in VideoParams \cap Declared : ~Passed(q)'
      BY <3>2, VideoStepsAre DEF Passed
    <3>4. QED  BY <3>1, <3>3
  <2>3. QED  BY <2>1, <2>2
<1>3. Kept'
  BY <1>2, NothingSent
<1>4. SettingsTypeOK'
  BY <1>1, <1>2, TypesStay DEF SettingsTypeOK
<1>5. QED  BY <1>3, <1>4 DEF IndInv

LEMMA ClearInv == IndInv /\ Clear => IndInv'
<1> SUFFICES ASSUME IndInv, NEW group \in dirty, At(<<"clear", group>>), dirty' = dirty \ {group}, Next(<<>>),
                    UNCHANGED <<launched, server, wish, trigger, dial, excused, broken, changes, refusals>>
             PROVE  IndInv'
  BY DEF Clear, history
<1>1. SettingsTypeOK /\ queue \in Seq(Steps)
  BY OfTypes DEF IndInv
<1> DEFINE t == Tail(queue)
<1>2. /\ queue' \in Seq(Steps)
      /\ \A e : Contains(queue, e)' <=> Contains(t, e)
      /\ \A e : Contains(queue, e) <=> e = <<"clear", group>> \/ Contains(t, e)
  BY <1>1, NothingQueued, Queued DEF At
<1> HIDE DEF t
<1>3. \A g : Sending(g)' => Sending(g)
  BY <1>2 DEF Sending
<1>4. Sending(group)
  BY <1>2 DEF Sending
<1>5. ASSUME NEW q \in VideoParams, Passed(q)' PROVE Passed(q)
  <2>1. ~Contains(queue, <<"send", q>>)
    <3>1. <<"send", q>> # <<"clear", group>>
      OBVIOUS
    <3>2. QED  BY <1>2, <1>5, <3>1 DEF Passed
  <2>2. QED  BY <1>3, <1>4, <1>5, <2>1 DEF Passed
<1>6. \A g \in {"obj", "body"} : Quiet(g)' => Quiet(g)
  BY <1>3, <1>4 DEF Quiet
<1>7. Kept'
  BY <1>5, <1>6, NothingSent
<1>8. SettingsTypeOK'
  BY <1>1, <1>2, TypesStay DEF SettingsTypeOK
<1>9. QED  BY <1>7, <1>8 DEF IndInv

\* A step with which the SDK has other parameters than those of the camera.
LEMMA OthersSent ==
  ASSUME IndInv, UNCHANGED <<launched, server, wish, trigger, excused, broken>>,
         NEW given, given \cap VideoParams = {},
         dial' = [q \in Declared |-> IF q \in given THEN wish[q] ELSE dial[q]],
         \A q \in VideoParams : Passed(q)' => Passed(q),
         \A p \in {"people", "keypoints"} \cap Declared :
           p \in given \/ (Quiet(Group(p))' => Quiet(Group(p)))
  PROVE  Kept'
<1> USE SameSets, SetsOfParams, FirstIsManual DEF IndInv, Kept
<1>1. \A q \in VideoParams \cap Declared : dial'[q] = dial[q]
  OBVIOUS
<1>2. Told'
  BY DEF Told
<1>3. AutosKept'
  BY <1>1 DEF AutosKept
<1>4. ManualsKept'
  BY <1>1 DEF ManualsKept
<1>5. OthersKept'
  <2>1. ASSUME NEW q \in (Reached \cap Declared) \ (Manual \cup Autos \cup excused), Passed(q)' PROVE dial'[q] = wish[q]
    BY <1>1, <2>1, ReachedVideo DEF OthersKept
  <2>2. ASSUME NEW q \in ({"people", "keypoints"} \cap Declared) \ excused, Quiet(Group(q))' PROVE dial'[q] = wish[q]
    <3>1. CASE q \in given
      BY <2>2, <3>1
    <3>2. CASE q \notin given
      <4>1. Quiet(Group(q))
        BY <2>2, <3>2
      <4>2. dial[q] = wish[q]
        BY <2>2, <4>1, Zenon DEF OthersKept, Quiet
      <4>3. QED  BY <2>2, <3>2, <4>2
    <3>3. QED  BY <3>1, <3>2
  <2>3. QED  BY <2>1, <2>2, Zenon DEF OthersKept, Quiet
<1>6. QED  BY <1>2, <1>3, <1>4, <1>5

LEMMA ApplyDepthSettingsInv == IndInv /\ ApplyDepthSettings => IndInv'
<1> SUFFICES ASSUME IndInv, ApplyDepthSettings PROVE IndInv'
  OBVIOUS
<1> USE DEF ApplyDepthSettings, history
<1>1. SettingsTypeOK /\ queue \in Seq(Steps)
  BY OfTypes DEF IndInv
<1>2. /\ queue' \in Seq(Steps)
      /\ \A q \in VideoParams : Passed(q)' => Passed(q)
      /\ \A g \in {"obj", "body"} : Quiet(g)' => Quiet(g)
  <2>1. \A q : <<"depth", "">> # <<"send", q>>
    OBVIOUS
  <2>2. At(<<"depth", "">>) /\ Next(<<>>) /\ dirty' = dirty
    OBVIOUS
  <2>3. QED  BY ONLY <1>1, <2>1, <2>2, StepDropped
<1>3. CASE dial' = dial
  <2>1. Kept'
    BY <1>2, <1>3, NothingSent
  <2>2. SettingsTypeOK'
    BY <1>1, <1>2, <1>3, TypesStay DEF SettingsTypeOK
  <2>3. QED  BY <2>1, <2>2 DEF IndInv
<1>4. CASE dial' = [dial EXCEPT !["depth_confidence"] = wish["depth_confidence"]]
  <2> DEFINE given == {"depth_confidence"}
  <2>1. dial' = [q \in Declared |-> IF q \in given THEN wish[q] ELSE dial[q]]
    BY <1>1, <1>4, OfTypes
  <2>2. given \cap VideoParams = {} /\ excused' \subseteq Params /\ refusals' \in 0..MaxRefusals
    BY <1>1 DEF VideoParams, Usb3, Gmsl2, Common, Autos, SettingsTypeOK
  <2> HIDE DEF given
  <2>3. Kept'
    <3>1. \A p \in {"people", "keypoints"} \cap Declared : Quiet(Group(p))' => Quiet(Group(p))
      BY <1>2, ReachedVideo
    <3>2. UNCHANGED <<launched, server, wish, trigger, excused, broken>>
      OBVIOUS
    <3>3. QED  BY ONLY IndInv, <1>2, <2>1, <2>2, <3>1, <3>2, OthersSent
  <2>4. SettingsTypeOK'
    BY <1>1, <1>2, <2>1, <2>2, TypesKept
  <2>5. QED  BY <2>3, <2>4 DEF IndInv
<1>5. QED  BY <1>3, <1>4

LEMMA OneStep ==
  ASSUME NEW e \in Steps
  PROVE  <<e>> \in Seq(Steps) /\ \A x : Contains(<<e>>, x) <=> x = e
<1> DEFINE s == <<e>>
<1>1. s \in Seq(Steps) /\ Len(s) = 1 /\ s[1] = e
  OBVIOUS
<1> HIDE DEF s
<1>2. QED  BY <1>1 DEF s, Contains

LEMMA ProcessInv ==
  ASSUME IndInv, NEW group \in {"obj", "body"}, At(<<group, "">>),
         UNCHANGED <<launched, server, wish, trigger, dirty, excused, broken, changes, refusals>>,
         \/ Next(<<>>) /\ dial' = dial
         \/ \E given \in SUBSET {"people", "class", "keypoints"} :
              /\ dial' = [q \in Declared |-> IF q \in given THEN wish[q] ELSE dial[q]]
              /\ Next(IF group \in dirty THEN <<<<"clear", group>>>> ELSE <<>>)
              /\ group \in dirty => \A p \in {"people", "keypoints"} \cap Declared : Group(p) = group => p \in given
  PROVE  IndInv'
<1>1. SettingsTypeOK /\ queue \in Seq(Steps)
  BY OfTypes DEF IndInv
<1>2. \A q : <<group, "">> # <<"send", q>>
  OBVIOUS
<1>3. excused' \subseteq Params /\ refusals' \in 0..MaxRefusals
  BY <1>1 DEF SettingsTypeOK
<1>4. CASE Next(<<>>) /\ dial' = dial
  <2>1. /\ queue' \in Seq(Steps)
        /\ \A q \in VideoParams : Passed(q)' => Passed(q)
        /\ \A g \in {"obj", "body"} : Quiet(g)' => Quiet(g)
    BY <1>1, <1>2, <1>4, StepDropped
  <2>2. Kept'
    BY <1>4, <2>1, NothingSent
  <2>3. SettingsTypeOK'
    BY <1>1, <1>3, <1>4, <2>1, TypesStay
  <2>4. QED  BY <2>2, <2>3 DEF IndInv
<1>5. ASSUME NEW given \in SUBSET {"people", "class", "keypoints"},
             dial' = [q \in Declared |-> IF q \in given THEN wish[q] ELSE dial[q]],
             Next(IF group \in dirty THEN <<<<"clear", group>>>> ELSE <<>>),
             group \in dirty => \A p \in {"people", "keypoints"} \cap Declared : Group(p) = group => p \in given
      PROVE  IndInv'
  <2> DEFINE todo == IF group \in dirty THEN <<<<"clear", group>>>> ELSE <<>>
  <2>1. /\ todo \in Seq(Steps)
        /\ \A p : ~Contains(todo, <<"send", p>>)
        /\ ~Contains(todo, <<"clear", "video">>)
        /\ \A g : Contains(todo, <<"clear", g>>) => g = group /\ group \in dirty
    <3>1. CASE group \in dirty
      <4>1. <<"clear", group>> \in Steps
        BY DEF Steps
      <4>2. todo \in Seq(Steps) /\ \A x : Contains(todo, x) <=> x = <<"clear", group>>
        BY <3>1, <4>1, OneStep
      <4>3. \A p : <<"send", p>> # <<"clear", group>>
        OBVIOUS
      <4> HIDE DEF todo
      <4>4. QED  BY <3>1, <4>2, <4>3
    <3>2. CASE group \notin dirty
      BY <3>2, NothingQueued
    <3>3. QED  BY <3>1, <3>2
  <2> HIDE DEF todo
  <2>2. /\ queue' \in Seq(Steps)
        /\ \A q \in VideoParams : Passed(q)' => Passed(q)
        /\ \A g \in {"obj", "body"} : ~Contains(todo, <<"clear", g>>) /\ Quiet(g)' => Quiet(g)
    <3>1. Next(todo)
      BY <1>5 DEF todo
    <3>2. /\ queue' \in Seq(Steps)
          /\ \A q \in Params : <<group, "">> # <<"send", q>> /\ Passed(q)' => Passed(q)
          /\ \A g \in {"obj", "body"} : ~Contains(todo, <<"clear", g>>) /\ Quiet(g)' => Quiet(g)
      BY <1>1, <2>1, <3>1, StepTaken
    <3>3. QED  BY <1>2, <3>2, SetsOfParams
  <2>3. \A p \in {"people", "keypoints"} \cap Declared : p \in given \/ (Quiet(Group(p))' => Quiet(Group(p)))
    BY <1>5, <2>1, <2>2, ReachedVideo
  <2>4. given \cap VideoParams = {}
    BY DEF VideoParams, Usb3, Gmsl2, Common, Autos
  <2>5. Kept'
    BY <1>5, <2>2, <2>3, <2>4, OthersSent
  <2>6. SettingsTypeOK'
    BY <1>1, <1>3, <1>5, <2>2, TypesKept
  <2>7. QED  BY <2>5, <2>6 DEF IndInv
<1>6. QED  BY <1>4, <1>5

LEMMA ProcessDetectedObjectsInv == IndInv /\ ProcessDetectedObjects => IndInv'
<1> SUFFICES ASSUME IndInv, ProcessDetectedObjects PROVE IndInv'
  OBVIOUS
<1> DEFINE sent == IF launched.custom THEN {"class"} ELSE IF "obj" \in dirty THEN {"people"} ELSE {}
<1>1. /\ At(<<"obj", "">>)
      /\ UNCHANGED <<launched, server, wish, trigger, dirty, excused, broken, changes, refusals>>
      /\ \/ Next(<<>>) /\ dial' = dial
         \/ /\ dial' = [q \in Declared |-> IF q \in sent THEN wish[q] ELSE dial[q]]
            /\ Next(IF "obj" \in dirty THEN <<<<"clear", "obj">>>> ELSE <<>>)
  BY DEF ProcessDetectedObjects, history
<1>2. "obj" \in dirty => \A p \in {"people", "keypoints"} \cap Declared : Group(p) = "obj" => p \in sent
  BY DEF Group, Declared, VideoDeclared, DepthDeclared, ObjDeclared, Common, Gmsl2, Usb3, Autos
<1>3. sent \in SUBSET {"people", "class", "keypoints"}
  OBVIOUS
<1> HIDE DEF sent
<1>4. QED  BY <1>1, <1>2, <1>3, ProcessInv

LEMMA ProcessBodiesInv == IndInv /\ ProcessBodies => IndInv'
<1> SUFFICES ASSUME IndInv, ProcessBodies PROVE IndInv'
  OBVIOUS
<1> DEFINE sent == {"keypoints"}
<1>1. /\ At(<<"body", "">>)
      /\ UNCHANGED <<launched, server, wish, trigger, dirty, excused, broken, changes, refusals>>
      /\ \/ Next(<<>>) /\ dial' = dial
         \/ /\ dial' = [q \in Declared |-> IF q \in sent THEN wish[q] ELSE dial[q]]
            /\ Next(IF "body" \in dirty THEN <<<<"clear", "body">>>> ELSE <<>>)
  BY OfTypes DEF ProcessBodies, history, IndInv
<1>2. "body" \in dirty => \A p \in {"people", "keypoints"} \cap Declared : Group(p) = "body" => p \in sent
  BY DEF Group
<1>3. sent \in SUBSET {"people", "class", "keypoints"}
  OBVIOUS
<1> HIDE DEF sent
<1>4. QED  BY <1>1, <1>2, <1>3, ProcessInv

LEMMA AdaptInv == IndInv /\ Adapt => IndInv'
<1> SUFFICES ASSUME IndInv, NEW p \in Manual \cap Declared, dial[AutoOf(p)] = 1,
                    dial' = [dial EXCEPT ![p] = 1 - dial[p]],
                    UNCHANGED <<launched, server, wish, trigger, dirty, queue, excused, broken, changes, refusals>>
             PROVE  IndInv'
  BY DEF Adapt, history
<1> USE SameSets, SetsOfParams, FirstIsManual
<1>1. SettingsTypeOK /\ dial[p] \in {0, 1} /\ Sent(p) = 0..1
  <2>1. Sent(p) = 0..1
    BY DEF Sent, Manual, Rates
  <2>2. QED  BY <2>1, OfTypes DEF IndInv
<1>2. \A q \in Declared \ {p} : dial'[q] = dial[q]
  BY <1>1, OfTypes
<1>3. \A q : Passed(q)' = Passed(q) /\ Quiet(q)' = Quiet(q) /\ Sending(q)' = Sending(q)
  BY DEF Passed, Quiet, Sending
<1>4. SettingsTypeOK'
  <2>1. dial' \in [Declared -> Nat] /\ \A q \in Declared : dial'[q] \in Sent(q)
    BY <1>1, <1>2, OfTypes
  <2>2. QED  BY <1>1, <2>1, OfTypes, DeclaredSame DEF SettingsTypeOK
<1>5. Kept'
  <2> USE DEF IndInv, Kept
  <2>1. Told'
    BY DEF Told
  <2>2. AutosKept'
    BY <1>2, <1>3 DEF AutosKept
  <2>3. ManualsKept'
    BY <1>2, <1>3 DEF ManualsKept
  <2>4. OthersKept'
    <3>1. ASSUME NEW q \in (Reached \cap Declared) \ (Manual \cup Autos \cup excused), Passed(q)' PROVE dial'[q] = wish[q]
      BY <1>2, <1>3, <3>1 DEF OthersKept
    <3>2. ASSUME NEW q \in ({"people", "keypoints"} \cap Declared) \ excused, Quiet(Group(q))' PROVE dial'[q] = wish[q]
      <4>1. Quiet(Group(q)) /\ q # p
        BY <1>3, <3>2, ReachedVideo
      <4>2. dial[q] = wish[q]
        BY <3>2, <4>1, Zenon DEF OthersKept, Quiet
      <4>3. QED  BY <1>2, <3>2, <4>1, <4>2
    <3>3. QED  BY <3>1, <3>2, Zenon DEF OthersKept, Quiet
  <2>5. QED  BY <2>1, <2>2, <2>3, <2>4
<1>6. QED  BY <1>4, <1>5 DEF IndInv

\* A call that was refused has marked what it has changed, and one that was accepted all its
\* parameters: if nothing seems to be left to send of them, the thread is sending.
LEMMA DynamicParamChangeInv == IndInv /\ DynamicParamChange => IndInv'
<1> SUFFICES ASSUME IndInv, DynamicParamChange PROVE IndInv'
  OBVIOUS
<1>1. PICK batch, n, other, set :
        /\ batch \in Batches /\ n = Handles(Members, batch)
        /\ other = {q \in Declared : n.wish[q] # wish[q]}
        /\ set = IF n.refused THEN other ELSE other \cup Of(batch)
        /\ wish' = n.wish /\ trigger' = n.trigger /\ dirty' = n.dirty
        /\ dial' = [q \in Declared |-> IF q \in Rates THEN n.wish[q] ELSE dial[q]]
        /\ server' = IF n.refused THEN server ELSE Stores(server, batch)
        /\ excused' = (excused \ set) \cup {q \in set \cup Under(set) : Sending(Group(q))}
        /\ broken' = IF n.refused THEN broken \cup other ELSE broken \ Of(batch)
  BY ZenonT(60) DEF DynamicParamChange, Handles, Stores
<1>2. /\ changes < MaxChanges /\ changes' = changes + 1
      /\ launched' = launched /\ queue' = queue /\ refusals' = refusals
  BY DEF DynamicParamChange
<1> DEFINE s == Stores(server, batch)
<1>3. Call(batch, n, s) /\ SettingsTypeOK
  BY <1>1, ZedSettingsAssumption, Called DEF IndInv, ZedSettingsAssumption
<1> HIDE DEF s
<1>4. After(Members, n, batch) /\ Of(batch) \subseteq Declared /\ set \subseteq Declared /\ other \subseteq Declared
  BY <1>1, <1>3 DEF Call
<1>5. /\ \A q \in Declared : n.wish[q] # wish[q] => (q \in Autos \/ q \in Of(batch)) /\ Marked(n, q)
      /\ \A a \in Autos : n.wish[a] = 1 /\ wish[a] # 1 => a \in n.trigger
      /\ ~n.refused => \A q \in Of(batch) : Marked(n, q)
      /\ trigger \subseteq trigger' /\ dirty \subseteq dirty'
  BY <1>1, <1>4 DEF After, Members
<1>6. \A q \in set : Marked(n, q)
  BY <1>1, <1>4, <1>5
<1>7. \A q \in Declared \ set : wish'[q] = wish[q]
  BY <1>1
<1>8. \A q \in Declared \ Rates : dial'[q] = dial[q]
  BY <1>1
<1>9. \A g : Sending(g)' = Sending(g)
  BY <1>2 DEF Sending
<1>10. \A q : q \in VideoParams => Group(q) = "video"
  BY ReachedVideo DEF Group
<1>11. ASSUME NEW q \in set \cap VideoParams, NEW x, Passed(x)' PROVE Sending("video") /\ q \in excused'
  <2>1. "video" \in dirty'
    BY <1>1, <1>6 DEF Marked
  <2>2. Sending("video")
    BY <1>9, <1>11, <2>1 DEF Passed
  <2>3. QED  BY <1>1, <1>10, <2>2
<1>12. ASSUME NEW q \in Manual \cap Declared, AutoOf(q) \in set, NEW x, Passed(x)' PROVE q \in excused'
  <2>1. AutoOf(q) \in set \cap VideoParams /\ q \in VideoParams
    BY <1>12, SetsOfParams
  <2>2. Sending("video")
    BY <1>11, <1>12, <2>1
  <2>3. q \in Under(set) /\ Group(q) = "video"
    BY <1>10, <1>12, <2>1 DEF Under
  <2>4. QED  BY <1>1, <2>2, <2>3
<1>13. \A q \in Params : q \notin set /\ q \notin excused' => q \notin excused
  BY <1>1
<1>14. \A x \in Params : Passed(x)' => Passed(x)
  BY <1>2, <1>5, <1>9 DEF Passed
<1>15. \A g : Quiet(g)' => Quiet(g)
  BY <1>5, <1>9 DEF Quiet
<1> USE SameSets, SetsOfParams, FirstIsManual DEF IndInv, Kept
<1>16. SettingsTypeOK'
  <2>1. /\ n.trigger \subseteq Autos /\ n.dirty \subseteq {"video", "obj", "body"}
        /\ n.wish \in [Declared -> Nat] /\ \A p \in Declared : n.wish[p] \in Sent(p)
        /\ \A p \in Rates : n.wish[p] > 0
    BY <1>4 DEF After, Sane
  <2>2. server' \in [Declared -> Nat] /\ \A p \in Declared : server'[p] \in Sent(p)
    BY <1>1, <1>3, OfTypes DEF Call, s
  <2>3. dial' \in [Declared -> Nat] /\ \A p \in Declared : dial'[p] \in Sent(p)
    BY <1>1, <2>1, OfTypes, <1>3
  <2>4. excused' \subseteq Params /\ broken' \subseteq Params
    BY <1>1, <1>3, <1>4 DEF Under, SettingsTypeOK
  <2>5. changes' \in 0..MaxChanges
    BY <1>2, <1>3, ZedSettingsAssumption DEF SettingsTypeOK, ZedSettingsAssumption
  <2>6. launched \in Launched /\ queue' \in Seq(Steps) /\ refusals' \in 0..MaxRefusals
    BY <1>2, <1>3 DEF SettingsTypeOK
  <2>7. QED  BY ONLY <1>1, <1>2, <2>1, <2>2, <2>3, <2>4, <2>5, <2>6, DeclaredSame
<1>17. Told'
  <2>1. ASSUME NEW p \in Declared \ (Autos \cup Rates \cup broken') PROVE wish'[p] = server'[p]
    <3>1. CASE n.refused
      BY <1>1, <2>1, <3>1 DEF Told
    <3>2. CASE ~n.refused /\ p \in Of(batch)
      BY <1>1, <1>3, <2>1, <3>2 DEF Call, s
    <3>3. CASE ~n.refused /\ p \notin Of(batch)
      <4>1. p \notin broken /\ n.wish[p] = wish[p] /\ s[p] = server[p]
        BY <1>1, <1>3, <1>5, <2>1, <3>3 DEF Call
      <4>2. wish[p] = server[p]
        BY <2>1, <4>1 DEF Told
      <4>3. QED  BY <1>1, <3>3, <4>1, <4>2 DEF s
    <3>4. QED  BY <3>1, <3>2, <3>3
  <2>2. QED  BY <1>2, <2>1 DEF Told
<1>18. AutosKept'
  <2>1. ASSUME NEW a \in Autos PROVE a \in Declared \ Rates /\ a \in Params /\ a \in VideoParams /\ wish[a] \in {0, 1}
    <3>1. a \in Declared /\ Sent(a) = 0..1 /\ a \notin Rates
      BY DEF Sent, Autos, Rates
    <3>2. QED  BY <1>3, <3>1, OfTypes
  <2>2. ASSUME NEW a \in Autos, wish'[a] = 1, a \notin trigger' \/ (Passed(a)' /\ a \notin excused') PROVE dial'[a] = 1
    <3>1. CASE a \notin trigger'
      <4>1. wish[a] = 1 /\ a \notin trigger
        BY <1>1, <1>5, <2>2, <3>1
      <4>2. QED  BY <1>8, <2>1, <4>1 DEF AutosKept
    <3>2. CASE Passed(a)' /\ a \notin excused'
      <4>1. a \notin set /\ a \notin excused /\ Passed(a)
        BY <1>11, <1>13, <1>14, <2>1, <3>2
      <4>2. wish[a] = 1
        BY <1>7, <2>1, <2>2, <4>1
      <4>3. QED  BY <1>8, <2>1, <4>1, <4>2 DEF AutosKept
    <3>3. QED  BY <2>2, <3>1, <3>2
  <2>3. ASSUME NEW a \in Autos, wish'[a] = 0, Passed(FirstOf(a))', a \notin excused' PROVE dial'[a] = 0
    <3>1. a \notin set /\ a \notin excused /\ Passed(FirstOf(a))
      BY <1>11, <1>13, <1>14, <2>1, <2>3
    <3>2. wish[a] = 0
      BY <1>7, <2>1, <2>3, <3>1
    <3>3. QED  BY <1>8, <2>1, <3>1, <3>2 DEF AutosKept
  <2>4. QED  BY <2>2, <2>3 DEF AutosKept
<1>19. ManualsKept'
  <2>1. ASSUME NEW p \in (Manual \cap Declared) \ excused', wish'[AutoOf(p)] = 0, Passed(p)'
        PROVE  dial'[p] = wish'[p] /\ dial'[AutoOf(p)] = 0
    <3>1. p \in VideoParams /\ p \in Params /\ AutoOf(p) \in Declared /\ p \notin Rates /\ AutoOf(p) \notin Rates
      OBVIOUS
    <3>2. p \notin set /\ AutoOf(p) \notin set /\ p \notin excused /\ Passed(p)
      BY <1>11, <1>12, <1>13, <1>14, <2>1, <3>1
    <3>3. wish[AutoOf(p)] = 0 /\ wish'[p] = wish[p]
      BY <1>7, <2>1, <3>1, <3>2
    <3>4. dial[p] = wish[p] /\ dial[AutoOf(p)] = 0
      BY <2>1, <3>2, <3>3 DEF ManualsKept
    <3>5. QED  BY <1>8, <2>1, <3>1, <3>3, <3>4
  <2>2. QED  BY <1>2, <2>1 DEF ManualsKept
<1>20. OthersKept'
  <2>1. ASSUME NEW q \in (Reached \cap Declared) \ (Manual \cup Autos \cup excused'), Passed(q)'
        PROVE dial'[q] = wish'[q]
    <3>1. q \in VideoParams /\ q \in Params /\ q \notin Rates
      BY ReachedVideo
    <3>2. q \notin set /\ q \notin excused /\ Passed(q)
      BY <1>11, <1>13, <1>14, <2>1, <3>1
    <3>3. dial[q] = wish[q]
      BY <2>1, <3>2 DEF OthersKept
    <3>4. QED  BY <1>7, <1>8, <3>1, <3>2, <3>3
  <2>2. ASSUME NEW q \in ({"people", "keypoints"} \cap Declared) \ excused', Quiet(Group(q))'
        PROVE dial'[q] = wish'[q]
    <3>1. q \in Params /\ q \notin Rates
      BY DEF Rates
    <3>2. q \notin set
      <4>1. ASSUME q \in set PROVE FALSE
        <5>1. Group(q) \in dirty'
          BY <1>1, <1>6, <2>2, <4>1, ReachedVideo DEF Marked
        <5>2. Sending(Group(q))
          BY <1>9, <2>2, <5>1 DEF Quiet
        <5>3. QED  BY <1>1, <2>2, <4>1, <5>2
      <4>2. QED  BY <4>1
    <3>3. q \notin excused /\ Quiet(Group(q))
      BY <1>13, <1>15, <2>2, <3>1, <3>2
    <3>4. dial[q] = wish[q]
      BY <2>2, <3>3, Zenon DEF OthersKept, Quiet
    <3>5. QED  BY <1>7, <1>8, <2>2, <3>1, <3>2, <3>4
  <2>3. QED  BY <1>2, <2>1, <2>2, Zenon DEF OthersKept, Quiet
<1>21. QED  BY <1>16, <1>17, <1>18, <1>19, <1>20

-----------------------------------------------------------------------------
LEMMA SettingsInitInv == SettingsInit => IndInv
<1> SUFFICES ASSUME SettingsInit PROVE IndInv
  OBVIOUS
<1> USE SetsOfParams, FirstIsManual, ZedSettingsAssumption DEF SettingsInit, ZedSettingsAssumption
<1>1. \A p \in Declared : 0 \in Sent(p) /\ (p \in Autos => Sent(p) = 0..1) /\ (p \in Rates => Sent(p) = 0..GrabRate)
  BY DEF Sent, Rates, Autos
<1>2. \A a \in Autos : launched.initial[a] \in 0..1
  OBVIOUS
<1>3. /\ server \in [Declared -> Nat] /\ wish = server
      /\ \A p \in Declared : server[p] \in Sent(p)
      /\ \A p \in Rates : wish[p] > 0
  BY <1>1, <1>2 DEF Autos, Rates
<1>4. dial \in [Declared -> Nat] /\ \A p \in Declared : dial[p] \in Sent(p)
  BY <1>1
<1>5. SettingsTypeOK
  BY <1>3, <1>4, NothingQueued DEF SettingsTypeOK
<1>6. \A g : ~Sending(g)
  BY NothingQueued DEF Sending
<1>7. (\A q : ~Passed(q)) /\ ~Quiet("obj") /\ ~Quiet("body")
  BY <1>6 DEF Passed, Quiet
<1>8. Told
  BY DEF Told
<1>9. AutosKept
  BY <1>7 DEF AutosKept
<1>10. ManualsKept
  BY <1>7 DEF ManualsKept
<1>11. OthersKept
  <2>1. \A q \in {"people", "keypoints"} : ~Quiet(Group(q))
    BY <1>7, ReachedVideo
  <2>2. QED  BY <1>7, <2>1, Zenon DEF OthersKept, Quiet
<1>12. QED  BY <1>5, <1>8, <1>9, <1>10, <1>11 DEF IndInv, Kept

\* When nothing is marked and nothing is being sent, every parameter has been passed.
LEMMA AllReach == IndInv => SettingsReach
<1> SUFFICES ASSUME IndInv, NEW p \in (Declared \cap (Reached \cup {"people", "keypoints"})) \ (excused \cup broken),
                    Group(p) \notin dirty, ~Sending(Group(p))
             PROVE  Has(p)
  BY DEF SettingsReach
<1> USE SetsOfParams, FirstIsManual DEF IndInv, Kept
<1>1. \A q \in VideoParams : Group(q) = "video"
  BY ReachedVideo DEF Group
<1>2. ASSUME NEW q \in VideoParams, p \in VideoParams PROVE Passed(q)
  BY <1>1, <1>2 DEF Passed, Sending
<1>3. CASE p \in Autos
  <2>1. wish[p] \in {0, 1}
    <3>1. Sent(p) = 0..1
      BY <1>3 DEF Sent, Autos, Rates
    <3>2. QED  BY <3>1, OfTypes
  <2>2. Passed(p) /\ Passed(FirstOf(p))
    BY <1>2, <1>3
  <2>3. QED  BY <1>3, <2>1, <2>2 DEF AutosKept, Has
<1>4. CASE p \in Manual
  <2>1. wish[AutoOf(p)] \in {0, 1}
    <3>1. AutoOf(p) \in Declared /\ Sent(AutoOf(p)) = 0..1
      BY <1>4 DEF Sent, Autos, Rates
    <3>2. QED  BY <3>1, OfTypes
  <2>2. Passed(p) /\ p \notin Autos \cup Rates
    BY <1>2, <1>4
  <2>3. QED  BY <1>4, <2>1, <2>2 DEF ManualsKept, Told, Has
<1>5. CASE p \notin Autos \cup Manual
  <2>1. p \notin Rates
    BY ReachedVideo DEF Rates
  <2>2. CASE p \in Reached
    <3>1. Passed(p)
      BY <1>2, <2>2, ReachedVideo
    <3>2. dial[p] = wish[p]
      BY <1>5, <2>2, <3>1 DEF OthersKept
    <3>3. QED  BY <1>5, <2>1, <3>2 DEF Told, Has
  <2>3. CASE p \in {"people", "keypoints"}
    <3>1. dial[p] = wish[p]
      BY <2>3, Zenon DEF OthersKept
    <3>2. QED  BY <1>5, <2>1, <3>1 DEF Told, Has
  <2>4. QED  BY <2>2, <2>3
<1>6. QED  BY <1>3, <1>4, <1>5

LEMMA SettingsStuttering == IndInv /\ UNCHANGED settingsVars => IndInv'
<1> SUFFICES ASSUME IndInv, UNCHANGED settingsVars PROVE IndInv'
  OBVIOUS
<1> USE SameSets DEF settingsVars, history, IndInv, Kept
<1>1. SettingsTypeOK'
  BY DeclaredSame DEF SettingsTypeOK
<1>2. \A q : Passed(q)' = Passed(q) /\ Quiet(q)' = Quiet(q)
  BY DEF Passed, Quiet, Sending
<1>3. Kept'
  BY <1>2, NothingSent
<1>4. QED  BY <1>1, <1>3

\* SettingsInv: whatever is changed by calls of one parameter or of two, in whatever order
\* the callback and the grab thread run, and whatever the SDK refuses.
THEOREM SettingsInvariant == SettingsSpec => []SettingsInv
<1>1. IndInv /\ [SettingsNext]_settingsVars => IndInv'
  BY DynamicParamChangeInv, AdaptInv, IterateInv, ApplyDepthSettingsInv, ApplyVideoSettingsInv,
     ApplyVideoInv, ClearInv, ProcessDetectedObjectsInv, ProcessBodiesInv, SettingsStuttering
  DEF SettingsNext
<1>2. IndInv => SettingsInv
  BY AllReach DEF IndInv, Kept, SettingsInv
<1>3. QED  BY <1>1, <1>2, SettingsInitInv, PTL DEF SettingsSpec

-----------------------------------------------------------------------------
(* The parameters of the ZED One node.  Those that are set together are a  *)
(* family; each setting of the image is one of its own.                    *)

White == Automatic("wb")
ImageFamilies == {"saturation", "compensation", "denoising"}
FamilyOf(p) == IF p[1] = "image" THEN p[2] ELSE p[1]
Family(f) == {p \in OneParams : FamilyOf(p) = f}
Families == Ranged \cup ImageFamilies \cup {"wb"}
Picture(f) == <<"image", f>>
Dials == Flagged \ (Ranged \X {"auto", "value"})

\* Something of the family is not disturbed, and so all of it is not.
Sound(f) == \E p \in Family(f) : p \notin disturbed
Unmarked(f) == \A p \in Family(f) : p \notin changed
Saved(p) == stored[p] = member[p]
SavedRange(g) == Saved(Low(g)) /\ Saved(High(g))
Carried(p) == p \in changed \/ camera[p] = member[p]
CarriedRange(g) == Carried(Low(g)) /\ Carried(High(g))
HasRange(g) == camera[Low(g)] = member[Low(g)] /\ camera[High(g)] = member[High(g)]
Warm == camera[Temperature] \in {member[Temperature], Own}

\* What a family needs for the next round to send what is left of it.
\* With a manual value that is marked, the value will be the range.
WaitsRange(f) ==
  /\ \A p \in {Low(f), High(f)} :
       \/ p \in changed
       \/ member[Automatic(f)] = 0 /\ Value(f) \in changed /\ member[p] = member[Value(f)]
       \/ ~(member[Automatic(f)] = 0 /\ Value(f) \in changed) /\ camera[p] = member[p]
  /\ member[Automatic(f)] = 1 => Automatic(f) \in changed \/ SavedRange(f)
WaitsWhite ==
  /\ Carried(White) \/ (Temperature \in changed /\ member[White] = 0)
  /\ Warm \/ (member[White] = 0 /\ Temperature \in changed) \/ (member[White] = 1 /\ White \in changed)
  /\ Saved(Temperature) /\ (member[White] = 0 \/ Saved(White))
Waits(f) ==
  /\ f \in Ranged => WaitsRange(f)
  /\ f = "wb" => WaitsWhite
  /\ f \in ImageFamilies => Carried(Picture(f)) /\ Saved(Picture(f))

\* An automatic mode that is not marked has a range.
Split(g) == member[Automatic(g)] = 1 => member[Low(g)] # member[High(g)]
Ready(f) == f \in Ranged => Split(f) \/ Automatic(f) \in changed

\* All of the family has arrived.
Arrived(f) ==
  /\ Waits(f) /\ Unmarked(f)
  /\ f \in Ranged => /\ Agree(f) /\ Saved(Automatic(f)) /\ SavedRange(f)
                     /\ member[Automatic(f)] = 0 => Saved(Value(f))
  /\ f = "wb" => Saved(White)

-----------------------------------------------------------------------------
(* Where the grab thread is with a family: what the steps that are left    *)
(* lead it through, stage by stage, to "idle".  A stage may carry a value. *)

Stages == {"idle", "ready", "manual", "valued", "forced", "zero", "low", "high", "widen", "wide",
           "even", "plain", "marked", "settle", "sole", "value", "multi", "balance", "white",
           "warm", "warmed", "fixed", "sent", "open", "counted"} \X Int
At0(k) == <<k, 0>>

\* What holds of a family that nobody has disturbed, and in the second round.
Live(f) == Sound(f) \/ rounds = 2
Tidy(f) == Live(f) \/ (rounds = 1 /\ ~registered)
White0(f) == Sound(f) \/ rounds = 1 \/ rounds = 2

Idle1(f) ==
  /\ Sound(f) => Arrived(f) \/ (Waits(f) /\ Ready(f) /\ ~Unmarked(f))
  /\ rounds = 2 => Unmarked(f)
  /\ rounds = 1 => (f \in Ranged => Split(f)) /\ (registered \/ Unmarked(f))
Manual0(f) == Live(f) => member[Automatic(f)] = 0
RangeStage(f, k, v) ==
  /\ k = "manual" => Manual0(f) /\ (Sound(f) => WaitsRange(f))
  /\ k \in {"valued", "forced"} => Manual0(f) /\ (Sound(f) => CarriedRange(f))
  /\ k \in {"zero", "low"} =>
       Manual0(f) /\ (Live(f) => member[Value(f)] = v) /\ (Sound(f) => CarriedRange(f))
  /\ k = "high" =>
       /\ Live(f) => /\ member[Value(f)] = v /\ member[Low(f)] = v
                     /\ member[Automatic(f)] = 0 \/ v # member[High(f)]
       /\ Sound(f) => CarriedRange(f) /\ Saved(Low(f))
  /\ k = "widen" => (Live(f) => member[Automatic(f)] = 1) /\ (Sound(f) => CarriedRange(f))
  /\ k = "wide" =>
       /\ Live(f) => member[Low(f)] = Lo /\ (member[Automatic(f)] = 1 \/ member[High(f)] = Lo)
       /\ Sound(f) => CarriedRange(f) /\ Saved(Low(f))
  /\ k \in {"even", "plain", "marked", "settle", "sole", "value", "multi"} =>
       (Live(f) => Agree(f)) /\ (Sound(f) => CarriedRange(f) /\ SavedRange(f))
  /\ k \in {"plain", "marked"} => (Tidy(f) => Automatic(f) \notin changed /\ Value(f) \notin changed)
  /\ k = "marked" => (Sound(f) => HasRange(f))
  /\ k \in {"settle", "sole", "value", "multi"} => (Tidy(f) => Unmarked(f))
  /\ k \in {"sole", "value"} /\ White0(f) => member[Low(f)] = v /\ member[High(f)] = v
  /\ k = "multi" /\ White0(f) => member[Low(f)] # member[High(f)]
  /\ k = "value" => (White0(f) => member[Automatic(f)] = 0) /\ (Sound(f) => Saved(Automatic(f)))
WhiteStage(k) ==
  /\ k \in {"white", "balance", "warm", "warmed", "fixed"} /\ Sound("wb") => WaitsWhite
  /\ k = "white" /\ Sound("wb") => camera[White] = member[White] /\ (Warm \/ member[White] = 0)
  /\ k = "balance" /\ Sound("wb") => Warm \/ member[White] = 0
  /\ k = "warmed" /\ Sound("wb") => Warm /\ camera[White] = 0
  /\ k \in {"balance", "warm", "warmed", "fixed"} /\ White0("wb") => White \notin changed
  /\ k \in {"warm", "warmed", "fixed"} /\ White0("wb") => member[White] = 0
  /\ k = "fixed" /\ White0("wb") => Temperature \notin changed

\* A family that is not there.
Still(g) ==
  \A p \in Family(g) : p \notin changed /\ Saved(p) /\ (p \in Dials => camera[p] = member[p])

\* Whether there will be another round.
Counted(more) ==
  /\ \A f \in Families : Sound(f) /\ ~Unmarked(f) => more
  /\ rounds = 1 /\ more => registered
  /\ rounds = 2 => ~more

\* What a stage says.
Means(f, x) ==
  IF f = "sensors" THEN /\ x[1] = "idle" => Counted(due)
                        /\ x[1] = "counted" => Counted(x[2] = 1)
  ELSE IF f \in Ranged \ one.ranged THEN x = At0("idle") /\ Still(f)
  ELSE /\ x[1] = "idle" => Idle1(f)
       /\ x[1] = "ready" => (Live(f) => Ready(f)) /\ (Sound(f) => Waits(f))
       /\ f \in ImageFamilies /\ x[1] = "sent" /\ Sound(f) =>
            Waits(f) /\ camera[Picture(f)] = member[Picture(f)]
       /\ f \in Ranged => RangeStage(f, x[1], x[2])
       /\ f = "wb" => WhiteStage(x[1])

\* A step of the family leads from x to y.
RangeTurn(op, p, w, x, y) ==
  \/ op = "mode" /\ x = At0("ready") /\ y = At0("even")
  \/ op = "unmark" /\ p = "auto" /\ x = At0("even") /\ y = At0("plain")
  \/ op = "range" /\ p = "min" /\ x = At0("plain") /\ y = At0("idle")
  \/ op = "send" /\ p = "value" /\ x = At0("manual") /\ y = At0("forced")
  \/ op = "clear" /\ p = "value" /\ x = At0("valued") /\ y = At0("forced")
  \/ op = "force" /\ p = "value" /\ x = At0("forced") /\ y = At0("even")
  \/ op = "set" /\ p = "auto" /\ w = 0 /\ x[1] = "zero" /\ y = <<"low", x[2]>>
  \/ op = "set" /\ p = "min" /\ x = <<"low", w>> /\ y = <<"high", w>>
  \/ op = "set" /\ p = "max" /\ x = <<"high", w>> /\ y = At0("even")
  \/ op = "set" /\ p = "min" /\ w = Lo /\ x = At0("widen") /\ y = At0("wide")
  \/ op = "set" /\ p = "max" /\ w = Hi /\ x = At0("wide") /\ y = At0("even")
  \/ op = "clear" /\ p = "min" /\ x = At0("marked") /\ y = At0("settle")
  \/ op = "settle" /\ x = At0("settle") /\ y = At0("idle")
  \/ op = "set" /\ p = "auto" /\ w = 0 /\ x[1] = "sole" /\ y = <<"value", x[2]>>
  \/ op = "set" /\ p = "value" /\ x = <<"value", w>> /\ y = At0("idle")
  \/ op = "set" /\ p = "auto" /\ w = 1 /\ x = At0("multi") /\ y = At0("idle")
WhiteTurn(op, p, w, x, y) ==
  \/ op = "send" /\ p = White /\ x = At0("ready") /\ y = At0("balance")
  \/ op = "clear" /\ p = White /\ x = At0("white") /\ y = At0("balance")
  \/ op = "balance" /\ x = At0("balance") /\ y = At0("idle")
  \/ op = "send" /\ p = Temperature /\ x = At0("warm") /\ y = At0("fixed")
  \/ op = "clear" /\ p = Temperature /\ x = At0("warmed") /\ y = At0("fixed")
  \/ op = "set" /\ p = White /\ w = 0 /\ x = At0("fixed") /\ y = At0("idle")
ImageTurn(op, x, y) ==
  \/ op = "send" /\ x = At0("ready") /\ y = At0("idle")
  \/ op = "clear" /\ x = At0("sent") /\ y = At0("idle")
CountTurn(op, w, x, y) ==
  \/ op = "count" /\ x = At0("open") /\ y = At0("idle")
  \/ op = "rearm" /\ x = <<"counted", w>> /\ y = At0("idle")

\* Every other step leaves the family where it is; what is left when the
\* marks are counted is nothing else.
Concerns(e, f) == FamilyOf(e.at) = f
Turn(e, f, x, y) ==
  IF Concerns(e, f)
    THEN \/ f \in Ranged /\ RangeTurn(e.op, e.at[2], e.v, x, y)
         \/ f = "wb" /\ WhiteTurn(e.op, e.at, e.v, x, y)
         \/ f \in ImageFamilies /\ ImageTurn(e.op, x, y)
         \/ f = "sensors" /\ CountTurn(e.op, e.v, x, y)
    ELSE x = y /\ (f = "sensors" => x = At0("open"))

StepOps == {"send", "clear", "balance", "mode", "force", "unmark", "range", "settle", "set", "count", "rearm"}
StepSet == {e \in [op : StepOps, at : OneParams, v : Int] : e.op = "set" => e.v \in Domain(e.at)}
Path(s, f, h) ==
  /\ h \in [0..Len(s) -> Stages]
  /\ \A j \in 1..Len(s) : Turn(s[j], f, h[j - 1], h[j])
  /\ \A i \in 0..Len(s) : (\A j \in (i + 1)..Len(s) : ~Concerns(s[j], f)) => h[i] = h[Len(s)]
Leads(s, f, x, y) == s \in Seq(StepSet) /\ \E h : Path(s, f, h) /\ h[0] = x /\ h[Len(s)] = y

\* The invariant.
Holds(f) == \E x \in Stages : Means(f, x) /\ Leads(steps, f, x, At0("idle"))
Others ==
  /\ PubRate \notin disturbed => Saved(PubRate)
  /\ ~registered => \A g \in Ranged : member[Low(g)] = Lo /\ member[High(g)] = Hi
  /\ rounds = 2 => registered
OneTyped ==
  /\ one \in OneLaunches /\ rounds \in 0..2
  /\ member \in [OneParams -> Int] /\ stored \in [OneParams -> Int] /\ camera \in [Dials -> Int]
  /\ OneSettingsTypeOK
OneInd == OneTyped /\ Others /\ \A f \in Families \cup {"sensors"} : Holds(f)

LEMMA ParamsAre ==
  /\ Ranged = {"exposure", "analog", "digital"} /\ "wb" \notin Ranged
  /\ \A g \in Ranged : /\ g \notin ImageFamilies /\ g # "sensors"
                       /\ Family(g) = {Automatic(g), Value(g), Low(g), High(g)}
                       /\ {Automatic(g), Value(g), Low(g), High(g)} \subseteq Flagged
                       /\ Low(g) \in Dials /\ High(g) \in Dials
                       /\ Automatic(g) \notin Dials /\ Value(g) \notin Dials
  /\ Family("wb") = {White, Temperature} /\ {White, Temperature} \subseteq Dials
  /\ \A f \in ImageFamilies : Family(f) = {Picture(f)} /\ Picture(f) \in Dials
  /\ "wb" \notin ImageFamilies /\ "sensors" \notin ImageFamilies
  /\ Family("sensors") = {PubRate} /\ PubRate \notin Flagged
  /\ Flagged \subseteq OneParams /\ PubRate \in OneParams /\ Dials \subseteq Flagged
  /\ \A p \in OneParams : FamilyOf(p) \in Ranged \cup ImageFamilies \cup {"wb", "sensors"}
  /\ \A p \in OneParams : Mates(p) = Family(FamilyOf(p))
<1> USE DEF OneParams, Flagged, Images, Temperature, PubRate, Ranged, Automatic, Value, Low, High,
            ImageFamilies, FamilyOf, Dials, White, Picture
<1>1. OneParams = {<<"image", "saturation">>, <<"image", "compensation">>, <<"image", "denoising">>,
                   <<"wb", "auto">>, <<"wb", "temperature">>, <<"sensors", "rate">>}
                  \cup ({"exposure", "analog", "digital"} \X {"auto", "value", "min", "max"})
  OBVIOUS
<1>2. ASSUME NEW g \in Ranged
      PROVE /\ g \notin ImageFamilies /\ g # "sensors"
            /\ Family(g) = {Automatic(g), Value(g), Low(g), High(g)}
            /\ {Automatic(g), Value(g), Low(g), High(g)} \subseteq Flagged
            /\ Low(g) \in Dials /\ High(g) \in Dials
            /\ Automatic(g) \notin Dials /\ Value(g) \notin Dials
  <2>1. \A p \in OneParams : FamilyOf(p) = g => p \in {Automatic(g), Value(g), Low(g), High(g)}
    BY <1>1
  <2>2. \A p \in {Automatic(g), Value(g), Low(g), High(g)} : p \in OneParams /\ FamilyOf(p) = g
    OBVIOUS
  <2>3. Family(g) = {Automatic(g), Value(g), Low(g), High(g)}
    <3> HIDE DEF OneParams, FamilyOf, Automatic, Value, Low, High
    <3>1. QED  BY <2>1, <2>2 DEF Family
  <2>4. QED  BY <2>3
<1>3. Family("wb") = {White, Temperature} /\ {White, Temperature} \subseteq Dials
  BY <1>1 DEF Family
<1>4. ASSUME NEW f \in ImageFamilies PROVE Family(f) = {Picture(f)} /\ Picture(f) \in Dials
  BY <1>1 DEF Family
<1>5. Family("sensors") = {PubRate} /\ PubRate \notin Flagged
  BY <1>1 DEF Family
<1>6. ASSUME NEW p \in OneParams
      PROVE  FamilyOf(p) \in Ranged \cup ImageFamilies \cup {"wb", "sensors"} /\ Mates(p) = Family(FamilyOf(p))
  <2>1. FamilyOf(p) \in Ranged \cup ImageFamilies \cup {"wb", "sensors"}
    BY <1>1
  <2>2. CASE p[1] = "image"
    <3>1. p = Picture(p[2]) /\ p[2] \in ImageFamilies /\ FamilyOf(p) = p[2]
      BY <1>1, <2>2
    <3>2. Family(p[2]) = {p}
      BY <1>4, <3>1
    <3>3. QED  BY <2>1, <2>2, <3>1, <3>2 DEF Mates
  <2>3. CASE p[1] # "image"
    <3>1. \A q \in OneParams : q[1] = p[1] <=> FamilyOf(q) = FamilyOf(p)
      BY <1>1, <2>3
    <3>2. QED  BY <2>1, <2>3, <3>1 DEF Mates, Family
  <2>4. QED  BY <2>2, <2>3
<1>7. QED  BY <1>2, <1>3, <1>4, <1>5, <1>6

\* What one keeps of the sequences of steps.
LEMMA PushFacts ==
  ASSUME NEW T, NEW a \in Seq(T), NEW b \in Seq(T)
  PROVE  /\ a \o b \in Seq(T) /\ Len(a \o b) = Len(a) + Len(b)
         /\ Len(a) \in Nat /\ Len(b) \in Nat
         /\ \A j \in 1..(Len(a) + Len(b)) :
              (a \o b)[j] = IF j <= Len(a) THEN a[j] ELSE b[j - Len(a)]
  OBVIOUS

LEMMA LeadsNone ==
  ASSUME NEW f, NEW x \in Stages
  PROVE  Leads(<<>>, f, x, x)
<1> DEFINE h == [j \in 0..0 |-> x]
<1>1. <<>> \in Seq(StepSet) /\ Len(<<>>) = 0 /\ h[0] = x /\ h \in [0..Len(<<>>) -> Stages]
  OBVIOUS
<1> HIDE DEF h
<1>2. Path(<<>>, f, h)
  BY <1>1 DEF Path
<1>3. QED  BY <1>1, <1>2 DEF Leads

LEMMA LeadsRun ==
  ASSUME NEW f, NEW op \in StepOps, NEW p \in OneParams, NEW v \in Int, op = "set" => v \in Domain(p),
         NEW x \in Stages, NEW y \in Stages, Turn([op |-> op, at |-> p, v |-> v], f, x, y)
  PROVE  Leads(Run(op, p, v), f, x, y)
<1> DEFINE h == [j \in 0..1 |-> IF j = 0 THEN x ELSE y]
<1>1. PICK e : e = [op |-> op, at |-> p, v |-> v]
  OBVIOUS
<1>2. e \in StepSet
  BY <1>1 DEF StepSet
<1>3. PICK s : s = Run(op, p, v)
  OBVIOUS
<1>4. s \in Seq(StepSet) /\ Len(s) = 1 /\ s[1] = e
  BY <1>1, <1>2, <1>3 DEF Run
<1>5. h[0] = x /\ h[1] = y /\ h \in [0..Len(s) -> Stages]
  BY <1>4
<1> HIDE DEF h
<1>6. ASSUME NEW i \in 0..Len(s), \A j \in (i + 1)..Len(s) : ~Concerns(s[j], f) PROVE h[i] = h[Len(s)]
  <2>1. CASE i = 0
    <3>1. ~Concerns(e, f)
      BY <1>4, <1>6, <2>1
    <3>2. x = y
      BY <1>1, <3>1 DEF Turn
    <3>3. QED  BY <1>4, <1>5, <2>1, <3>2
  <2>2. QED  BY <1>4, <2>1
<1>7. Path(s, f, h)
  BY <1>1, <1>4, <1>5, <1>6 DEF Path
<1>8. QED  BY <1>3, <1>4, <1>5, <1>7 DEF Leads

LEMMA LeadsPush ==
  ASSUME NEW f, NEW a, NEW b, NEW x, NEW y, NEW z, Leads(a, f, x, y), Leads(b, f, y, z)
  PROVE  Leads(a \o b, f, x, z)
<1>1. PICK k : Path(a, f, k) /\ k[0] = x /\ k[Len(a)] = y
  BY DEF Leads
<1>2. PICK l : Path(b, f, l) /\ l[0] = y /\ l[Len(b)] = z
  BY DEF Leads
<1>3. PICK s : s = a \o b
  OBVIOUS
<1>4. PICK m, n : m = Len(a) /\ n = Len(b)
  OBVIOUS
<1>5. /\ s \in Seq(StepSet) /\ Len(s) = m + n /\ m \in Nat /\ n \in Nat
      /\ \A j \in 1..(m + n) : s[j] = IF j <= m THEN a[j] ELSE b[j - m]
  BY <1>3, <1>4, PushFacts DEF Leads
<1> DEFINE h == [j \in 0..Len(s) |-> IF j <= m THEN k[j] ELSE l[j - m]]
<1>6. /\ k \in [0..m -> Stages] /\ l \in [0..n -> Stages]
      /\ \A j \in 1..m : Turn(a[j], f, k[j - 1], k[j])
      /\ \A j \in 1..n : Turn(b[j], f, l[j - 1], l[j])
      /\ \A i \in 0..m : (\A j \in (i + 1)..m : ~Concerns(a[j], f)) => k[i] = y
      /\ \A i \in 0..n : (\A j \in (i + 1)..n : ~Concerns(b[j], f)) => l[i] = z
  BY <1>1, <1>2, <1>4 DEF Path
<1>7. /\ h \in [0..Len(s) -> Stages]
      /\ \A j \in 0..m : h[j] = k[j]
      /\ \A j \in 0..n : h[m + j] = l[j]
  <2>1. h \in [0..Len(s) -> Stages]
    BY <1>5, <1>6
  <2>2. \A j \in 0..m : h[j] = k[j]
    BY <1>5
  <2>3. ASSUME NEW j \in 0..n PROVE h[m + j] = l[j]
    <3>1. CASE j = 0
      BY <1>1, <1>2, <1>4, <1>5, <3>1
    <3>2. CASE j > 0
      BY <1>5, <3>2
    <3>3. QED  BY <3>1, <3>2
  <2>4. QED  BY <2>1, <2>2, <2>3
<1> HIDE DEF h
<1>8. ASSUME NEW j \in 1..Len(s) PROVE Turn(s[j], f, h[j - 1], h[j])
  <2>1. CASE j <= m
    <3>1. j \in 1..m /\ s[j] = a[j] /\ j - 1 \in 0..m /\ j \in 0..m
      BY <1>5, <2>1
    <3>2. h[j - 1] = k[j - 1] /\ h[j] = k[j]
      BY <1>7, <3>1
    <3>3. QED  BY <1>6, <3>1, <3>2
  <2>2. CASE j > m
    <3>1. PICK i : i = j - m
      OBVIOUS
    <3>2. i \in 1..n /\ s[j] = b[i] /\ i - 1 \in 0..n /\ j = m + i /\ j - 1 = m + (i - 1)
      <4>1. m \in Nat /\ n \in Nat /\ j \in 1..(m + n)
        BY <1>5
      <4>2. i \in 1..n /\ i - 1 \in 0..n /\ j = m + i /\ j - 1 = m + (i - 1)
        BY <2>2, <3>1, <4>1
      <4>3. s[j] = b[j - m]
        BY <1>5, <2>2, <4>1
      <4>4. QED  BY <3>1, <4>2, <4>3
    <3>3. h[j - 1] = l[i - 1] /\ h[j] = l[i]
      BY <1>7, <3>2
    <3>4. QED  BY <1>6, <3>2, <3>3
  <2>3. QED  BY <1>5, <2>1, <2>2
<1>9. h[0] = x /\ h[Len(s)] = z
  BY <1>1, <1>2, <1>4, <1>5, <1>7
<1>10. ASSUME NEW i \in 0..Len(s), \A j \in (i + 1)..Len(s) : ~Concerns(s[j], f) PROVE h[i] = h[Len(s)]
  <2>1. CASE i >= m
    <3>1. PICK u : u = i - m
      OBVIOUS
    <3>2. u \in 0..n /\ i = m + u
      BY <1>5, <2>1, <3>1
    <3>3. ASSUME NEW j \in (u + 1)..n PROVE ~Concerns(b[j], f)
      <4>1. m + j \in (i + 1)..Len(s) /\ s[m + j] = b[j]
        BY <1>5, <3>2
      <4>2. QED  BY <1>10, <4>1
    <3>4. l[u] = z
      BY <1>6, <3>2, <3>3
    <3>5. QED  BY <1>7, <1>9, <3>2, <3>4
  <2>2. CASE i < m
    <3>1. ASSUME NEW j \in (i + 1)..m PROVE ~Concerns(a[j], f)
      <4>1. j \in (i + 1)..Len(s) /\ s[j] = a[j]
        BY <1>5
      <4>2. QED  BY <1>10, <4>1
    <3>2. ASSUME NEW j \in 1..n PROVE ~Concerns(b[j], f)
      <4>1. m + j \in (i + 1)..Len(s) /\ s[m + j] = b[j]
        BY <1>5, <2>2
      <4>2. QED  BY <1>10, <4>1
    <3>3. k[i] = y /\ i \in 0..m
      BY <1>5, <1>6, <2>2, <3>1
    <3>4. l[0] = z
      BY <1>5, <1>6, <3>2
    <3>5. QED  BY <1>2, <1>7, <1>9, <3>3, <3>4
  <2>3. QED  BY <1>5, <2>1, <2>2
<1>11. Path(s, f, h)
  BY <1>7, <1>8, <1>10 DEF Path
<1>12. QED  BY <1>3, <1>5, <1>9, <1>11 DEF Leads

\* The first step is done.
LEMMA LeadsOn ==
  ASSUME NEW f, NEW s, NEW x, NEW z, Leads(s, f, x, z), s # <<>>
  PROVE  /\ Head(s) \in StepSet /\ Tail(s) \in Seq(StepSet) /\ x \in Stages
         /\ \E y \in Stages : Turn(Head(s), f, x, y) /\ Leads(Tail(s), f, y, z)
<1>1. s \in Seq(StepSet) /\ Len(s) \in Nat /\ Len(s) > 0
  BY DEF Leads
<1>2. PICK h : Path(s, f, h) /\ h[0] = x /\ h[Len(s)] = z
  BY DEF Leads
<1>3. PICK r, l : r = Tail(s) /\ l = Len(s)
  OBVIOUS
<1>4. /\ r \in Seq(StepSet) /\ Len(r) = l - 1 /\ l \in Nat /\ l > 0 /\ l - 1 \in Nat
      /\ Head(s) = s[1] /\ s[1] \in StepSet /\ \A j \in 1..(l - 1) : r[j] = s[j + 1]
  BY <1>1, <1>3
<1>5. /\ h \in [0..l -> Stages] /\ \A j \in 1..l : Turn(s[j], f, h[j - 1], h[j])
      /\ \A i \in 0..l : (\A j \in (i + 1)..l : ~Concerns(s[j], f)) => h[i] = h[l]
  BY <1>2, <1>3 DEF Path
<1> DEFINE k == [j \in 0..(l - 1) |-> h[j + 1]]
<1>6. k \in [0..Len(r) -> Stages] /\ k[0] = h[1] /\ k[Len(r)] = z /\ \A j \in 0..(l - 1) : k[j] = h[j + 1]
  BY <1>2, <1>3, <1>4, <1>5
<1> HIDE DEF k
<1>7. ASSUME NEW j \in 1..Len(r) PROVE Turn(r[j], f, k[j - 1], k[j])
  <2>1. j + 1 \in 1..l /\ j - 1 \in 0..(l - 1) /\ j \in 0..(l - 1) /\ (j - 1) + 1 = j /\ (j + 1) - 1 = j
    BY <1>4
  <2>2. r[j] = s[j + 1] /\ k[j - 1] = h[j] /\ k[j] = h[j + 1]
    BY <1>4, <1>6, <2>1
  <2>3. QED  BY <1>5, <2>1, <2>2
<1>8. ASSUME NEW i \in 0..Len(r), \A j \in (i + 1)..Len(r) : ~Concerns(r[j], f) PROVE k[i] = k[Len(r)]
  <2>1. ASSUME NEW j \in ((i + 1) + 1)..l PROVE ~Concerns(s[j], f)
    <3>1. j - 1 \in (i + 1)..Len(r) /\ r[j - 1] = s[j]
      BY <1>4
    <3>2. QED  BY <1>8, <3>1
  <2>2. i + 1 \in 0..l /\ i \in 0..(l - 1)
    BY <1>4
  <2>3. h[i + 1] = h[l]
    BY <1>5, <2>1, <2>2
  <2>4. QED  BY <1>2, <1>3, <1>6, <2>2, <2>3
<1>9. Path(r, f, k)
  BY <1>6, <1>7, <1>8 DEF Path
<1>10. Leads(r, f, h[1], z)
  BY <1>4, <1>6, <1>9 DEF Leads
<1>11. Turn(s[1], f, x, h[1]) /\ h[1] \in Stages /\ x \in Stages
  BY <1>2, <1>4, <1>5
<1>12. QED  BY <1>3, <1>4, <1>10, <1>11

\* None of the steps is at the family.
LEMMA LeadsPast ==
  ASSUME NEW f, NEW s, NEW x, NEW z, Leads(s, f, x, z), \A j \in DOMAIN s : ~Concerns(s[j], f)
  PROVE  x = z /\ (f = "sensors" /\ z # At0("open") => s = <<>>)
<1>1. s \in Seq(StepSet) /\ DOMAIN s = 1..Len(s) /\ Len(s) \in Nat
  BY DEF Leads
<1>2. PICK h : Path(s, f, h) /\ h[0] = x /\ h[Len(s)] = z
  BY DEF Leads
<1>3. h[0] = h[Len(s)]
  <2>1. \A j \in (0 + 1)..Len(s) : ~Concerns(s[j], f)
    BY <1>1
  <2>2. 0 \in 0..Len(s)
    BY <1>1
  <2>3. QED  BY <1>2, <2>1, <2>2 DEF Path
<1>4. ASSUME f = "sensors", s # <<>> PROVE z = At0("open")
  <2>1. Len(s) \in 1..Len(s)
    BY <1>1, <1>4
  <2>2. Turn(s[Len(s)], f, h[Len(s) - 1], h[Len(s)]) /\ ~Concerns(s[Len(s)], f)
    BY <1>1, <1>2, <2>1 DEF Path
  <2>3. QED  BY <1>2, <1>4, <2>2 DEF Turn
<1>5. QED  BY <1>2, <1>3, <1>4


-----------------------------------------------------------------------------
(* What a step leaves alone.                                               *)

\* The family is as it was, or nobody has to know.
Same(f) ==
  /\ \A p \in Family(f) : /\ member'[p] = member[p] /\ stored'[p] = stored[p]
                          /\ p \in changed' <=> p \in changed
                          /\ p \in Dials => camera'[p] = camera[p]
  /\ one' = one /\ (Sound(f)' => Sound(f))
  /\ (rounds' = rounds /\ (registered => registered')) \/ rounds' = 0

LEMMA InFamily ==
  ASSUME NEW f \in Families
  PROVE  /\ f # "sensors" /\ (f \in Ranged \/ f = "wb" \/ f \in ImageFamilies)
         /\ f \in Ranged => /\ f \notin ImageFamilies /\ f # "wb"
                            /\ {Automatic(f), Value(f), Low(f), High(f)} = Family(f)
                            /\ Low(f) \in Dials /\ High(f) \in Dials
         /\ f = "wb" => f \notin ImageFamilies /\ f \notin Ranged
         /\ f \in ImageFamilies => f \notin Ranged /\ f # "wb" /\ Family(f) = {Picture(f)} /\ Picture(f) \in Dials
         /\ Family("wb") = {White, Temperature} /\ White \in Dials /\ Temperature \in Dials
  BY ParamsAre DEF Families

LEMMA SameStage ==
  ASSUME NEW f \in Families, Same(f), NEW x, Means(f, x)
  PROVE  Means(f, x)'
<1>1. /\ Sound(f)' => Sound(f)
      /\ Live(f)' => Live(f)
      /\ Tidy(f)' => Tidy(f)
      /\ White0(f)' => White0(f)
  BY DEF Same, Live, Tidy, White0
<1>2. rounds' = 0 \/ (rounds' = rounds /\ (registered => registered'))
  BY DEF Same
<1>8. one' = one
  BY DEF Same
<1>3. Unmarked(f)' <=> Unmarked(f)
  BY DEF Same, Unmarked
<1>9. CASE f \in Ranged \ one.ranged
  <2>1. f # "sensors" /\ x = At0("idle") /\ Still(f)
    BY <1>9, InFamily DEF Means
  <2>2. Still(f)'
    BY <2>1 DEF Same, Still, Saved
  <2>3. QED  BY <1>8, <1>9, <2>1, <2>2 DEF Means
<1>4. CASE f \in Ranged /\ f \in one.ranged
  <2>1. {Automatic(f), Value(f), Low(f), High(f)} = Family(f) /\ Low(f) \in Dials /\ High(f) \in Dials
        /\ f # "sensors" /\ f # "wb" /\ f \notin ImageFamilies
    BY <1>4, InFamily
  <2>2. PICK a, v, l, h : a = Automatic(f) /\ v = Value(f) /\ l = Low(f) /\ h = High(f)
    OBVIOUS
  <2>3. /\ member'[a] = member[a] /\ member'[v] = member[v] /\ member'[l] = member[l] /\ member'[h] = member[h]
        /\ stored'[a] = stored[a] /\ stored'[v] = stored[v] /\ stored'[l] = stored[l] /\ stored'[h] = stored[h]
        /\ a \in changed' <=> a \in changed
        /\ v \in changed' <=> v \in changed
        /\ l \in changed' <=> l \in changed
        /\ h \in changed' <=> h \in changed
        /\ camera'[l] = camera[l] /\ camera'[h] = camera[h]
    BY <2>1, <2>2 DEF Same
  <2>4. /\ CarriedRange(f)' <=> CarriedRange(f)
        /\ WaitsRange(f)' <=> WaitsRange(f)
        /\ SavedRange(f)' <=> SavedRange(f)
        /\ Saved(a)' <=> Saved(a)
        /\ Saved(l)' <=> Saved(l)
        /\ Saved(v)' <=> Saved(v)
        /\ HasRange(f)' <=> HasRange(f)
        /\ Split(f)' <=> Split(f)
        /\ Agree(f)' <=> Agree(f)
    BY <2>2, <2>3 DEF CarriedRange, Carried, WaitsRange, SavedRange, Saved, HasRange, Split, Agree
  <2>5. (Ready(f)' <=> Ready(f)) /\ (Waits(f)' <=> Waits(f)) /\ (Arrived(f)' <=> Arrived(f))
    BY <1>3, <1>4, <2>1, <2>2, <2>3, <2>4 DEF Ready, Waits, Arrived
  <2>6. x[1] = "idle" => Idle1(f)'
    BY <1>1, <1>2, <1>3, <1>4, <2>1, <2>4, <2>5 DEF Means, Idle1
  <2>7. RangeStage(f, x[1], x[2])'
    <3>1. RangeStage(f, x[1], x[2])
      BY <1>4, <2>1 DEF Means
    <3>2. Manual0(f) => Manual0(f)'
      BY <1>1, <2>2, <2>3 DEF Manual0
    <3>3. QED  BY <1>1, <1>3, <2>2, <2>3, <2>4, <3>1, <3>2 DEF RangeStage
  <2>8. x[1] = "ready" => (Live(f)' => Ready(f)') /\ (Sound(f)' => Waits(f)')
    BY <1>1, <1>4, <2>1, <2>5 DEF Means
  <2>9. QED  BY <1>4, <1>8, <2>1, <2>6, <2>7, <2>8 DEF Means
<1>5. CASE f = "wb"
  <2>1. White \in Family(f) /\ Temperature \in Family(f) /\ White \in Dials /\ Temperature \in Dials
        /\ f # "sensors" /\ f \notin Ranged /\ f \notin ImageFamilies
    BY <1>5, InFamily
  <2>2. PICK w, t : w = White /\ t = Temperature
    OBVIOUS
  <2>3. /\ member'[w] = member[w] /\ member'[t] = member[t]
        /\ stored'[w] = stored[w] /\ stored'[t] = stored[t]
        /\ w \in changed' <=> w \in changed
        /\ t \in changed' <=> t \in changed
        /\ camera'[w] = camera[w] /\ camera'[t] = camera[t]
    BY <2>1, <2>2 DEF Same
  <2>4. (Warm' <=> Warm) /\ (WaitsWhite' <=> WaitsWhite) /\ (Saved(w)' <=> Saved(w))
    BY <2>2, <2>3 DEF Warm, WaitsWhite, Carried, Saved
  <2>5. (Ready(f)' <=> Ready(f)) /\ (Waits(f)' <=> Waits(f)) /\ (Arrived(f)' <=> Arrived(f))
    BY <1>3, <1>5, <2>1, <2>2, <2>4 DEF Ready, Waits, Arrived
  <2>6. x[1] = "idle" => Idle1(f)'
    BY <1>1, <1>2, <1>3, <2>1, <2>5 DEF Means, Idle1
  <2>7. WhiteStage(x[1])'
    <3>1. WhiteStage(x[1])
      BY <1>5, <2>1 DEF Means
    <3>2. QED  BY <1>1, <1>5, <2>2, <2>3, <2>4, <3>1 DEF WhiteStage
  <2>8. x[1] = "ready" => (Live(f)' => Ready(f)') /\ (Sound(f)' => Waits(f)')
    BY <1>1, <2>1, <2>5 DEF Means
  <2>9. QED  BY <1>8, <1>5, <2>1, <2>6, <2>7, <2>8 DEF Means
<1>6. CASE f \in ImageFamilies
  <2>1. Picture(f) \in Family(f) /\ Picture(f) \in Dials /\ f # "sensors" /\ f \notin Ranged /\ f # "wb"
    BY <1>6, InFamily
  <2>2. PICK p : p = Picture(f)
    OBVIOUS
  <2>3. /\ member'[p] = member[p] /\ stored'[p] = stored[p] /\ camera'[p] = camera[p]
        /\ p \in changed' <=> p \in changed
    BY <2>1, <2>2 DEF Same
  <2>4. (Carried(p)' <=> Carried(p)) /\ (Saved(p)' <=> Saved(p))
    BY <2>3 DEF Carried, Saved
  <2>5. (Ready(f)' <=> Ready(f)) /\ (Waits(f)' <=> Waits(f)) /\ (Arrived(f)' <=> Arrived(f))
    BY <1>3, <1>6, <2>1, <2>2, <2>4 DEF Ready, Waits, Arrived
  <2>6. x[1] = "idle" => Idle1(f)'
    BY <1>1, <1>2, <1>3, <2>1, <2>5 DEF Means, Idle1
  <2>7. x[1] = "ready" => (Live(f)' => Ready(f)') /\ (Sound(f)' => Waits(f)')
    BY <1>1, <2>1, <2>5 DEF Means
  <2>8. x[1] = "sent" /\ Sound(f)' => Waits(f)' /\ camera'[Picture(f)] = member'[Picture(f)]
    BY <1>1, <1>6, <2>1, <2>2, <2>3, <2>5 DEF Means
  <2>9. QED  BY <1>8, <2>1, <2>6, <2>7, <2>8 DEF Means
<1>7. QED  BY <1>4, <1>5, <1>6, <1>9, InFamily

\* Steps at one family lead every other nowhere.
Within(s, g) ==
  \A f : \A x \in Stages : f # g /\ (f = "sensors" => x = At0("open")) => Leads(s, f, x, x)

LEMMA WithinNone == ASSUME NEW g PROVE Within(<<>>, g)
  BY LeadsNone DEF Within

LEMMA WithinRun ==
  ASSUME NEW op \in StepOps, NEW p \in OneParams, NEW v \in Int, op = "set" => v \in Domain(p)
  PROVE  Within(Run(op, p, v), FamilyOf(p))
<1> SUFFICES ASSUME NEW f, NEW x \in Stages, f # FamilyOf(p), f = "sensors" => x = At0("open")
             PROVE  Leads(Run(op, p, v), f, x, x)
  BY DEF Within
<1>1. PICK e : e = [op |-> op, at |-> p, v |-> v]
  OBVIOUS
<1>2. Turn(e, f, x, x)
  BY <1>1 DEF Turn, Concerns
<1>3. QED  BY <1>1, <1>2, LeadsRun

LEMMA WithinPush == ASSUME NEW g, NEW a, NEW b, Within(a, g), Within(b, g) PROVE Within(a \o b, g)
  BY LeadsPush DEF Within

\* Steps that bring a family from a stage to another.
Brings(s, g, x, y) == Leads(s, g, x, y) /\ Within(s, g)

LEMMA BringsNone == ASSUME NEW g, NEW x \in Stages PROVE Brings(<<>>, g, x, x)
  BY LeadsNone, WithinNone DEF Brings

LEMMA BringsPush ==
  ASSUME NEW g, NEW a, NEW b, NEW x, NEW y, NEW z, Brings(a, g, x, y), Brings(b, g, y, z)
  PROVE  Brings(a \o b, g, x, z)
  BY LeadsPush, WithinPush DEF Brings

LEMMA StagesAre ==
  LET Named == {"idle", "ready", "manual", "valued", "forced", "zero", "low", "high", "widen", "wide",
                "even", "plain", "marked", "settle", "sole", "value", "multi", "balance", "white",
                "warm", "warmed", "fixed", "sent", "open", "counted"}
  IN  /\ \A k \in Named, v \in Int : <<k, v>> \in Stages
      /\ \A k \in Named : At0(k) \in Stages
  BY DEF Stages, At0

\* A step at a family that leaves the others as they were.
LEMMA FamilyStep ==
  ASSUME OneInd, steps # <<>>, NEW next, steps' = next \o Tail(steps), one' = one,
         NEW g \in Families, g = FamilyOf(P), Within(next, g), \A f \in Families \ {g} : Same(f),
         \A x, y \in Stages : Turn(Head(steps), g, x, y) /\ Means(g, x) =>
                                \E w \in Stages : Means(g, w)' /\ Leads(next, g, w, y)
  PROVE  \A f \in Families \cup {"sensors"} : Holds(f)'
<1> SUFFICES ASSUME NEW f \in Families \cup {"sensors"} PROVE Holds(f)'
  OBVIOUS
<1>1. PICK x \in Stages : Means(f, x) /\ Leads(steps, f, x, At0("idle"))
  BY DEF OneInd, Holds
<1>2. PICK e, r, z : e = Head(steps) /\ r = Tail(steps) /\ z = At0("idle")
  OBVIOUS
<1>3. PICK y \in Stages : Turn(e, f, x, y) /\ Leads(r, f, y, z)
  BY <1>1, <1>2, LeadsOn
<1>4. Concerns(e, f) <=> f = g
  BY <1>2 DEF Concerns, P
<1>5. CASE f = g
  <2>0. Turn(Head(steps), g, x, y) /\ Means(g, x)
    BY <1>1, <1>2, <1>3, <1>5
  <2>1. PICK w \in Stages : Means(g, w)' /\ Leads(next, g, w, y)
    BY <2>0, Zenon
  <2>2. Leads(next \o r, g, w, z)
    BY <1>3, <1>5, <2>1, LeadsPush
  <2>3. QED  BY <1>2, <1>5, <2>1, <2>2 DEF Holds
<1>6. CASE f # g
  <2>1. x = y /\ (f = "sensors" => x = At0("open"))
    BY <1>3, <1>4, <1>6 DEF Turn
  <2>2. Leads(next, f, x, x)
    BY <1>6, <2>1 DEF Within
  <2>3. Leads(next \o r, f, x, z)
    BY <1>3, <2>1, <2>2, LeadsPush
  <2>4. Means(f, x)'
    <3>1. CASE f = "sensors"
      BY <2>1, <3>1 DEF Means, At0
    <3>2. CASE f # "sensors"
      BY <1>1, <1>6, <3>2, SameStage
    <3>3. QED  BY <3>1, <3>2
  <2>5. QED  BY <1>2, <2>3, <2>4 DEF Holds
<1>7. QED  BY <1>5, <1>6

\* The family of the step, and where the grab thread is with it.
LEMMA StepIs ==
  ASSUME OneInd, steps # <<>>
  PROVE  /\ steps \in Seq(StepSet) /\ Head(steps) \in StepSet /\ P \in OneParams
         /\ FamilyOf(P) \in Families \cup {"sensors"}
         /\ \E x, y \in Stages : Turn(Head(steps), FamilyOf(P), x, y) /\ Means(FamilyOf(P), x)
<1>1. PICK x \in Stages : Means("sensors", x) /\ Leads(steps, "sensors", x, At0("idle"))
  BY DEF OneInd, Holds
<1>2. steps \in Seq(StepSet) /\ Head(steps) \in StepSet
  BY <1>1, LeadsOn DEF Leads
<1>3. P \in OneParams
  BY <1>2 DEF P, StepSet
<1>4. FamilyOf(P) \in Families \cup {"sensors"}
  BY <1>3, ParamsAre DEF Families
<1>5. PICK f : f = FamilyOf(P)
  OBVIOUS
<1>6. PICK u \in Stages : Means(f, u) /\ Leads(steps, f, u, At0("idle"))
  BY <1>4, <1>5 DEF OneInd, Holds
<1>7. \E y \in Stages : Turn(Head(steps), f, u, y)
  BY <1>6, LeadsOn
<1>8. QED  BY <1>2, <1>3, <1>4, <1>5, <1>6, <1>7

\* What the step of a family is.
LEMMA StepOf ==
  ASSUME OneInd, steps # <<>>, NEW op, Head(steps).op = op
  PROVE  /\ op \in {"mode", "unmark", "range", "force", "settle"} =>
              FamilyOf(P) \in one.ranged /\ FamilyOf(P) \in Ranged /\ FamilyOf(P) \in Families /\ P[1] = FamilyOf(P)
         /\ op \in {"unmark"} => P = Automatic(FamilyOf(P))
         /\ op \in {"range"} => P = Low(FamilyOf(P))
         /\ op \in {"force"} => P = Value(FamilyOf(P))
         /\ op \in {"send", "clear", "set"} => FamilyOf(P) \in Families
              /\ (FamilyOf(P) \in Ranged => P[1] = FamilyOf(P) /\ FamilyOf(P) \in one.ranged)
         /\ op = "balance" => FamilyOf(P) = "wb"
         /\ op \in {"count", "rearm"} => FamilyOf(P) = "sensors"
<1>1. PICK f : f = FamilyOf(P)
  OBVIOUS
<1>2. PICK x, y \in Stages : Turn(Head(steps), f, x, y) /\ Means(f, x)
  BY <1>1, StepIs
<1>3. PICK e : e = Head(steps) /\ e.op = op /\ e.at = P
  BY DEF P
<1>4. P \in OneParams /\ f \in Families \cup {"sensors"}
  BY <1>1, StepIs
<1>5. Concerns(e, f)
  BY <1>1, <1>3 DEF Concerns
<1>6. \/ f \in Ranged /\ RangeTurn(op, P[2], e.v, x, y)
      \/ f = "wb" /\ WhiteTurn(op, P, e.v, x, y)
      \/ f \in ImageFamilies /\ ImageTurn(op, x, y)
      \/ f = "sensors" /\ CountTurn(op, e.v, x, y)
  BY <1>2, <1>3, <1>5 DEF Turn
<1>7. CASE f \in Ranged
  <2>1. RangeTurn(op, P[2], e.v, x, y) /\ f # "sensors" /\ f # "wb" /\ f \in Families
    BY <1>4, <1>6, <1>7, ParamsAre
  <2>2. f \in one.ranged
    <3>1. x # At0("idle")
      BY <2>1 DEF RangeTurn, At0
    <3>2. QED  BY <1>2, <1>7, <2>1, <3>1 DEF Means
  <2>3. P \in {Automatic(f), Value(f), Low(f), High(f)}
    <3>1. P \in Family(f)
      BY <1>1, <1>4 DEF Family
    <3>2. QED  BY <1>7, <3>1, ParamsAre
  <2>4. P[1] = f /\ (P[2] = "auto" => P = Automatic(f)) /\ (P[2] = "value" => P = Value(f)) /\ (P[2] = "min" => P = Low(f))
    BY <2>3 DEF Automatic, Value, Low, High
  <2>5. op \in {"mode", "unmark", "range", "force", "settle", "send", "clear", "set"}
        /\ (op = "unmark" => P[2] = "auto") /\ (op = "range" => P[2] = "min") /\ (op = "force" => P[2] = "value")
    BY <2>1 DEF RangeTurn
  <2>6. QED  BY <1>1, <1>7, <2>1, <2>2, <2>4, <2>5
<1>8. CASE f = "wb"
  <2>1. op \in {"send", "clear", "balance", "set"}
    BY <1>6, <1>8, ParamsAre DEF WhiteTurn
  <2>2. f \in Families /\ f \notin Ranged
    BY <1>8, ParamsAre DEF Families
  <2>3. QED  BY <1>1, <1>8, <2>1, <2>2
<1>9. CASE f \in ImageFamilies
  <2>1. op \in {"send", "clear"} /\ f \in Families /\ f \notin Ranged
    BY <1>6, <1>9, ParamsAre DEF ImageTurn, Families
  <2>2. QED  BY <1>1, <2>1
<1>10. CASE f = "sensors"
  <2>1. op \in {"count", "rearm"}
    BY <1>6, <1>10, ParamsAre DEF CountTurn
  <2>2. QED  BY <1>1, <1>10, <2>1
<1>11. QED  BY <1>4, <1>7, <1>8, <1>9, <1>10, InFamily

\* A step that changes nothing but one family.
Local(g) ==
  /\ one' = one /\ disturbed \subseteq disturbed'
  /\ \A p \in OneParams \ Family(g) : /\ member'[p] = member[p] /\ stored'[p] = stored[p]
                                      /\ p \in changed' <=> p \in changed
                                      /\ p \in Dials => camera'[p] = camera[p]
  /\ (rounds' = rounds /\ (registered => registered')) \/ rounds' = 0

LEMMA LocalSame == ASSUME NEW g, Local(g), NEW f \in Families \ {g} PROVE Same(f)
<1>1. \A p \in Family(f) : p \in OneParams \ Family(g)
  BY DEF Family
<1>2. QED  BY <1>1 DEF Local, Same, Sound

LEMMA OthersStay ==
  ASSUME Others, member' = member, stored' = stored, disturbed \subseteq disturbed', registered' = registered,
         rounds' = rounds \/ rounds' = 0
  PROVE  Others'
  BY DEF Others, Saved

\* The rest of the grab thread's steps with a family.
LEMMA QuietStep ==
  ASSUME OneInd, steps # <<>>, NEW next, steps' = next \o Tail(steps), Aside, UNCHANGED <<member, stored>>,
         NEW g \in Families, g = FamilyOf(P), Local(g),
         changed' \subseteq Flagged, due' \in BOOLEAN, disturbed' \subseteq OneParams,
         oneRefusals' \in 0..MaxOneRefusals,
         camera' \in [Dials -> Int], \A p \in Dials : camera'[p] \in Domain(p) \cup {Own},
         \A x, y \in Stages : Turn(Head(steps), g, x, y) /\ Means(g, x) =>
                                \E w \in Stages : Means(g, w)' /\ Brings(next, g, w, y)
  PROVE  OneInd'
<1>1. OneTyped'
  <2>1. one' = one /\ registered' = registered /\ oneChanges' = oneChanges
    BY DEF Aside
  <2>2. rounds' \in 0..2
    BY DEF OneInd, OneTyped, Local
  <2>3. DOMAIN camera' = Dials
    OBVIOUS
  <2>4. QED  BY <2>1, <2>2, <2>3 DEF OneInd, OneTyped, OneSettingsTypeOK
<1>2. Others'
  BY OthersStay DEF OneInd, Aside, Local
<1>3. \A f \in Families \ {g} : Same(f)
  BY LocalSame
<1>4. \A f \in Families \cup {"sensors"} : Holds(f)'
  <2>1. one' = one
    BY DEF Aside
  <2>2. Within(next, g)
    <3>1. PICK x, y \in Stages : Turn(Head(steps), g, x, y) /\ Means(g, x)
      BY StepIs
    <3>2. PICK w \in Stages : Means(g, w)' /\ Brings(next, g, w, y)
      BY <3>1, Zenon
    <3>3. QED  BY <3>2 DEF Brings
  <2>3. ASSUME NEW x \in Stages, NEW y \in Stages, Turn(Head(steps), g, x, y) /\ Means(g, x)
        PROVE  \E w \in Stages : Means(g, w)' /\ Leads(next, g, w, y)
    <3>1. PICK w \in Stages : Means(g, w)' /\ Brings(next, g, w, y)
      BY <2>3, Zenon
    <3>2. QED  BY <3>1 DEF Brings
  <2>4. \A x, y \in Stages : Turn(Head(steps), g, x, y) /\ Means(g, x) =>
                               \E w \in Stages : Means(g, w)' /\ Leads(next, g, w, y)
    BY <2>3, Zenon
  <2>5. QED  BY <1>3, <2>1, <2>2, <2>4, FamilyStep
<1>5. QED  BY <1>1, <1>2, <1>4 DEF OneInd

\* The camera stays as it is.
LEMMA CameraStays ==
  ASSUME OneTyped, camera' = camera
  PROVE  camera' \in [Dials -> Int] /\ \A p \in Dials : camera'[p] \in Domain(p) \cup {Own}
  BY DEF OneTyped, OneSettingsTypeOK

LEMMA ModeTyped ==
  ASSUME OneTyped
  PROVE  /\ \A p \in OneParams : member[p] \in Domain(p) /\ member[p] \in Int
         /\ \A g \in Ranged : /\ member[Automatic(g)] \in {0, 1} /\ 0 \in Domain(Automatic(g)) /\ 1 \in Domain(Automatic(g))
                              /\ Domain(Value(g)) = Lo..Hi /\ Domain(Low(g)) = Lo..Hi /\ Domain(High(g)) = Lo..Hi
         /\ member[White] \in {0, 1} /\ 0 \in Domain(White) /\ 1 \in Domain(White)
         /\ Lo \in Domain(Low("exposure")) /\ Hi \in Domain(High("exposure")) /\ Lo \in Int /\ Hi \in Int /\ Lo < Hi
<1>1. \A p \in OneParams : member[p] \in Domain(p) /\ member[p] \in Int
  BY DEF OneTyped, OneSettingsTypeOK
<1>2. \A g \in Ranged : /\ Domain(Automatic(g)) = 0..1
                        /\ Domain(Value(g)) = Lo..Hi /\ Domain(Low(g)) = Lo..Hi /\ Domain(High(g)) = Lo..Hi
  BY DEF Domain, Automatic, Value, Low, High
<1>3. Domain(White) = 0..1
  BY DEF Domain, White, Automatic
<1>4. \A g \in Ranged : Automatic(g) \in OneParams
  BY ParamsAre
<1>5. White \in OneParams
  BY ParamsAre
<1>6. Lo \in Int /\ Hi \in Int /\ Lo < Hi
  BY ZedOneSettingsAssumption DEF ZedOneSettingsAssumption
<1>7. QED  BY <1>1, <1>2, <1>3, <1>4, <1>5, <1>6, ParamsAre

\* The stages of a range.
LEMMA RangeMeans ==
  ASSUME NEW g \in Ranged, g \in one.ranged, NEW x
  PROVE  /\ Means(g, x) <=> /\ x[1] = "idle" => Idle1(g)
                            /\ x[1] = "ready" => (Live(g) => Ready(g)) /\ (Sound(g) => Waits(g))
                            /\ RangeStage(g, x[1], x[2])
         /\ g \in Families /\ Ready(g) <=> Split(g) \/ Automatic(g) \in changed
         /\ Waits(g) <=> WaitsRange(g)
  BY ParamsAre DEF Means, Families, Ready, Waits
LEMMA RangeMeansNext ==
  ASSUME NEW g \in Ranged, g \in one.ranged, one' = one, NEW x
  PROVE  Means(g, x)' <=> /\ x[1] = "idle" => Idle1(g)'
                          /\ x[1] = "ready" => (Live(g)' => Ready(g)') /\ (Sound(g)' => Waits(g)')
                          /\ RangeStage(g, x[1], x[2])'
  BY ParamsAre DEF Means, Families

\* Steps at a range, and the turn they make.
LEMMA RangeRun ==
  ASSUME NEW g \in Ranged, NEW op \in StepOps, NEW p \in {"auto", "value", "min", "max"}, NEW v \in Int,
         op = "set" => v \in Domain(<<g, p>>), NEW x \in Stages, NEW y \in Stages, RangeTurn(op, p, v, x, y)
  PROVE  Brings(Run(op, <<g, p>>, v), g, x, y)
<1>1. <<g, p>> \in OneParams /\ FamilyOf(<<g, p>>) = g
  BY ParamsAre DEF OneParams, Flagged, FamilyOf, Ranged
<1>2. PICK e : e = [op |-> op, at |-> <<g, p>>, v |-> v]
  OBVIOUS
<1>3. e.op = op /\ e.at = <<g, p>> /\ e.v = v /\ e.at[2] = p
  BY <1>2
<1>4. Turn(e, g, x, y)
  BY <1>1, <1>3 DEF Turn, Concerns
<1>5. Leads(Run(op, <<g, p>>, v), g, x, y)
  BY <1>1, <1>2, <1>4, LeadsRun
<1>6. Within(Run(op, <<g, p>>, v), g)
  BY <1>1, WithinRun
<1>7. QED  BY <1>5, <1>6 DEF Brings

\* The steps at a range, each with its turn.
LEMMA RangeRuns ==
  ASSUME NEW g \in Ranged, NEW l \in Lo..Hi
  PROVE  /\ Brings(Run("send", Value(g), 0), g, At0("manual"), At0("forced"))
         /\ Brings(Run("clear", Value(g), 0), g, At0("valued"), At0("forced"))
         /\ Brings(Run("force", Value(g), 0), g, At0("forced"), At0("even"))
         /\ Brings(Run("set", Automatic(g), 0), g, <<"zero", l>>, <<"low", l>>)
         /\ Brings(Run("set", Low(g), l), g, <<"low", l>>, <<"high", l>>)
         /\ Brings(Run("set", High(g), l), g, <<"high", l>>, At0("even"))
         /\ Brings(Run("set", Low(g), Lo), g, At0("widen"), At0("wide"))
         /\ Brings(Run("set", High(g), Hi), g, At0("wide"), At0("even"))
         /\ Brings(Run("mode", Automatic(g), 0), g, At0("ready"), At0("even"))
         /\ Brings(Run("unmark", Automatic(g), 0), g, At0("even"), At0("plain"))
         /\ Brings(Run("range", Low(g), 0), g, At0("plain"), At0("idle"))
         /\ Brings(Run("clear", Low(g), 0), g, At0("marked"), At0("settle"))
         /\ Brings(Run("settle", Low(g), 0), g, At0("settle"), At0("idle"))
         /\ Brings(Run("set", Automatic(g), 0), g, <<"sole", l>>, <<"value", l>>)
         /\ Brings(Run("set", Value(g), l), g, <<"value", l>>, At0("idle"))
         /\ Brings(Run("set", Automatic(g), 1), g, At0("multi"), At0("idle"))
<1>1. /\ Lo \in Int /\ Hi \in Int /\ l \in Int
      /\ Domain(<<g, "auto">>) = 0..1 /\ Domain(<<g, "value">>) = Lo..Hi
      /\ Domain(<<g, "min">>) = Lo..Hi /\ Domain(<<g, "max">>) = Lo..Hi
      /\ Lo \in Lo..Hi /\ Hi \in Lo..Hi
  BY ZedOneSettingsAssumption DEF ZedOneSettingsAssumption, Domain
<1>2. /\ \A k \in {"zero", "low", "high", "sole", "value"} : <<k, l>> \in Stages
      /\ \A k \in {"idle", "ready", "manual", "valued", "forced", "widen", "wide", "even", "plain", "marked", "settle",
                   "multi"} : At0(k) \in Stages
  BY <1>1, StagesAre
<1>3. Brings(Run("send", Value(g), 0), g, At0("manual"), At0("forced"))
  <2>1. RangeTurn("send", "value", 0, At0("manual"), At0("forced"))
    BY DEF RangeTurn
  <2>2. At0("manual") \in Stages /\ At0("forced") \in Stages /\ 0 \in Int
    BY <1>1, <1>2
  <2>3. QED  BY <2>1, <2>2, RangeRun DEF Value, StepOps
<1>4. Brings(Run("clear", Value(g), 0), g, At0("valued"), At0("forced"))
  <2>1. RangeTurn("clear", "value", 0, At0("valued"), At0("forced"))
    BY DEF RangeTurn
  <2>2. At0("valued") \in Stages /\ At0("forced") \in Stages /\ 0 \in Int
    BY <1>1, <1>2
  <2>3. QED  BY <2>1, <2>2, RangeRun DEF Value, StepOps
<1>5. Brings(Run("force", Value(g), 0), g, At0("forced"), At0("even"))
  <2>1. RangeTurn("force", "value", 0, At0("forced"), At0("even"))
    BY DEF RangeTurn
  <2>2. At0("forced") \in Stages /\ At0("even") \in Stages /\ 0 \in Int
    BY <1>1, <1>2
  <2>3. QED  BY <2>1, <2>2, RangeRun DEF Value, StepOps
<1>6. Brings(Run("set", Automatic(g), 0), g, <<"zero", l>>, <<"low", l>>)
  <2>1. RangeTurn("set", "auto", 0, <<"zero", l>>, <<"low", l>>)
    BY DEF RangeTurn
  <2>2. <<"zero", l>> \in Stages /\ <<"low", l>> \in Stages /\ 0 \in Int /\ 0 \in Domain(<<g, "auto">>)
    BY <1>1, <1>2
  <2>3. QED  BY <2>1, <2>2, RangeRun DEF Automatic, StepOps
<1>7. Brings(Run("set", Low(g), l), g, <<"low", l>>, <<"high", l>>)
  <2>1. RangeTurn("set", "min", l, <<"low", l>>, <<"high", l>>)
    BY DEF RangeTurn
  <2>2. <<"low", l>> \in Stages /\ <<"high", l>> \in Stages /\ l \in Int /\ l \in Domain(<<g, "min">>)
    BY <1>1, <1>2
  <2>3. QED  BY <2>1, <2>2, RangeRun DEF Low, StepOps
<1>8. Brings(Run("set", High(g), l), g, <<"high", l>>, At0("even"))
  <2>1. RangeTurn("set", "max", l, <<"high", l>>, At0("even"))
    BY DEF RangeTurn
  <2>2. <<"high", l>> \in Stages /\ At0("even") \in Stages /\ l \in Int /\ l \in Domain(<<g, "max">>)
    BY <1>1, <1>2
  <2>3. QED  BY <2>1, <2>2, RangeRun DEF High, StepOps
<1>9. Brings(Run("set", Low(g), Lo), g, At0("widen"), At0("wide"))
  <2>1. RangeTurn("set", "min", Lo, At0("widen"), At0("wide"))
    BY DEF RangeTurn
  <2>2. At0("widen") \in Stages /\ At0("wide") \in Stages /\ Lo \in Int /\ Lo \in Domain(<<g, "min">>)
    BY <1>1, <1>2
  <2>3. QED  BY <2>1, <2>2, RangeRun DEF Low, StepOps
<1>10. Brings(Run("set", High(g), Hi), g, At0("wide"), At0("even"))
  <2>1. RangeTurn("set", "max", Hi, At0("wide"), At0("even"))
    BY DEF RangeTurn
  <2>2. At0("wide") \in Stages /\ At0("even") \in Stages /\ Hi \in Int /\ Hi \in Domain(<<g, "max">>)
    BY <1>1, <1>2
  <2>3. QED  BY <2>1, <2>2, RangeRun DEF High, StepOps
<1>11. Brings(Run("mode", Automatic(g), 0), g, At0("ready"), At0("even"))
  <2>1. RangeTurn("mode", "auto", 0, At0("ready"), At0("even"))
    BY DEF RangeTurn
  <2>2. At0("ready") \in Stages /\ At0("even") \in Stages /\ 0 \in Int
    BY <1>1, <1>2
  <2>3. QED  BY <2>1, <2>2, RangeRun DEF Automatic, StepOps
<1>12. Brings(Run("unmark", Automatic(g), 0), g, At0("even"), At0("plain"))
  <2>1. RangeTurn("unmark", "auto", 0, At0("even"), At0("plain"))
    BY DEF RangeTurn
  <2>2. At0("even") \in Stages /\ At0("plain") \in Stages /\ 0 \in Int
    BY <1>1, <1>2
  <2>3. QED  BY <2>1, <2>2, RangeRun DEF Automatic, StepOps
<1>13. Brings(Run("range", Low(g), 0), g, At0("plain"), At0("idle"))
  <2>1. RangeTurn("range", "min", 0, At0("plain"), At0("idle"))
    BY DEF RangeTurn
  <2>2. At0("plain") \in Stages /\ At0("idle") \in Stages /\ 0 \in Int
    BY <1>1, <1>2
  <2>3. QED  BY <2>1, <2>2, RangeRun DEF Low, StepOps
<1>14. Brings(Run("clear", Low(g), 0), g, At0("marked"), At0("settle"))
  <2>1. RangeTurn("clear", "min", 0, At0("marked"), At0("settle"))
    BY DEF RangeTurn
  <2>2. At0("marked") \in Stages /\ At0("settle") \in Stages /\ 0 \in Int
    BY <1>1, <1>2
  <2>3. QED  BY <2>1, <2>2, RangeRun DEF Low, StepOps
<1>15. Brings(Run("settle", Low(g), 0), g, At0("settle"), At0("idle"))
  <2>1. RangeTurn("settle", "min", 0, At0("settle"), At0("idle"))
    BY DEF RangeTurn
  <2>2. At0("settle") \in Stages /\ At0("idle") \in Stages /\ 0 \in Int
    BY <1>1, <1>2
  <2>3. QED  BY <2>1, <2>2, RangeRun DEF Low, StepOps
<1>16. Brings(Run("set", Automatic(g), 0), g, <<"sole", l>>, <<"value", l>>)
  <2>1. RangeTurn("set", "auto", 0, <<"sole", l>>, <<"value", l>>)
    BY DEF RangeTurn
  <2>2. <<"sole", l>> \in Stages /\ <<"value", l>> \in Stages /\ 0 \in Int /\ 0 \in Domain(<<g, "auto">>)
    BY <1>1, <1>2
  <2>3. QED  BY <2>1, <2>2, RangeRun DEF Automatic, StepOps
<1>17. Brings(Run("set", Value(g), l), g, <<"value", l>>, At0("idle"))
  <2>1. RangeTurn("set", "value", l, <<"value", l>>, At0("idle"))
    BY DEF RangeTurn
  <2>2. <<"value", l>> \in Stages /\ At0("idle") \in Stages /\ l \in Int /\ l \in Domain(<<g, "value">>)
    BY <1>1, <1>2
  <2>3. QED  BY <2>1, <2>2, RangeRun DEF Value, StepOps
<1>18. Brings(Run("set", Automatic(g), 1), g, At0("multi"), At0("idle"))
  <2>1. RangeTurn("set", "auto", 1, At0("multi"), At0("idle"))
    BY DEF RangeTurn
  <2>2. At0("multi") \in Stages /\ At0("idle") \in Stages /\ 1 \in Int /\ 1 \in Domain(<<g, "auto">>)
    BY <1>1, <1>2
  <2>3. QED  BY <2>1, <2>2, RangeRun DEF Automatic, StepOps
<1>19. QED  BY <1>3, <1>4, <1>5, <1>6, <1>7, <1>8, <1>9, <1>10, <1>11, <1>12, <1>13, <1>14, <1>15, <1>16, <1>17, <1>18

LEMMA RangeTurnIs ==
  ASSUME NEW g \in Ranged, g = FamilyOf(P), NEW x, NEW y, Turn(Head(steps), g, x, y)
  PROVE  RangeTurn(Head(steps).op, P[2], Head(steps).v, x, y)
<1>1. Concerns(Head(steps), g) /\ Head(steps).at = P
  BY DEF Concerns, P
<1>2. QED  BY <1>1, ParamsAre DEF Turn

\* A step that only reads.
LEMMA ReadsStep ==
  ASSUME OneInd, steps # <<>>, NEW next, steps' = next \o Tail(steps), Reads,
         NEW g \in Families, g = FamilyOf(P),
         \A x, y \in Stages : Turn(Head(steps), g, x, y) /\ Means(g, x) =>
                                \E w \in Stages : Means(g, w) /\ Brings(next, g, w, y)
  PROVE  OneInd'
<1>1. Aside /\ UNCHANGED <<member, stored, changed, due, camera, disturbed, rounds, oneRefusals>>
  BY DEF Reads
<1>2. Local(g) /\ Same(g)
  BY <1>1 DEF Local, Same, Sound, Aside
<1>3. camera' \in [Dials -> Int] /\ \A p \in Dials : camera'[p] \in Domain(p) \cup {Own}
  BY <1>1, CameraStays DEF OneInd
<1>4. changed' \subseteq Flagged /\ due' \in BOOLEAN /\ disturbed' \subseteq OneParams
        /\ oneRefusals' \in 0..MaxOneRefusals
  BY <1>1 DEF OneInd, OneTyped, OneSettingsTypeOK
<1>5. ASSUME NEW x \in Stages, NEW y \in Stages, Turn(Head(steps), g, x, y) /\ Means(g, x)
      PROVE  \E w \in Stages : Means(g, w)' /\ Brings(next, g, w, y)
  <2>1. PICK w \in Stages : Means(g, w) /\ Brings(next, g, w, y)
    BY <1>5, Zenon
  <2>2. Means(g, w)'
    BY <1>2, <2>1, SameStage
  <2>3. QED  BY <2>1, <2>2
<1>6. \A x, y \in Stages : Turn(Head(steps), g, x, y) /\ Means(g, x) =>
                             \E w \in Stages : Means(g, w)' /\ Brings(next, g, w, y)
  BY <1>5, Zenon
<1>7. QED  BY <1>1, <1>2, <1>3, <1>4, <1>6, QuietStep

LEMMA ModeInd == OneInd /\ Mode => OneInd'
<1> SUFFICES ASSUME OneInd, Mode PROVE OneInd'
  OBVIOUS
<1>1. PICK g : g = FamilyOf(P)
  OBVIOUS
<1>2. steps # <<>> /\ Head(steps).op = "mode" /\ g \in one.ranged /\ g \in Ranged /\ g \in Families /\ P[1] = g
  BY <1>1, StepOf DEF Mode, Now
<1> DEFINE manual == Run("send", Value(g), 0) \o Run("force", Value(g), 0)
           wide == Run("set", Low(g), Lo) \o Run("set", High(g), Hi)
           next == IF member[Automatic(g)] = 0 THEN manual ELSE IF Automatic(g) \in changed THEN wide ELSE <<>>
<1>4. steps' = next \o Tail(steps) /\ Reads
  BY <1>2 DEF Mode, Then
<1>5. member[Automatic(g)] \in {0, 1} /\ Lo \in Lo..Hi
  BY <1>2, ModeTyped DEF OneInd
<1>6. Brings(manual, g, At0("manual"), At0("even")) /\ Brings(wide, g, At0("widen"), At0("even"))
  BY <1>2, <1>5, RangeRuns, BringsPush
<1>7. (member[Automatic(g)] = 0 => next = manual)
      /\ (member[Automatic(g)] = 1 /\ Automatic(g) \in changed => next = wide)
      /\ (member[Automatic(g)] = 1 /\ Automatic(g) \notin changed => next = <<>>)
  OBVIOUS
<1> HIDE DEF manual, wide, next
<1>8. ASSUME NEW x \in Stages, NEW y \in Stages, Turn(Head(steps), g, x, y) /\ Means(g, x)
      PROVE  \E w \in Stages : Means(g, w) /\ Brings(next, g, w, y)
  <2>1. x = At0("ready") /\ y = At0("even")
    BY <1>1, <1>2, <1>8, RangeTurnIs DEF RangeTurn
  <2>2. (Live(g) => Ready(g)) /\ (Sound(g) => WaitsRange(g)) /\ (Sound(g) => Live(g))
    BY <1>2, <1>8, <2>1, RangeMeans DEF At0, Live
  <2>3. CASE member[Automatic(g)] = 0
    <3>1. Means(g, At0("manual"))
      BY <1>2, <2>2, <2>3, RangeMeans DEF RangeStage, Manual0, At0
    <3>2. At0("manual") \in Stages /\ Brings(next, g, At0("manual"), y)
      BY <1>6, <1>7, <2>1, <2>3, StagesAre
    <3>3. QED  BY <3>1, <3>2, Zenon
  <2>4. CASE member[Automatic(g)] = 1 /\ Automatic(g) \in changed
    <3>1. Sound(g) => CarriedRange(g)
      BY <2>2, <2>4 DEF WaitsRange, CarriedRange, Carried
    <3>2. Means(g, At0("widen"))
      BY <1>2, <2>2, <2>4, <3>1, RangeMeans DEF RangeStage, At0
    <3>3. At0("widen") \in Stages /\ Brings(next, g, At0("widen"), y)
      BY <1>6, <1>7, <2>1, <2>4, StagesAre
    <3>4. QED  BY <3>2, <3>3, Zenon
  <2>5. CASE member[Automatic(g)] = 1 /\ Automatic(g) \notin changed
    <3>1. Sound(g) => CarriedRange(g) /\ SavedRange(g)
      BY <2>2, <2>5 DEF WaitsRange, CarriedRange, Carried
    <3>2. Live(g) => Agree(g)
      BY <1>2, <2>2, <2>5, RangeMeans DEF Split, Agree
    <3>3. Means(g, At0("even"))
      BY <1>2, <3>1, <3>2, RangeMeans DEF RangeStage, At0
    <3>4. Brings(<<>>, g, y, y)
      BY BringsNone
    <3>5. QED  BY <1>7, <2>1, <2>5, <3>3, <3>4, StagesAre
  <2>6. QED  BY <1>5, <2>3, <2>4, <2>5
<1>9. \A x, y \in Stages : Turn(Head(steps), g, x, y) /\ Means(g, x) =>
                             \E w \in Stages : Means(g, w) /\ Brings(next, g, w, y)
  BY <1>8, Zenon
<1>10. QED  BY <1>1, <1>2, <1>4, <1>9, ReadsStep

\* A family that somebody has disturbed in the first round.
LEMMA VoidStage ==
  ASSUME NEW f \in Families, f \in Ranged => f \in one'.ranged, ~Sound(f)', rounds' = 0, NEW x
  PROVE  Means(f, x)'
<1>1. ~Live(f)' /\ ~Tidy(f)' /\ ~White0(f)'
  BY DEF Live, Tidy, White0
<1>2. Idle1(f)' /\ f # "sensors"
  BY InFamily DEF Idle1
<1>3. f \in Ranged => RangeStage(f, x[1], x[2])'
  BY <1>1 DEF RangeStage, Manual0
<1>4. f = "wb" => WhiteStage(x[1])'
  BY <1>1 DEF WhiteStage
<1>5. QED  BY <1>1, <1>2, <1>3, <1>4 DEF Means

LEMMA ForceInd == OneInd /\ ForceRange => OneInd'
<1> SUFFICES ASSUME OneInd, ForceRange PROVE OneInd'
  OBVIOUS
<1>1. PICK g : g = FamilyOf(P)
  OBVIOUS
<1>2. steps # <<>> /\ Head(steps).op = "force" /\ g \in one.ranged /\ g \in Ranged /\ g \in Families /\ P[1] = g
      /\ P = Value(g)
  BY <1>1, StepOf DEF ForceRange, Now
<1>3. PICK v : v = member[Value(g)]
  OBVIOUS
<1> DEFINE next == Run("set", Automatic(g), 0) \o Run("set", Low(g), v) \o Run("set", High(g), v)
<1>4. steps' = next \o Tail(steps) /\ Reads
  BY <1>2, <1>3 DEF ForceRange, Then
<1>5. v \in Lo..Hi /\ v \in Int
  <2>1. Value(g) \in OneParams
    BY <1>2, ParamsAre
  <2>2. QED  BY <1>2, <1>3, <2>1, ModeTyped DEF OneInd
<1>6. Brings(next, g, <<"zero", v>>, At0("even"))
  BY <1>2, <1>5, RangeRuns, BringsPush
<1> HIDE DEF next
<1>7. ASSUME NEW x \in Stages, NEW y \in Stages, Turn(Head(steps), g, x, y) /\ Means(g, x)
      PROVE  \E w \in Stages : Means(g, w) /\ Brings(next, g, w, y)
  <2>1. x = At0("forced") /\ y = At0("even")
    BY <1>1, <1>2, <1>7, RangeTurnIs DEF RangeTurn
  <2>2. Manual0(g) /\ (Sound(g) => CarriedRange(g))
    BY <1>2, <1>7, <2>1, RangeMeans DEF At0, RangeStage
  <2>3. Means(g, <<"zero", v>>)
    BY <1>2, <1>3, <2>2, RangeMeans DEF RangeStage
  <2>4. <<"zero", v>> \in Stages
    BY <1>5, StagesAre
  <2>5. QED  BY <1>6, <2>1, <2>3, <2>4, Zenon
<1>8. \A x, y \in Stages : Turn(Head(steps), g, x, y) /\ Means(g, x) =>
                             \E w \in Stages : Means(g, w) /\ Brings(next, g, w, y)
  BY <1>7, Zenon
<1>9. QED  BY <1>1, <1>2, <1>4, <1>8, ReadsStep

LEMMA SettleInd == OneInd /\ Settle => OneInd'
<1> SUFFICES ASSUME OneInd, Settle PROVE OneInd'
  OBVIOUS
<1>1. PICK g : g = FamilyOf(P)
  OBVIOUS
<1>2. steps # <<>> /\ Head(steps).op = "settle" /\ g \in one.ranged /\ g \in Ranged /\ g \in Families /\ P[1] = g
  BY <1>1, StepOf DEF Settle, Now
<1>3. PICK l, next : l = member[Low(g)] /\ next = Settled(g)
  OBVIOUS
<1>4. steps' = next \o Tail(steps) /\ Reads
  BY <1>2, <1>3 DEF Settle, Then
<1>5. l \in Lo..Hi /\ l \in Int
  <2>1. Low(g) \in OneParams
    BY <1>2, ParamsAre
  <2>2. QED  BY <1>2, <1>3, <2>1, ModeTyped DEF OneInd
<1>6. /\ l = member[High(g)] => Brings(next, g, <<"sole", l>>, At0("idle"))
      /\ l # member[High(g)] => Brings(next, g, At0("multi"), At0("idle"))
  <2>1. /\ Brings(Run("set", Automatic(g), 0) \o Run("set", Value(g), l), g, <<"sole", l>>, At0("idle"))
        /\ Brings(Run("set", Automatic(g), 1), g, At0("multi"), At0("idle"))
    BY <1>2, <1>5, RangeRuns, BringsPush
  <2>2. QED  BY <1>3, <2>1 DEF Settled
<1>7. ASSUME NEW x \in Stages, NEW y \in Stages, Turn(Head(steps), g, x, y) /\ Means(g, x)
      PROVE  \E w \in Stages : Means(g, w) /\ Brings(next, g, w, y)
  <2>1. x = At0("settle") /\ y = At0("idle")
    BY <1>1, <1>2, <1>7, RangeTurnIs DEF RangeTurn
  <2>2. (Live(g) => Agree(g)) /\ (Sound(g) => CarriedRange(g) /\ SavedRange(g)) /\ (Tidy(g) => Unmarked(g))
    BY <1>2, <1>7, <2>1, RangeMeans DEF At0, RangeStage
  <2>3. CASE l = member[High(g)]
    <3>1. Means(g, <<"sole", l>>)
      BY <1>2, <1>3, <2>2, <2>3, RangeMeans DEF RangeStage
    <3>2. <<"sole", l>> \in Stages
      BY <1>5, StagesAre
    <3>3. QED  BY <1>6, <2>1, <2>3, <3>1, <3>2, Zenon
  <2>4. CASE l # member[High(g)]
    <3>1. Means(g, At0("multi"))
      BY <1>2, <1>3, <2>2, <2>4, RangeMeans DEF RangeStage, At0
    <3>2. At0("multi") \in Stages
      BY StagesAre
    <3>3. QED  BY <1>6, <2>1, <2>4, <3>1, <3>2, Zenon
  <2>5. QED  BY <2>3, <2>4
<1>8. \A x, y \in Stages : Turn(Head(steps), g, x, y) /\ Means(g, x) =>
                             \E w \in Stages : Means(g, w) /\ Brings(next, g, w, y)
  BY <1>7, Zenon
<1>9. QED  BY <1>1, <1>2, <1>4, <1>8, ReadsStep

LEMMA UnmarkInd == OneInd /\ Unmark => OneInd'
<1> SUFFICES ASSUME OneInd, Unmark PROVE OneInd'
  OBVIOUS
<1>1. PICK g : g = FamilyOf(P)
  OBVIOUS
<1>2. steps # <<>> /\ Head(steps).op = "unmark" /\ g \in one.ranged /\ g \in Ranged /\ g \in Families /\ P[1] = g
      /\ P = Automatic(g)
  BY <1>1, StepOf DEF Unmark, Now
<1>3. /\ steps' = <<>> \o Tail(steps) /\ Aside /\ changed' = changed \ {Automatic(g), Value(g)}
      /\ UNCHANGED <<member, stored, due, camera, disturbed, rounds, oneRefusals>>
  BY <1>2 DEF Unmark, Then
<1>4. Family(g) = {Automatic(g), Value(g), Low(g), High(g)} /\ Low(g) \notin {Automatic(g), Value(g)}
        /\ High(g) \notin {Automatic(g), Value(g)}
  BY <1>2, ParamsAre DEF Automatic, Value, Low, High
<1>5. Local(g)
  BY <1>3, <1>4 DEF Local, Aside
<1>6. ASSUME NEW x \in Stages, NEW y \in Stages, Turn(Head(steps), g, x, y) /\ Means(g, x)
      PROVE  \E w \in Stages : Means(g, w)' /\ Brings(<<>>, g, w, y)
  <2>1. x = At0("even") /\ y = At0("plain")
    BY <1>1, <1>2, <1>6, RangeTurnIs DEF RangeTurn
  <2>2. (Live(g) => Agree(g)) /\ (Sound(g) => CarriedRange(g) /\ SavedRange(g))
    BY <1>2, <1>6, <2>1, RangeMeans DEF At0, RangeStage
  <2>3. (Live(g)' <=> Live(g)) /\ (Sound(g)' <=> Sound(g)) /\ (Agree(g)' <=> Agree(g))
        /\ (CarriedRange(g)' <=> CarriedRange(g)) /\ (SavedRange(g)' <=> SavedRange(g))
    BY <1>3, <1>4 DEF Live, Sound, Agree, CarriedRange, Carried, SavedRange, Saved, Aside
  <2>4. Automatic(g) \notin changed' /\ Value(g) \notin changed'
    BY <1>3
  <2>5. RangeStage(g, "plain", 0)'
    BY <2>2, <2>3, <2>4 DEF RangeStage
  <2>6. Means(g, At0("plain"))'
    BY <1>2, <1>3, <2>5, RangeMeansNext DEF At0, Aside
  <2>7. Brings(<<>>, g, y, y)
    BY BringsNone
  <2>8. QED  BY <2>1, <2>6, <2>7, Zenon
<1>7. \A x, y \in Stages : Turn(Head(steps), g, x, y) /\ Means(g, x) =>
                             \E w \in Stages : Means(g, w)' /\ Brings(<<>>, g, w, y)
  BY <1>6, Zenon
<1>8. changed' \subseteq Flagged /\ due' \in BOOLEAN /\ disturbed' \subseteq OneParams
        /\ oneRefusals' \in 0..MaxOneRefusals
  BY <1>3 DEF OneInd, OneTyped, OneSettingsTypeOK
<1>9. camera' \in [Dials -> Int] /\ \A p \in Dials : camera'[p] \in Domain(p) \cup {Own}
  BY <1>3, CameraStays DEF OneInd
<1>10. rounds' = rounds \/ rounds' = 0
  BY <1>3
<1>11. QED  BY <1>1, <1>2, <1>3, <1>5, <1>7, <1>8, <1>9, QuietStep

\* What the camera makes of a setting.
LEMMA DialledRange ==
  ASSUME OneTyped, NEW g \in Ranged, P \in {Value(g), Low(g)}
  PROVE  /\ Dialled(P) \in [Dials -> Int] /\ \A p \in Dials : Dialled(P)[p] \in Domain(p) \cup {Own}
         /\ \A p \in Dials \ Family(g) : Dialled(P)[p] = camera[p]
         /\ Dialled(P)[Low(g)] = member[P]
         /\ Dialled(P)[High(g)] = IF P = Value(g) THEN member[P] ELSE member[High(g)]
<1>1. PICK p, l, h : p = P /\ l = Low(g) /\ h = High(g)
  OBVIOUS
<1>2. /\ l \in Dials /\ h \in Dials /\ {l, h} \subseteq Family(g) /\ p # White /\ p # Temperature /\ l # h
      /\ p[1] = g /\ p[2] \in {"value", "min"} /\ (p[2] = "value" <=> p = Value(g)) /\ (p[2] = "min" => p = l)
  BY <1>1, ParamsAre DEF Automatic, Value, Low, High, White, Temperature
<1>3. /\ camera \in [Dials -> Int] /\ \A q \in Dials : camera[q] \in Domain(q) \cup {Own}
      /\ member[p] \in Lo..Hi /\ member[h] \in Lo..Hi /\ Domain(l) = Lo..Hi /\ Domain(h) = Lo..Hi
      /\ member[p] \in Int /\ member[h] \in Int
  <2>1. {p, h} \subseteq OneParams
    BY <1>1, ParamsAre
  <2>2. \A q \in {p, h} : Domain(q) = Lo..Hi
    BY <1>1, ModeTyped
  <2>3. QED  BY <1>1, <2>1, <2>2, ModeTyped DEF OneTyped, OneSettingsTypeOK
<1>4. PICK m : m = IF p[2] = "value" THEN member[p] ELSE member[h]
  OBVIOUS
<1>5. Dialled(p) = [camera EXCEPT ![l] = member[p], ![h] = m]
  <2>1. CASE p[2] = "value"
    BY <1>1, <1>2, <1>4, <2>1 DEF Dialled, White
  <2>2. CASE p[2] = "min"
    BY <1>1, <1>2, <1>4, <2>2 DEF Dialled, White
  <2>3. QED  BY <1>2, <2>1, <2>2
<1>6. PICK d : d = Dialled(p)
  OBVIOUS
<1>7. d \in [Dials -> Int] /\ d[l] = member[p] /\ d[h] = m /\ \A q \in Dials \ {l, h} : d[q] = camera[q]
  BY <1>2, <1>3, <1>4, <1>5, <1>6
<1>8. \A q \in Dials : d[q] \in Domain(q) \cup {Own}
  BY <1>3, <1>4, <1>7
<1>9. \A q \in Dials \ Family(g) : d[q] = camera[q]
  BY <1>2, <1>7
<1>10. d = Dialled(P) /\ d[Low(g)] = member[P] /\ d[High(g)] = IF P = Value(g) THEN member[P] ELSE member[High(g)]
  BY <1>1, <1>2, <1>4, <1>6, <1>7
<1>11. QED  BY <1>7, <1>8, <1>9, <1>10

LEMMA DialledWhite ==
  ASSUME OneTyped, P \in {White, Temperature}
  PROVE  /\ Dialled(P) \in [Dials -> Int] /\ \A p \in Dials : Dialled(P)[p] \in Domain(p) \cup {Own}
         /\ \A p \in Dials \ Family("wb") : Dialled(P)[p] = camera[p]
         /\ P = White => /\ Dialled(P)[White] = member[White]
                         /\ Dialled(P)[Temperature] = IF member[White] = 1 THEN Own ELSE camera[Temperature]
         /\ P = Temperature => Dialled(P)[White] = 0 /\ Dialled(P)[Temperature] = member[Temperature]
<1>1. PICK p, w, t : p = P /\ w = White /\ t = Temperature
  OBVIOUS
<1>2. /\ w \in Dials /\ t \in Dials /\ {w, t} \subseteq Family("wb") /\ w # t /\ w = Automatic("wb")
      /\ t[2] = "temperature" /\ w[2] = "auto"
  BY <1>1, ParamsAre DEF Automatic, White, Temperature
<1>3. /\ camera \in [Dials -> Int] /\ \A q \in Dials : camera[q] \in Domain(q) \cup {Own}
      /\ member[p] \in Domain(p) /\ member[p] \in Int /\ 0 \in Domain(w) /\ 1 \in Domain(w) /\ Own \in Int
  <2>1. camera \in [Dials -> Int] /\ \A q \in Dials : camera[q] \in Domain(q) \cup {Own}
    BY DEF OneTyped, OneSettingsTypeOK
  <2>2. p \in OneParams
    BY <1>1, ParamsAre
  <2>3. member[p] \in Domain(p) /\ member[p] \in Int /\ 0 \in Domain(w) /\ 1 \in Domain(w)
    BY <1>1, <2>2, ModeTyped
  <2>4. QED  BY <2>1, <2>3 DEF Own
<1>4. PICK d : d = Dialled(p)
  OBVIOUS
<1>5. d = IF p = w THEN (IF member[w] = 1 THEN [camera EXCEPT ![w] = 1, ![t] = Own]
                         ELSE [camera EXCEPT ![w] = member[w]])
          ELSE [camera EXCEPT ![t] = member[t], ![w] = 0]
  <2>1. CASE p = w /\ member[w] = 1
    BY <1>1, <1>2, <1>4, <2>1 DEF Dialled
  <2>2. CASE p = w /\ member[w] # 1
    BY <1>1, <1>2, <1>4, <2>2 DEF Dialled
  <2>3. CASE p = t
    BY <1>1, <1>2, <1>4, <2>3 DEF Dialled
  <2>4. QED  BY <1>1, <2>1, <2>2, <2>3
<1>6. /\ d \in [Dials -> Int] /\ \A q \in Dials \ {w, t} : d[q] = camera[q]
      /\ p = w => d[w] = member[w] /\ d[t] = IF member[w] = 1 THEN Own ELSE camera[t]
      /\ p = t => d[w] = 0 /\ d[t] = member[t]
  BY <1>1, <1>2, <1>3, <1>5
<1>7. \A q \in Dials : d[q] \in Domain(q) \cup {Own}
  BY <1>1, <1>2, <1>3, <1>6
<1>8. \A q \in Dials \ Family("wb") : d[q] = camera[q]
  BY <1>2, <1>6
<1>9. QED  BY <1>1, <1>4, <1>6, <1>7, <1>8

LEMMA DialledImage ==
  ASSUME OneTyped, NEW f \in ImageFamilies, P = Picture(f)
  PROVE  /\ Dialled(P) \in [Dials -> Int] /\ \A p \in Dials : Dialled(P)[p] \in Domain(p) \cup {Own}
         /\ \A p \in Dials \ Family(f) : Dialled(P)[p] = camera[p]
         /\ Dialled(P)[P] = member[P]
<1>1. P \in Dials /\ Family(f) = {P} /\ P \in OneParams /\ P # Automatic("wb") /\ P # Temperature
        /\ P[2] \notin {"value", "min"}
  BY ParamsAre DEF Automatic, Temperature, Picture, ImageFamilies
<1>2. Dialled(P) = [camera EXCEPT ![P] = member[P]]
  BY <1>1 DEF Dialled
<1>3. /\ camera \in [Dials -> Int] /\ \A q \in Dials : camera[q] \in Domain(q) \cup {Own}
      /\ member[P] \in Domain(P) /\ member[P] \in Int
  BY <1>1, ModeTyped DEF OneTyped, OneSettingsTypeOK
<1>4. QED  BY <1>1, <1>2, <1>3

\* A setting that is not refused.
LEMMA SetStep ==
  ASSUME OneInd, steps # <<>>, NEW marks, NEW more, SetCamera(marks, more), marks \subseteq Family(FamilyOf(P)),
         NEW g \in Families, g = FamilyOf(P), g \in Ranged => g \in one.ranged,
         \* nothing is marked
         changed \cap marks = {} =>
           \A x, y \in Stages : Turn(Head(steps), g, x, y) /\ Means(g, x) =>
                                  \E w \in Stages : Means(g, w) /\ Brings(more, g, w, y),
         \* the SDK accepts
         changed \cap marks # {} /\ Local(g) /\ camera' = Dialled(P) /\ disturbed' = disturbed
           /\ changed' = changed /\ rounds' = rounds =>
           \A x, y \in Stages : Turn(Head(steps), g, x, y) /\ Means(g, x) =>
                                  \E w \in Stages : Means(g, w)' /\ Brings(Run("clear", P, 0) \o more, g, w, y),
         Dialled(P) \in [Dials -> Int], \A p \in Dials : Dialled(P)[p] \in Domain(p) \cup {Own},
         \A p \in Dials \ Family(g) : Dialled(P)[p] = camera[p]
  PROVE  OneInd'
<1>1. Aside /\ UNCHANGED <<member, stored, changed, due>> /\ P \in OneParams
  BY StepIs DEF SetCamera
<1>2. changed' \subseteq Flagged /\ due' \in BOOLEAN
  BY <1>1 DEF OneInd, OneTyped, OneSettingsTypeOK
<1>3. oneRefusals \in 0..MaxOneRefusals /\ MaxOneRefusals \in Nat /\ disturbed \subseteq OneParams
  BY ZedOneSettingsAssumption DEF OneInd, OneTyped, OneSettingsTypeOK, ZedOneSettingsAssumption
<1>4. CASE changed \cap marks = {}
  <2>1. Then(more) /\ UNCHANGED <<camera, disturbed, rounds, oneRefusals>>
    BY <1>4 DEF SetCamera
  <2>2. steps' = more \o Tail(steps) /\ Reads
    BY <1>1, <2>1 DEF Then, Reads
  <2>3. QED  BY <1>4, <2>2, ReadsStep
<1>5. CASE Then(Run("clear", P, 0) \o more) /\ camera' = Dialled(P) /\ UNCHANGED <<disturbed, rounds, oneRefusals>>
           /\ changed \cap marks # {}
  <2>1. Local(g)
    BY <1>1, <1>5 DEF Local, Aside
  <2>2. \A x, y \in Stages : Turn(Head(steps), g, x, y) /\ Means(g, x) =>
                               \E w \in Stages : Means(g, w)' /\ Brings(Run("clear", P, 0) \o more, g, w, y)
    BY <1>1, <1>5, <2>1, Zenon
  <2>3. steps' = (Run("clear", P, 0) \o more) \o Tail(steps) /\ disturbed' \subseteq OneParams
          /\ oneRefusals' \in 0..MaxOneRefusals
    BY <1>3, <1>5 DEF Then
  <2>4. camera' \in [Dials -> Int] /\ \A p \in Dials : camera'[p] \in Domain(p) \cup {Own}
    BY <1>5
  <2>5. QED  BY <1>1, <1>2, <2>1, <2>2, <2>3, <2>4, QuietStep
<1>6. CASE /\ oneRefusals < MaxOneRefusals /\ oneRefusals' = oneRefusals + 1 /\ rounds' = 0
           /\ Then(<<>>) /\ disturbed' = disturbed \cup Mates(P) /\ UNCHANGED camera
  <2>1. Mates(P) = Family(g) /\ Family(g) \subseteq OneParams
    BY <1>1, ParamsAre DEF Family
  <2>2. Local(g) /\ ~Sound(g)'
    BY <1>1, <1>6, <2>1 DEF Local, Aside, Sound
  <2>3. steps' = <<>> \o Tail(steps) /\ disturbed' \subseteq OneParams /\ oneRefusals' \in 0..MaxOneRefusals
          /\ one' = one
    BY <1>1, <1>3, <1>6, <2>1 DEF Then, Aside
  <2>4. ASSUME NEW x \in Stages, NEW y \in Stages, Turn(Head(steps), g, x, y) /\ Means(g, x)
        PROVE  \E w \in Stages : Means(g, w)' /\ Brings(<<>>, g, w, y)
    <3>1. Means(g, y)'
      BY <1>6, <2>2, <2>3, VoidStage
    <3>2. QED  BY <3>1, BringsNone
  <2>5. \A x, y \in Stages : Turn(Head(steps), g, x, y) /\ Means(g, x) =>
                               \E w \in Stages : Means(g, w)' /\ Brings(<<>>, g, w, y)
    BY <2>4, Zenon
  <2>6. camera' \in [Dials -> Int] /\ \A p \in Dials : camera'[p] \in Domain(p) \cup {Own}
    BY <1>6, CameraStays DEF OneInd
  <2>7. QED  BY <1>1, <1>2, <2>2, <2>3, <2>5, <2>6, QuietStep
<1>7. QED  BY <1>4, <1>5, <1>6 DEF SetCamera

LEMMA SetVideoSettingRangeInd == OneInd /\ SetVideoSettingRange => OneInd'
<1> SUFFICES ASSUME OneInd, SetVideoSettingRange PROVE OneInd'
  OBVIOUS
<1>1. PICK g : g = FamilyOf(P)
  OBVIOUS
<1>2. steps # <<>> /\ Head(steps).op = "range" /\ g \in one.ranged /\ g \in Ranged /\ g \in Families /\ P[1] = g
      /\ P = Low(g)
  BY <1>1, StepOf DEF SetVideoSettingRange, Now
<1> DEFINE more == Run("settle", Low(g), 0)
<1>3. SetCamera({P, High(g)}, more) /\ {P, High(g)} = {Low(g), High(g)} /\ {P, High(g)} \subseteq Family(g)
  BY <1>2, ParamsAre DEF SetVideoSettingRange
<1>4. /\ Dialled(P) \in [Dials -> Int] /\ \A p \in Dials : Dialled(P)[p] \in Domain(p) \cup {Own}
      /\ \A p \in Dials \ Family(g) : Dialled(P)[p] = camera[p]
      /\ Dialled(P)[Low(g)] = member[Low(g)] /\ Dialled(P)[High(g)] = member[High(g)]
  <2>1. Low(g) # Value(g)
    BY DEF Low, Value
  <2>2. QED  BY <1>2, <2>1, DialledRange DEF OneInd
<1>5. Lo \in Lo..Hi
  BY ModeTyped DEF OneInd
<1>6. /\ Brings(more, g, At0("settle"), At0("idle"))
      /\ Brings(Run("clear", P, 0) \o more, g, At0("marked"), At0("idle"))
      /\ At0("settle") \in Stages /\ At0("marked") \in Stages
  BY <1>2, <1>5, RangeRuns, BringsPush, StagesAre
<1> HIDE DEF more
<1>7. ASSUME NEW x \in Stages, NEW y \in Stages, Turn(Head(steps), g, x, y), Means(g, x)
      PROVE  /\ y = At0("idle")
             /\ (Live(g) => Agree(g)) /\ (Sound(g) => CarriedRange(g) /\ SavedRange(g))
             /\ Tidy(g) => Automatic(g) \notin changed /\ Value(g) \notin changed
  <2>1. x = At0("plain") /\ y = At0("idle")
    BY <1>1, <1>2, <1>7, RangeTurnIs DEF RangeTurn
  <2>2. QED  BY <1>2, <1>7, <2>1, RangeMeans DEF At0, RangeStage
<1>8. ASSUME changed \cap {P, High(g)} = {}
      PROVE  \A x, y \in Stages : Turn(Head(steps), g, x, y) /\ Means(g, x) =>
                                    \E w \in Stages : Means(g, w) /\ Brings(more, g, w, y)
  <2> SUFFICES ASSUME NEW x \in Stages, NEW y \in Stages, Turn(Head(steps), g, x, y), Means(g, x)
               PROVE  \E w \in Stages : Means(g, w) /\ Brings(more, g, w, y)
    OBVIOUS
  <2>1. Tidy(g) => Unmarked(g)
    BY <1>2, <1>3, <1>7, <1>8, ParamsAre DEF Unmarked
  <2>2. Means(g, At0("settle"))
    BY <1>2, <1>7, <2>1, RangeMeans DEF At0, RangeStage
  <2>3. QED  BY <1>6, <1>7, <2>2, Zenon
<1>9. ASSUME changed \cap {P, High(g)} # {} /\ Local(g) /\ camera' = Dialled(P) /\ disturbed' = disturbed
               /\ changed' = changed /\ rounds' = rounds
      PROVE  \A x, y \in Stages : Turn(Head(steps), g, x, y) /\ Means(g, x) =>
                                    \E w \in Stages : Means(g, w)' /\ Brings(Run("clear", P, 0) \o more, g, w, y)
  <2> SUFFICES ASSUME NEW x \in Stages, NEW y \in Stages, Turn(Head(steps), g, x, y), Means(g, x)
               PROVE  \E w \in Stages : Means(g, w)' /\ Brings(Run("clear", P, 0) \o more, g, w, y)
    OBVIOUS
  <2>1. UNCHANGED <<one, registered, member, stored>>
    BY <1>3 DEF SetCamera, Aside
  <2>2. /\ (Live(g)' <=> Live(g)) /\ (Sound(g)' <=> Sound(g)) /\ (Agree(g)' <=> Agree(g)) /\ (Tidy(g)' <=> Tidy(g))
        /\ SavedRange(g)' <=> SavedRange(g)
    BY <1>9, <2>1 DEF Live, Tidy, Sound, Agree, SavedRange, Saved
  <2>3. HasRange(g)' /\ CarriedRange(g)'
    BY <1>4, <1>9, <2>1 DEF HasRange, CarriedRange, Carried
  <2>4. RangeStage(g, "marked", 0)'
    BY <1>7, <1>9, <2>2, <2>3 DEF RangeStage
  <2>5. Means(g, At0("marked"))'
    BY <1>2, <2>1, <2>4, RangeMeansNext DEF At0
  <2>6. QED  BY <1>6, <1>7, <2>5, Zenon
<1>10. QED
  <2>1. PICK marks : marks = {P, High(g)}
    OBVIOUS
  <2>2. SetCamera(marks, more) /\ marks \subseteq Family(FamilyOf(P))
    BY <1>1, <1>3, <2>1
  <2>3. changed \cap marks = {} =>
           \A x, y \in Stages : Turn(Head(steps), g, x, y) /\ Means(g, x) =>
                                  \E w \in Stages : Means(g, w) /\ Brings(more, g, w, y)
    BY <1>8, <2>1
  <2>4. changed \cap marks # {} /\ Local(g) /\ camera' = Dialled(P) /\ disturbed' = disturbed /\ changed' = changed
          /\ rounds' = rounds =>
           \A x, y \in Stages : Turn(Head(steps), g, x, y) /\ Means(g, x) =>
                                  \E w \in Stages : Means(g, w)' /\ Brings(Run("clear", P, 0) \o more, g, w, y)
    BY <1>9, <2>1
  <2>5. QED  BY <1>1, <1>2, <1>4, <2>2, <2>3, <2>4, SetStep

\* The steps at the white balance and at an image, each with its turn.
LEMMA WhiteRun ==
  ASSUME NEW op \in StepOps, NEW p \in {White, Temperature}, op = "set" => p = White,
         NEW x \in Stages, NEW y \in Stages, WhiteTurn(op, p, 0, x, y)
  PROVE  Brings(Run(op, p, 0), "wb", x, y)
<1>1. p \in OneParams /\ FamilyOf(p) = "wb" /\ "wb" \notin Ranged /\ "wb" \notin ImageFamilies
  BY ParamsAre DEF Family
<1>2. PICK e : e = [op |-> op, at |-> p, v |-> 0]
  OBVIOUS
<1>3. e.op = op /\ e.at = p /\ e.v = 0 /\ 0 \in Domain(White)
  BY <1>2 DEF Domain, White, Automatic
<1>4. Turn(e, "wb", x, y)
  BY <1>1, <1>3 DEF Turn, Concerns
<1>5. Leads(Run(op, p, 0), "wb", x, y)
  BY <1>1, <1>2, <1>3, <1>4, LeadsRun
<1>6. Within(Run(op, p, 0), "wb")
  BY <1>1, <1>3, WithinRun
<1>7. QED  BY <1>5, <1>6 DEF Brings

LEMMA WhiteRuns ==
  /\ Brings(Run("send", White, 0), "wb", At0("ready"), At0("balance"))
  /\ Brings(Run("clear", White, 0), "wb", At0("white"), At0("balance"))
  /\ Brings(Run("balance", Temperature, 0), "wb", At0("balance"), At0("idle"))
  /\ Brings(Run("send", Temperature, 0), "wb", At0("warm"), At0("fixed"))
  /\ Brings(Run("clear", Temperature, 0), "wb", At0("warmed"), At0("fixed"))
  /\ Brings(Run("set", White, 0), "wb", At0("fixed"), At0("idle"))
<1>1. \A k \in {"ready", "balance", "white", "idle", "warm", "fixed", "warmed"} : At0(k) \in Stages
  BY StagesAre
<1>2. {"send", "clear", "balance", "set"} \subseteq StepOps
  BY DEF StepOps
<1>3. /\ WhiteTurn("send", White, 0, At0("ready"), At0("balance"))
      /\ WhiteTurn("clear", White, 0, At0("white"), At0("balance"))
      /\ WhiteTurn("balance", Temperature, 0, At0("balance"), At0("idle"))
      /\ WhiteTurn("send", Temperature, 0, At0("warm"), At0("fixed"))
      /\ WhiteTurn("clear", Temperature, 0, At0("warmed"), At0("fixed"))
      /\ WhiteTurn("set", White, 0, At0("fixed"), At0("idle"))
  BY DEF WhiteTurn
<1>4. Brings(Run("send", White, 0), "wb", At0("ready"), At0("balance"))
  BY <1>1, <1>2, <1>3, WhiteRun
<1>5. Brings(Run("clear", White, 0), "wb", At0("white"), At0("balance"))
  BY <1>1, <1>2, <1>3, WhiteRun
<1>6. Brings(Run("balance", Temperature, 0), "wb", At0("balance"), At0("idle"))
  BY <1>1, <1>2, <1>3, WhiteRun
<1>7. Brings(Run("send", Temperature, 0), "wb", At0("warm"), At0("fixed"))
  BY <1>1, <1>2, <1>3, WhiteRun
<1>8. Brings(Run("clear", Temperature, 0), "wb", At0("warmed"), At0("fixed"))
  BY <1>1, <1>2, <1>3, WhiteRun
<1>9. Brings(Run("set", White, 0), "wb", At0("fixed"), At0("idle"))
  BY <1>1, <1>2, <1>3, WhiteRun
<1>10. QED  BY <1>4, <1>5, <1>6, <1>7, <1>8, <1>9

LEMMA ImageRuns ==
  ASSUME NEW f \in ImageFamilies
  PROVE  /\ Brings(Run("send", Picture(f), 0), f, At0("ready"), At0("idle"))
         /\ Brings(Run("clear", Picture(f), 0), f, At0("sent"), At0("idle"))
<1>1. Picture(f) \in OneParams /\ FamilyOf(Picture(f)) = f /\ f \notin Ranged /\ f # "wb"
  BY ParamsAre DEF Family
<1>2. At0("ready") \in Stages /\ At0("idle") \in Stages /\ At0("sent") \in Stages /\ {"send", "clear"} \subseteq StepOps
  BY StagesAre DEF StepOps
<1>3. ASSUME NEW op \in {"send", "clear"}, NEW x \in Stages, NEW y \in Stages, ImageTurn(op, x, y)
      PROVE  Brings(Run(op, Picture(f), 0), f, x, y)
  <2>1. PICK e : e = [op |-> op, at |-> Picture(f), v |-> 0]
    OBVIOUS
  <2>2. e.op = op /\ e.at = Picture(f) /\ e.v = 0 /\ op # "set" /\ op \in StepOps
    BY <1>2, <2>1
  <2>3. Turn(e, f, x, y)
    BY <1>1, <1>3, <2>2 DEF Turn, Concerns
  <2>4. Leads(Run(op, Picture(f), 0), f, x, y)
    BY <1>1, <2>1, <2>2, <2>3, LeadsRun
  <2>5. Within(Run(op, Picture(f), 0), f)
    BY <1>1, <2>2, WithinRun
  <2>6. QED  BY <2>4, <2>5 DEF Brings
<1>4. ImageTurn("send", At0("ready"), At0("idle")) /\ ImageTurn("clear", At0("sent"), At0("idle"))
  BY DEF ImageTurn
<1>5. QED  BY <1>2, <1>3, <1>4

LEMMA WhiteTurnIs ==
  ASSUME "wb" = FamilyOf(P), NEW x, NEW y, Turn(Head(steps), "wb", x, y)
  PROVE  WhiteTurn(Head(steps).op, P, Head(steps).v, x, y)
<1>1. Concerns(Head(steps), "wb") /\ Head(steps).at = P
  BY DEF Concerns, P
<1>2. QED  BY <1>1, ParamsAre DEF Turn

LEMMA ImageTurnIs ==
  ASSUME NEW f \in ImageFamilies, f = FamilyOf(P), NEW x, NEW y, Turn(Head(steps), f, x, y)
  PROVE  ImageTurn(Head(steps).op, x, y)
<1>1. Concerns(Head(steps), f)
  BY DEF Concerns, P
<1>2. QED  BY <1>1, ParamsAre DEF Turn

\* The stages of the white balance and of an image.
LEMMA WhiteMeans ==
  ASSUME NEW x
  PROVE  /\ Means("wb", x) <=> /\ x[1] = "idle" => Idle1("wb")
                               /\ x[1] = "ready" => (Sound("wb") => WaitsWhite)
                               /\ WhiteStage(x[1])
         /\ Means("wb", x)' <=> /\ x[1] = "idle" => Idle1("wb")'
                                /\ x[1] = "ready" => (Sound("wb")' => WaitsWhite')
                                /\ WhiteStage(x[1])'
         /\ "wb" \in Families /\ Waits("wb") = WaitsWhite /\ Waits("wb")' = WaitsWhite'
<1>1. "wb" # "sensors" /\ "wb" \notin Ranged /\ "wb" \notin ImageFamilies /\ "wb" \in Families
  BY ParamsAre DEF Families
<1>2. Waits("wb") = WaitsWhite /\ Waits("wb")' = WaitsWhite' /\ Ready("wb") /\ Ready("wb")'
  BY <1>1 DEF Waits, WaitsWhite, Ready
<1>3. QED  BY <1>1, <1>2 DEF Means

LEMMA ImageMeans ==
  ASSUME NEW f \in ImageFamilies, NEW x
  PROVE  /\ Means(f, x) <=> /\ x[1] = "idle" => Idle1(f)
                            /\ x[1] = "ready" => (Sound(f) => Waits(f))
                            /\ x[1] = "sent" /\ Sound(f) => Waits(f) /\ camera[Picture(f)] = member[Picture(f)]
         /\ Means(f, x)' <=> /\ x[1] = "idle" => Idle1(f)'
                             /\ x[1] = "ready" => (Sound(f)' => Waits(f)')
                             /\ x[1] = "sent" /\ Sound(f)' => Waits(f)' /\ camera'[Picture(f)] = member'[Picture(f)]
         /\ f \in Families /\ Waits(f) = (Carried(Picture(f)) /\ Saved(Picture(f)))
         /\ Waits(f)' = (Carried(Picture(f))' /\ Saved(Picture(f))')
         /\ Arrived(f) = (Waits(f) /\ Unmarked(f)) /\ Arrived(f)' = (Waits(f)' /\ Unmarked(f)')
<1>1. f # "sensors" /\ f \notin Ranged /\ f # "wb" /\ f \in Families
  BY ParamsAre DEF Families
<1>2. Ready(f) /\ Ready(f)' /\ Arrived(f) = (Waits(f) /\ Unmarked(f)) /\ Arrived(f)' = (Waits(f)' /\ Unmarked(f)')
  BY <1>1 DEF Ready, Arrived
<1>3. Waits(f) = (Carried(Picture(f)) /\ Saved(Picture(f))) /\ Waits(f)' = (Carried(Picture(f))' /\ Saved(Picture(f))')
  BY <1>1 DEF Waits
<1>4. QED  BY <1>1, <1>2, <1>3 DEF Means

\* setVideoSetting for the manual value of a range ...
LEMMA SendValue ==
  ASSUME OneInd, SetVideoSetting, NEW g \in Ranged, g = FamilyOf(P)
  PROVE  OneInd'
<1>1. steps # <<>> /\ Head(steps).op = "send" /\ g \in one.ranged /\ g \in Families /\ P[1] = g /\ SetCamera({P}, <<>>)
      /\ P \in OneParams
  BY StepOf, StepIs DEF SetVideoSetting, Now
<1>2. ASSUME NEW x \in Stages, NEW y \in Stages, Turn(Head(steps), g, x, y), Means(g, x)
      PROVE  /\ y = At0("forced") /\ P[2] = "value"
             /\ Manual0(g) /\ (Sound(g) => WaitsRange(g))
  <2>1. x = At0("manual") /\ y = At0("forced") /\ P[2] = "value"
    BY <1>1, <1>2, RangeTurnIs DEF RangeTurn
  <2>2. QED  BY <1>1, <1>2, <2>1, RangeMeans DEF At0, RangeStage
<1>3. P = Value(g) /\ {P} \subseteq Family(g)
  <2>1. P[2] = "value"
    BY <1>1, <1>2, StepIs
  <2>2. P \in {Automatic(g), Value(g), Low(g), High(g)}
    BY <1>1, ParamsAre DEF Family
  <2>3. P = Value(g)
    BY <2>1, <2>2 DEF Automatic, Value, Low, High
  <2>4. QED  BY <2>2, <2>3, ParamsAre
<1>4. /\ Dialled(P) \in [Dials -> Int] /\ \A p \in Dials : Dialled(P)[p] \in Domain(p) \cup {Own}
      /\ \A p \in Dials \ Family(g) : Dialled(P)[p] = camera[p]
      /\ Dialled(P)[Low(g)] = member[Value(g)] /\ Dialled(P)[High(g)] = member[Value(g)]
  BY <1>3, DialledRange DEF OneInd
<1>5. Lo \in Lo..Hi
  BY ModeTyped DEF OneInd
<1>6. PICK next : next = Run("clear", P, 0) \o <<>>
  OBVIOUS
<1>7. /\ Brings(next, g, At0("valued"), At0("forced"))
      /\ Brings(<<>>, g, At0("forced"), At0("forced"))
      /\ At0("forced") \in Stages /\ At0("valued") \in Stages
  <2>1. At0("forced") \in Stages /\ At0("valued") \in Stages
    BY StagesAre
  <2>2. Brings(Run("clear", Value(g), 0), g, At0("valued"), At0("forced"))
          /\ Brings(<<>>, g, At0("forced"), At0("forced"))
    BY <1>5, <2>1, RangeRuns, BringsNone
  <2>3. QED  BY <1>3, <1>6, <2>1, <2>2, BringsPush
<1>8. ASSUME changed \cap {P} = {}
      PROVE  \A x, y \in Stages : Turn(Head(steps), g, x, y) /\ Means(g, x) =>
                                    \E w \in Stages : Means(g, w) /\ Brings(<<>>, g, w, y)
  <2> SUFFICES ASSUME NEW x \in Stages, NEW y \in Stages, Turn(Head(steps), g, x, y), Means(g, x)
               PROVE  \E w \in Stages : Means(g, w) /\ Brings(<<>>, g, w, y)
    OBVIOUS
  <2>1. Sound(g) => CarriedRange(g)
    BY <1>2, <1>3, <1>8 DEF WaitsRange, CarriedRange, Carried
  <2>2. Means(g, At0("forced"))
    BY <1>1, <1>2, <2>1, RangeMeans DEF At0, RangeStage
  <2>3. QED  BY <1>2, <1>7, <2>2, Zenon
<1>9. ASSUME changed \cap {P} # {} /\ Local(g) /\ camera' = Dialled(P) /\ disturbed' = disturbed
               /\ changed' = changed /\ rounds' = rounds
      PROVE  \A x, y \in Stages : Turn(Head(steps), g, x, y) /\ Means(g, x) =>
                                    \E w \in Stages : Means(g, w)' /\ Brings(next, g, w, y)
  <2> SUFFICES ASSUME NEW x \in Stages, NEW y \in Stages, Turn(Head(steps), g, x, y), Means(g, x)
               PROVE  \E w \in Stages : Means(g, w)' /\ Brings(next, g, w, y)
    OBVIOUS
  <2>1. UNCHANGED <<one, registered, member, stored>>
    BY <1>1 DEF SetCamera, Aside
  <2>2. (Live(g)' <=> Live(g)) /\ (Sound(g)' <=> Sound(g)) /\ (Manual0(g)' <=> Manual0(g)) /\ (Sound(g) => Live(g))
    BY <1>9, <2>1 DEF Live, Sound, Manual0
  <2>3. Sound(g)' => CarriedRange(g)'
    <3>1. Sound(g) => WaitsRange(g) /\ member[Automatic(g)] = 0
      BY <1>2, <2>2 DEF Manual0
    <3>2. \A p \in {Low(g), High(g)} : Sound(g) => p \in changed \/ member[p] = member[Value(g)]
      BY <1>3, <1>9, <3>1 DEF WaitsRange
    <3>3. QED  BY <1>4, <1>9, <2>1, <2>2, <3>2 DEF CarriedRange, Carried
  <2>4. RangeStage(g, "valued", 0)'
    BY <1>2, <2>2, <2>3 DEF RangeStage
  <2>5. Means(g, At0("valued"))'
    BY <1>1, <2>1, <2>4, RangeMeansNext DEF At0
  <2>6. QED  BY <1>2, <1>7, <2>5, Zenon
<1>10. PICK marks, none : marks = {P} /\ none = <<>>
  OBVIOUS
<1>11. SetCamera(marks, none) /\ marks \subseteq Family(FamilyOf(P))
  BY <1>1, <1>3, <1>10
<1>12. changed \cap marks = {} =>
         \A x, y \in Stages : Turn(Head(steps), g, x, y) /\ Means(g, x) =>
                                \E w \in Stages : Means(g, w) /\ Brings(none, g, w, y)
  BY <1>8, <1>10
<1>13. changed \cap marks # {} /\ Local(g) /\ camera' = Dialled(P) /\ disturbed' = disturbed /\ changed' = changed
         /\ rounds' = rounds =>
         \A x, y \in Stages : Turn(Head(steps), g, x, y) /\ Means(g, x) =>
                                \E w \in Stages : Means(g, w)' /\ Brings(Run("clear", P, 0) \o none, g, w, y)
  BY <1>6, <1>9, <1>10
<1>14. QED  BY <1>1, <1>4, <1>11, <1>12, <1>13, SetStep

\* ... for the white balance, ...
LEMMA SendWhite ==
  ASSUME OneInd, SetVideoSetting, P = White, NEW g, g = "wb"
  PROVE  OneInd'
<1>1. /\ steps # <<>> /\ Head(steps).op = "send" /\ SetCamera({P}, <<>>) /\ P \in OneParams
      /\ g = FamilyOf(P) /\ g \in Families /\ g \notin Ranged
  <2>1. White \in Family("wb")
    BY ParamsAre
  <2>2. QED  BY <2>1, StepIs, ParamsAre, WhiteMeans DEF SetVideoSetting, Now, Family
<1>2. ASSUME NEW x \in Stages, NEW y \in Stages, Turn(Head(steps), g, x, y), Means(g, x)
      PROVE  y = At0("balance") /\ (Sound(g) => WaitsWhite)
  <2>1. P # Temperature
    BY DEF White, Automatic, Temperature
  <2>2. x = At0("ready") /\ y = At0("balance")
    BY <1>1, <1>2, <2>1, WhiteTurnIs DEF WhiteTurn
  <2>3. QED  BY <1>1, <1>2, <2>2, WhiteMeans DEF At0
<1>3. {P} \subseteq Family(g) /\ member[White] \in {0, 1}
  BY ParamsAre, ModeTyped DEF OneInd
<1>4. /\ Dialled(P) \in [Dials -> Int] /\ \A p \in Dials : Dialled(P)[p] \in Domain(p) \cup {Own}
      /\ \A p \in Dials \ Family(g) : Dialled(P)[p] = camera[p]
      /\ Dialled(P)[White] = member[White]
      /\ Dialled(P)[Temperature] = IF member[White] = 1 THEN Own ELSE camera[Temperature]
  BY <1>1, DialledWhite DEF OneInd
<1>6. PICK next : next = Run("clear", P, 0) \o <<>>
  OBVIOUS
<1>7. /\ Brings(next, g, At0("white"), At0("balance"))
      /\ Brings(<<>>, g, At0("balance"), At0("balance"))
      /\ At0("white") \in Stages /\ At0("balance") \in Stages
  <2>1. At0("white") \in Stages /\ At0("balance") \in Stages
    BY StagesAre
  <2>2. Brings(Run("clear", White, 0), g, At0("white"), At0("balance"))
          /\ Brings(<<>>, g, At0("balance"), At0("balance"))
    BY <2>1, WhiteRuns, BringsNone
  <2>3. QED  BY <1>3, <1>6, <2>1, <2>2, BringsPush
<1>8. ASSUME changed \cap {P} = {}
      PROVE  \A x, y \in Stages : Turn(Head(steps), g, x, y) /\ Means(g, x) =>
                                    \E w \in Stages : Means(g, w) /\ Brings(<<>>, g, w, y)
  <2> SUFFICES ASSUME NEW x \in Stages, NEW y \in Stages, Turn(Head(steps), g, x, y), Means(g, x)
               PROVE  \E w \in Stages : Means(g, w) /\ Brings(<<>>, g, w, y)
    OBVIOUS
  <2>1. White \notin changed /\ (Sound(g) => WaitsWhite /\ (Warm \/ member[White] = 0))
    BY <1>2, <1>3, <1>8 DEF WaitsWhite
  <2>2. Means(g, At0("balance"))
    BY <2>1, WhiteMeans DEF At0, WhiteStage
  <2>3. QED  BY <1>2, <1>7, <2>2, Zenon
<1>9. ASSUME changed \cap {P} # {} /\ Local(g) /\ camera' = Dialled(P) /\ disturbed' = disturbed
               /\ changed' = changed /\ rounds' = rounds
      PROVE  \A x, y \in Stages : Turn(Head(steps), g, x, y) /\ Means(g, x) =>
                                    \E w \in Stages : Means(g, w)' /\ Brings(next, g, w, y)
  <2> SUFFICES ASSUME NEW x \in Stages, NEW y \in Stages, Turn(Head(steps), g, x, y), Means(g, x)
               PROVE  \E w \in Stages : Means(g, w)' /\ Brings(next, g, w, y)
    OBVIOUS
  <2>1. UNCHANGED <<one, registered, member, stored>> /\ White \in changed
    BY <1>1, <1>9 DEF SetCamera, Aside
  <2>2. Sound(g)' <=> Sound(g)
    BY <1>9 DEF Sound
  <2>3. Sound(g)' => WaitsWhite' /\ camera'[White] = member'[White] /\ (Warm' \/ member'[White] = 0)
    <3>1. Sound(g) => Warm' \/ (member[White] = 0 /\ Warm) \/ (member[White] = 0 /\ Temperature \in changed)
      BY <1>2, <1>3, <1>4, <1>9, <2>1 DEF WaitsWhite, Warm
    <3>2. member[White] = 0 => (Warm' <=> Warm)
      BY <1>4, <1>9, <2>1 DEF Warm
    <3>3. QED  BY <1>2, <1>4, <1>9, <2>1, <2>2, <3>1, <3>2 DEF WaitsWhite, Carried, Saved
  <2>4. Means(g, At0("white"))'
    BY <2>3, WhiteMeans DEF At0, WhiteStage
  <2>5. QED  BY <1>2, <1>7, <2>4, Zenon
<1>10. PICK marks, none : marks = {P} /\ none = <<>>
  OBVIOUS
<1>11. SetCamera(marks, none) /\ marks \subseteq Family(FamilyOf(P))
  BY <1>1, <1>3, <1>10
<1>12. changed \cap marks = {} =>
         \A x, y \in Stages : Turn(Head(steps), g, x, y) /\ Means(g, x) =>
                                \E w \in Stages : Means(g, w) /\ Brings(none, g, w, y)
  BY <1>8, <1>10
<1>13. changed \cap marks # {} /\ Local(g) /\ camera' = Dialled(P) /\ disturbed' = disturbed /\ changed' = changed
         /\ rounds' = rounds =>
         \A x, y \in Stages : Turn(Head(steps), g, x, y) /\ Means(g, x) =>
                                \E w \in Stages : Means(g, w)' /\ Brings(Run("clear", P, 0) \o none, g, w, y)
  BY <1>6, <1>9, <1>10
<1>14. QED  BY <1>1, <1>4, <1>11, <1>12, <1>13, SetStep

LEMMA SendTemperature ==
  ASSUME OneInd, SetVideoSetting, P = Temperature, NEW g, g = "wb"
  PROVE  OneInd'
<1>1. /\ steps # <<>> /\ Head(steps).op = "send" /\ SetCamera({P}, <<>>) /\ P \in OneParams
      /\ g = FamilyOf(P) /\ g \in Families /\ g \notin Ranged
  <2>1. Temperature \in Family("wb")
    BY ParamsAre
  <2>2. QED  BY <2>1, StepIs, ParamsAre, WhiteMeans DEF SetVideoSetting, Now, Family
<1>2. ASSUME NEW x \in Stages, NEW y \in Stages, Turn(Head(steps), g, x, y), Means(g, x)
      PROVE  /\ y = At0("fixed") /\ (Sound(g) => WaitsWhite)
             /\ White0(g) => White \notin changed /\ member[White] = 0
  <2>1. P # White
    BY DEF White, Automatic, Temperature
  <2>2. x = At0("warm") /\ y = At0("fixed")
    BY <1>1, <1>2, <2>1, WhiteTurnIs DEF WhiteTurn
  <2>3. QED  BY <1>1, <1>2, <2>2, WhiteMeans DEF At0, WhiteStage
<1>3. {P} \subseteq Family(g) /\ member[White] \in {0, 1}
  BY ParamsAre, ModeTyped DEF OneInd
<1>4. /\ Dialled(P) \in [Dials -> Int] /\ \A p \in Dials : Dialled(P)[p] \in Domain(p) \cup {Own}
      /\ \A p \in Dials \ Family(g) : Dialled(P)[p] = camera[p]
      /\ Dialled(P)[White] = 0 /\ Dialled(P)[Temperature] = member[Temperature]
  BY <1>1, DialledWhite DEF OneInd
<1>6. PICK next : next = Run("clear", P, 0) \o <<>>
  OBVIOUS
<1>7. /\ Brings(next, g, At0("warmed"), At0("fixed"))
      /\ Brings(<<>>, g, At0("fixed"), At0("fixed"))
      /\ At0("warmed") \in Stages /\ At0("fixed") \in Stages
  <2>1. At0("warmed") \in Stages /\ At0("fixed") \in Stages
    BY StagesAre
  <2>2. Brings(Run("clear", Temperature, 0), g, At0("warmed"), At0("fixed"))
          /\ Brings(<<>>, g, At0("fixed"), At0("fixed"))
    BY <2>1, WhiteRuns, BringsNone
  <2>3. QED  BY <1>3, <1>6, <2>1, <2>2, BringsPush
<1>8. ASSUME changed \cap {P} = {}
      PROVE  \A x, y \in Stages : Turn(Head(steps), g, x, y) /\ Means(g, x) =>
                                    \E w \in Stages : Means(g, w) /\ Brings(<<>>, g, w, y)
  <2> SUFFICES ASSUME NEW x \in Stages, NEW y \in Stages, Turn(Head(steps), g, x, y), Means(g, x)
               PROVE  \E w \in Stages : Means(g, w) /\ Brings(<<>>, g, w, y)
    OBVIOUS
  <2>1. Temperature \notin changed
    BY <1>8
  <2>2. Means(g, At0("fixed"))
    BY <1>2, <2>1, WhiteMeans DEF At0, WhiteStage
  <2>3. QED  BY <1>2, <1>7, <2>2, Zenon
<1>9. ASSUME changed \cap {P} # {} /\ Local(g) /\ camera' = Dialled(P) /\ disturbed' = disturbed
               /\ changed' = changed /\ rounds' = rounds
      PROVE  \A x, y \in Stages : Turn(Head(steps), g, x, y) /\ Means(g, x) =>
                                    \E w \in Stages : Means(g, w)' /\ Brings(next, g, w, y)
  <2> SUFFICES ASSUME NEW x \in Stages, NEW y \in Stages, Turn(Head(steps), g, x, y), Means(g, x)
               PROVE  \E w \in Stages : Means(g, w)' /\ Brings(next, g, w, y)
    OBVIOUS
  <2>1. UNCHANGED <<one, registered, member, stored, changed>>
    BY <1>1, <1>9 DEF SetCamera, Aside
  <2>2. (Sound(g)' <=> Sound(g)) /\ (White0(g)' <=> White0(g)) /\ (Sound(g) => White0(g))
    BY <1>9 DEF Sound, White0
  <2>3. Warm' /\ camera'[White] = 0
    BY <1>4, <1>9, <2>1 DEF Warm
  <2>4. Sound(g)' => WaitsWhite'
    BY <1>2, <2>1, <2>2, <2>3 DEF WaitsWhite, Carried, Saved
  <2>5. WhiteStage("warmed")'
    BY <1>2, <2>1, <2>2, <2>3, <2>4 DEF WhiteStage
  <2>6. Means(g, At0("warmed"))'
    BY <2>5, WhiteMeans DEF At0
  <2>7. QED  BY <1>2, <1>7, <2>6, Zenon
<1>10. PICK marks, none : marks = {P} /\ none = <<>>
  OBVIOUS
<1>11. SetCamera(marks, none) /\ marks \subseteq Family(FamilyOf(P))
  BY <1>1, <1>3, <1>10
<1>12. changed \cap marks = {} =>
         \A x, y \in Stages : Turn(Head(steps), g, x, y) /\ Means(g, x) =>
                                \E w \in Stages : Means(g, w) /\ Brings(none, g, w, y)
  BY <1>8, <1>10
<1>13. changed \cap marks # {} /\ Local(g) /\ camera' = Dialled(P) /\ disturbed' = disturbed /\ changed' = changed
         /\ rounds' = rounds =>
         \A x, y \in Stages : Turn(Head(steps), g, x, y) /\ Means(g, x) =>
                                \E w \in Stages : Means(g, w)' /\ Brings(Run("clear", P, 0) \o none, g, w, y)
  BY <1>6, <1>9, <1>10
<1>14. QED  BY <1>1, <1>4, <1>11, <1>12, <1>13, SetStep

\* ... and for an image.
LEMMA SendImage ==
  ASSUME OneInd, SetVideoSetting, NEW g \in ImageFamilies, P = Picture(g)
  PROVE  OneInd'
<1>1. /\ steps # <<>> /\ Head(steps).op = "send" /\ SetCamera({P}, <<>>) /\ P \in OneParams
      /\ g = FamilyOf(P) /\ g \in Families /\ g \notin Ranged
  <2>1. Picture(g) \in Family(g)
    BY ParamsAre
  <2>2. QED  BY <2>1, StepIs, ParamsAre, ImageMeans DEF SetVideoSetting, Now, Family
<1>2. ASSUME NEW x \in Stages, NEW y \in Stages, Turn(Head(steps), g, x, y), Means(g, x)
      PROVE  y = At0("idle") /\ (Sound(g) => Waits(g))
  <2>1. x = At0("ready") /\ y = At0("idle")
    BY <1>1, <1>2, ImageTurnIs DEF ImageTurn
  <2>2. QED  BY <1>1, <1>2, <2>1, ImageMeans DEF At0
<1>3. {P} = Family(g) /\ {P} \subseteq Family(g)
  BY ParamsAre
<1>4. /\ Dialled(P) \in [Dials -> Int] /\ \A p \in Dials : Dialled(P)[p] \in Domain(p) \cup {Own}
      /\ \A p \in Dials \ Family(g) : Dialled(P)[p] = camera[p]
      /\ Dialled(P)[P] = member[P]
  BY DialledImage DEF OneInd
<1>6. PICK next : next = Run("clear", P, 0) \o <<>>
  OBVIOUS
<1>7. /\ Brings(next, g, At0("sent"), At0("idle"))
      /\ Brings(<<>>, g, At0("idle"), At0("idle"))
      /\ At0("sent") \in Stages /\ At0("idle") \in Stages
  <2>1. At0("sent") \in Stages /\ At0("idle") \in Stages
    BY StagesAre
  <2>2. Brings(Run("clear", P, 0), g, At0("sent"), At0("idle")) /\ Brings(<<>>, g, At0("idle"), At0("idle"))
    BY <2>1, ImageRuns, BringsNone
  <2>3. QED  BY <1>6, <2>1, <2>2, BringsPush
<1>8. ASSUME changed \cap {P} = {}
      PROVE  \A x, y \in Stages : Turn(Head(steps), g, x, y) /\ Means(g, x) =>
                                    \E w \in Stages : Means(g, w) /\ Brings(<<>>, g, w, y)
  <2> SUFFICES ASSUME NEW x \in Stages, NEW y \in Stages, Turn(Head(steps), g, x, y), Means(g, x)
               PROVE  \E w \in Stages : Means(g, w) /\ Brings(<<>>, g, w, y)
    OBVIOUS
  <2>1. Unmarked(g)
    BY <1>3, <1>8 DEF Unmarked
  <2>2. Sound(g) => Arrived(g)
    BY <1>2, <2>1, ImageMeans
  <2>3. Means(g, At0("idle"))
    BY <1>1, <2>1, <2>2, ImageMeans DEF At0, Idle1
  <2>4. QED  BY <1>2, <1>7, <2>3, Zenon
<1>9. ASSUME changed \cap {P} # {} /\ Local(g) /\ camera' = Dialled(P) /\ disturbed' = disturbed
               /\ changed' = changed /\ rounds' = rounds
      PROVE  \A x, y \in Stages : Turn(Head(steps), g, x, y) /\ Means(g, x) =>
                                    \E w \in Stages : Means(g, w)' /\ Brings(next, g, w, y)
  <2> SUFFICES ASSUME NEW x \in Stages, NEW y \in Stages, Turn(Head(steps), g, x, y), Means(g, x)
               PROVE  \E w \in Stages : Means(g, w)' /\ Brings(next, g, w, y)
    OBVIOUS
  <2>1. UNCHANGED <<one, registered, member, stored, changed>>
    BY <1>1, <1>9 DEF SetCamera, Aside
  <2>2. Sound(g)' <=> Sound(g)
    BY <1>9 DEF Sound
  <2>3. camera'[Picture(g)] = member'[Picture(g)]
    BY <1>4, <1>9, <2>1
  <2>4. Sound(g)' => Waits(g)'
    BY <1>2, <2>1, <2>2, <2>3, ImageMeans DEF Carried, Saved
  <2>5. Means(g, At0("sent"))'
    BY <2>3, <2>4, ImageMeans DEF At0
  <2>6. QED  BY <1>2, <1>7, <2>5, Zenon
<1>10. PICK marks, none : marks = {P} /\ none = <<>>
  OBVIOUS
<1>11. SetCamera(marks, none) /\ marks \subseteq Family(FamilyOf(P))
  BY <1>1, <1>3, <1>10
<1>12. changed \cap marks = {} =>
         \A x, y \in Stages : Turn(Head(steps), g, x, y) /\ Means(g, x) =>
                                \E w \in Stages : Means(g, w) /\ Brings(none, g, w, y)
  BY <1>8, <1>10
<1>13. changed \cap marks # {} /\ Local(g) /\ camera' = Dialled(P) /\ disturbed' = disturbed /\ changed' = changed
         /\ rounds' = rounds =>
         \A x, y \in Stages : Turn(Head(steps), g, x, y) /\ Means(g, x) =>
                                \E w \in Stages : Means(g, w)' /\ Brings(Run("clear", P, 0) \o none, g, w, y)
  BY <1>6, <1>9, <1>10
<1>14. QED  BY <1>1, <1>4, <1>11, <1>12, <1>13, SetStep

LEMMA SetVideoSettingInd == OneInd /\ SetVideoSetting => OneInd'
<1> SUFFICES ASSUME OneInd, SetVideoSetting PROVE OneInd'
  OBVIOUS
<1>1. PICK g : g = FamilyOf(P)
  OBVIOUS
<1>2. g \in Families /\ P \in Family(g)
  BY <1>1, StepOf, StepIs DEF SetVideoSetting, Now, Family
<1>3. CASE g \in Ranged
  BY <1>1, <1>3, SendValue
<1>4. CASE g = "wb"
  BY <1>2, <1>4, ParamsAre, SendWhite, SendTemperature
<1>5. CASE g \in ImageFamilies
  BY <1>2, <1>5, ParamsAre, SendImage
<1>6. QED  BY <1>2, <1>3, <1>4, <1>5, InFamily

\* A step that takes marks of a family off.
LEMMA MarksStep ==
  ASSUME OneInd, steps # <<>>, NEW next, steps' = next \o Tail(steps), Aside,
         UNCHANGED <<member, stored, due, camera, disturbed, rounds, oneRefusals>>,
         NEW g \in Families, g = FamilyOf(P), NEW marks \in SUBSET Family(g), changed' = changed \ marks,
         \A x, y \in Stages : Turn(Head(steps), g, x, y) /\ Means(g, x) =>
                                \E w \in Stages : Means(g, w)' /\ Brings(next, g, w, y)
  PROVE  OneInd'
<1>1. Local(g)
  BY DEF Local, Aside
<1>2. changed' \subseteq Flagged /\ due' \in BOOLEAN /\ disturbed' \subseteq OneParams
        /\ oneRefusals' \in 0..MaxOneRefusals
  BY DEF OneInd, OneTyped, OneSettingsTypeOK
<1>3. camera' \in [Dials -> Int] /\ \A p \in Dials : camera'[p] \in Domain(p) \cup {Own}
  BY CameraStays DEF OneInd
<1>4. UNCHANGED <<member, stored>>
  OBVIOUS
<1>5. QED  BY <1>1, <1>2, <1>3, <1>4, QuietStep

LEMMA ClearValue ==
  ASSUME OneInd, ClearMark, NEW g \in Ranged, g = FamilyOf(P)
  PROVE  OneInd'
<1>1. /\ steps # <<>> /\ Head(steps).op = "clear" /\ g \in one.ranged /\ g \in Families /\ P[1] = g
      /\ P \in OneParams
  BY StepOf, StepIs DEF ClearMark, Now
<1>2. PICK marks : marks = IF P[2] = "min" THEN {P, High(P[1])} ELSE {P}
  OBVIOUS
<1>3. /\ steps' = <<>> \o Tail(steps) /\ Aside /\ changed' = changed \ marks
      /\ UNCHANGED <<member, stored, due, camera, disturbed, rounds, oneRefusals>>
  BY <1>2 DEF ClearMark, Then
<1>4. /\ P \in {Automatic(g), Value(g), Low(g), High(g)} /\ Family(g) = {Automatic(g), Value(g), Low(g), High(g)}
      /\ P[2] = "min" => P = Low(g)
      /\ P[2] = "value" => P = Value(g)
      /\ Value(g) \notin {Low(g), High(g)}
  <2>1. P \in {Automatic(g), Value(g), Low(g), High(g)} /\ Family(g) = {Automatic(g), Value(g), Low(g), High(g)}
    BY <1>1, ParamsAre DEF Family
  <2>2. QED  BY <2>1 DEF Automatic, Value, Low, High
<1>5. marks \subseteq Family(g) /\ (P[2] = "min" => marks = {Low(g), High(g)}) /\ (P[2] = "value" => marks = {Value(g)})
  BY <1>1, <1>2, <1>4
<1>6. ASSUME NEW x \in Stages, NEW y \in Stages, Turn(Head(steps), g, x, y) /\ Means(g, x)
      PROVE  \E w \in Stages : Means(g, w)' /\ Brings(<<>>, g, w, y)
  <2>1. RangeStage(g, x[1], x[2]) /\ Brings(<<>>, g, y, y)
    BY <1>1, <1>6, RangeMeans, BringsNone
  <2>2. \/ P[2] = "value" /\ x = At0("valued") /\ y = At0("forced")
        \/ P[2] = "min" /\ x = At0("marked") /\ y = At0("settle")
    BY <1>1, <1>6, RangeTurnIs DEF RangeTurn
  <2>3. /\ (Live(g)' <=> Live(g)) /\ (Sound(g)' <=> Sound(g)) /\ (Tidy(g)' <=> Tidy(g)) /\ (Agree(g)' <=> Agree(g))
        /\ (SavedRange(g)' <=> SavedRange(g)) /\ (Manual0(g)' <=> Manual0(g)) /\ (HasRange(g)' <=> HasRange(g))
    BY <1>3 DEF Live, Tidy, Sound, Agree, SavedRange, Saved, Manual0, HasRange, Aside
  <2>4. CASE P[2] = "value"
    <3>1. Manual0(g) /\ (Sound(g) => CarriedRange(g))
      BY <2>1, <2>2, <2>4 DEF RangeStage, At0
    <3>2. CarriedRange(g) => CarriedRange(g)'
      BY <1>3, <1>4, <1>5, <2>4 DEF CarriedRange, Carried
    <3>3. RangeStage(g, "forced", 0)'
      BY <2>3, <3>1, <3>2 DEF RangeStage
    <3>4. Means(g, At0("forced"))'
      BY <1>1, <1>3, <3>3, RangeMeansNext DEF At0, Aside
    <3>5. QED  BY <2>1, <2>2, <2>4, <3>4, Zenon
  <2>5. CASE P[2] = "min"
    <3>1. /\ (Live(g) => Agree(g)) /\ (Sound(g) => SavedRange(g) /\ HasRange(g))
          /\ Tidy(g) => Automatic(g) \notin changed /\ Value(g) \notin changed
      BY <2>1, <2>2, <2>5 DEF RangeStage, At0
    <3>2. HasRange(g)' => CarriedRange(g)'
      BY DEF HasRange, CarriedRange, Carried
    <3>3. Tidy(g) => Unmarked(g)'
      BY <1>3, <1>4, <1>5, <2>5, <3>1 DEF Unmarked
    <3>4. RangeStage(g, "settle", 0)'
      BY <2>3, <3>1, <3>2, <3>3 DEF RangeStage
    <3>5. Means(g, At0("settle"))'
      BY <1>1, <1>3, <3>4, RangeMeansNext DEF At0, Aside
    <3>6. QED  BY <2>1, <2>2, <2>5, <3>5, Zenon
  <2>6. QED  BY <2>2, <2>4, <2>5
<1>7. \A x, y \in Stages : Turn(Head(steps), g, x, y) /\ Means(g, x) =>
                             \E w \in Stages : Means(g, w)' /\ Brings(<<>>, g, w, y)
  BY <1>6, Zenon
<1>8. QED
  <2>1. PICK none : none = <<>>
    OBVIOUS
  <2>2. steps' = none \o Tail(steps)
    BY <1>3, <2>1
  <2>3. \A x, y \in Stages : Turn(Head(steps), g, x, y) /\ Means(g, x) =>
                               \E w \in Stages : Means(g, w)' /\ Brings(none, g, w, y)
    BY <1>7, <2>1
  <2>4. QED  BY <1>1, <1>3, <1>5, <2>2, <2>3, MarksStep

LEMMA ClearWhite ==
  ASSUME OneInd, ClearMark, NEW g, g = "wb", g = FamilyOf(P)
  PROVE  OneInd'
<1>1. /\ steps # <<>> /\ Head(steps).op = "clear" /\ g \in Families /\ P \in {White, Temperature}
      /\ Family(g) = {White, Temperature} /\ White # Temperature /\ P[2] # "min"
  <2>1. P \in Family(g)
    BY StepIs DEF ClearMark, Now, Family
  <2>2. Family(g) = {White, Temperature} /\ White # Temperature /\ White[2] # "min" /\ Temperature[2] # "min"
    BY ParamsAre DEF White, Automatic, Temperature
  <2>3. QED  BY <2>1, <2>2, WhiteMeans DEF ClearMark, Now
<1>2. /\ steps' = <<>> \o Tail(steps) /\ Aside /\ changed' = changed \ {P}
      /\ UNCHANGED <<member, stored, due, camera, disturbed, rounds, oneRefusals>>
  BY <1>1 DEF ClearMark, Then
<1>3. member[White] \in {0, 1}
  BY ModeTyped DEF OneInd
<1>4. ASSUME NEW x \in Stages, NEW y \in Stages, Turn(Head(steps), g, x, y) /\ Means(g, x)
      PROVE  \E w \in Stages : Means(g, w)' /\ Brings(<<>>, g, w, y)
  <2>1. WhiteStage(x[1]) /\ Brings(<<>>, g, y, y)
    BY <1>1, <1>4, WhiteMeans, BringsNone
  <2>2. \/ P = White /\ x = At0("white") /\ y = At0("balance")
        \/ P = Temperature /\ x = At0("warmed") /\ y = At0("fixed")
    BY <1>1, <1>4, WhiteTurnIs DEF WhiteTurn
  <2>3. (Sound(g)' <=> Sound(g)) /\ (Warm' <=> Warm) /\ (White0(g)' <=> White0(g)) /\ (Sound(g) => White0(g))
    BY <1>2 DEF Sound, Warm, White0
  <2>4. CASE P = White
    <3>1. Sound(g) => WaitsWhite /\ camera[White] = member[White] /\ (Warm \/ member[White] = 0)
      BY <1>1, <2>1, <2>2, <2>4 DEF WhiteStage, At0
    <3>2. White \notin changed' /\ (Temperature \in changed' <=> Temperature \in changed)
      BY <1>1, <1>2, <2>4
    <3>3. Sound(g) => WaitsWhite'
      BY <1>2, <1>3, <2>3, <3>1, <3>2 DEF WaitsWhite, Carried, Saved
    <3>4. WhiteStage("balance")'
      BY <1>2, <2>3, <3>1, <3>2, <3>3 DEF WhiteStage
    <3>5. Means(g, At0("balance"))'
      BY <3>4, WhiteMeans DEF At0
    <3>6. QED  BY <1>1, <2>1, <2>2, <2>4, <3>5, Zenon
  <2>5. CASE P = Temperature
    <3>1. /\ Sound(g) => WaitsWhite /\ Warm /\ camera[White] = 0
          /\ White0(g) => White \notin changed /\ member[White] = 0
      BY <1>1, <2>1, <2>2, <2>5 DEF WhiteStage, At0
    <3>2. Temperature \notin changed' /\ (White \in changed' <=> White \in changed)
      BY <1>1, <1>2, <2>5
    <3>3. Sound(g) => WaitsWhite'
      BY <1>2, <2>3, <3>1, <3>2 DEF WaitsWhite, Carried, Saved
    <3>4. WhiteStage("fixed")'
      BY <1>2, <2>3, <3>1, <3>2, <3>3 DEF WhiteStage
    <3>5. Means(g, At0("fixed"))'
      BY <3>4, WhiteMeans DEF At0
    <3>6. QED  BY <1>1, <2>1, <2>2, <2>5, <3>5, Zenon
  <2>6. QED  BY <1>1, <2>4, <2>5
<1>5. \A x, y \in Stages : Turn(Head(steps), g, x, y) /\ Means(g, x) =>
                             \E w \in Stages : Means(g, w)' /\ Brings(<<>>, g, w, y)
  BY <1>4, Zenon
<1>6. QED
  <2>1. PICK none, marks : none = <<>> /\ marks = {P}
    OBVIOUS
  <2>2. steps' = none \o Tail(steps) /\ changed' = changed \ marks /\ marks \in SUBSET Family(g)
    BY <1>1, <1>2, <2>1
  <2>3. \A x, y \in Stages : Turn(Head(steps), g, x, y) /\ Means(g, x) =>
                               \E w \in Stages : Means(g, w)' /\ Brings(none, g, w, y)
    BY <1>5, <2>1
  <2>4. QED  BY <1>1, <1>2, <2>2, <2>3, MarksStep

LEMMA ClearImage ==
  ASSUME OneInd, ClearMark, NEW g \in ImageFamilies, g = FamilyOf(P)
  PROVE  OneInd'
<1>1. /\ steps # <<>> /\ Head(steps).op = "clear" /\ g \in Families /\ P = Picture(g)
      /\ Family(g) = {P} /\ P[2] # "min" /\ g \notin Ranged
  <2>1. P \in Family(g)
    BY StepIs DEF ClearMark, Now, Family
  <2>2. Family(g) = {Picture(g)} /\ Picture(g)[2] # "min"
    BY ParamsAre DEF Picture, ImageFamilies
  <2>3. QED  BY <2>1, <2>2, ImageMeans, ParamsAre DEF ClearMark, Now
<1>2. /\ steps' = <<>> \o Tail(steps) /\ Aside /\ changed' = changed \ {P}
      /\ UNCHANGED <<member, stored, due, camera, disturbed, rounds, oneRefusals>>
  BY <1>1 DEF ClearMark, Then
<1>3. ASSUME NEW x \in Stages, NEW y \in Stages, Turn(Head(steps), g, x, y) /\ Means(g, x)
      PROVE  \E w \in Stages : Means(g, w)' /\ Brings(<<>>, g, w, y)
  <2>1. x = At0("sent") /\ y = At0("idle") /\ Brings(<<>>, g, y, y)
    BY <1>1, <1>3, ImageTurnIs, BringsNone DEF ImageTurn
  <2>2. Sound(g) => Waits(g) /\ camera[P] = member[P]
    BY <1>1, <1>3, <2>1, ImageMeans DEF At0
  <2>3. (Sound(g)' <=> Sound(g)) /\ Unmarked(g)'
    BY <1>1, <1>2 DEF Sound, Unmarked
  <2>4. Sound(g)' => Arrived(g)'
    BY <1>1, <1>2, <2>2, <2>3, ImageMeans DEF Carried, Saved
  <2>5. Means(g, At0("idle"))'
    BY <1>1, <2>3, <2>4, ImageMeans DEF At0, Idle1
  <2>6. QED  BY <2>1, <2>5, Zenon
<1>4. \A x, y \in Stages : Turn(Head(steps), g, x, y) /\ Means(g, x) =>
                             \E w \in Stages : Means(g, w)' /\ Brings(<<>>, g, w, y)
  BY <1>3, Zenon
<1>5. QED
  <2>1. PICK none, marks : none = <<>> /\ marks = {P}
    OBVIOUS
  <2>2. steps' = none \o Tail(steps) /\ changed' = changed \ marks /\ marks \in SUBSET Family(g)
    BY <1>1, <1>2, <2>1
  <2>3. \A x, y \in Stages : Turn(Head(steps), g, x, y) /\ Means(g, x) =>
                               \E w \in Stages : Means(g, w)' /\ Brings(none, g, w, y)
    BY <1>4, <2>1
  <2>4. QED  BY <1>1, <1>2, <2>2, <2>3, MarksStep

LEMMA ClearMarkInd == OneInd /\ ClearMark => OneInd'
<1> SUFFICES ASSUME OneInd, ClearMark PROVE OneInd'
  OBVIOUS
<1>1. PICK g : g = FamilyOf(P)
  OBVIOUS
<1>2. g \in Families
  BY <1>1, StepOf DEF ClearMark, Now
<1>3. QED  BY <1>1, <1>2, InFamily, ClearValue, ClearWhite, ClearImage

LEMMA BalanceInd == OneInd /\ Balance => OneInd'
<1> SUFFICES ASSUME OneInd, Balance PROVE OneInd'
  OBVIOUS
<1>1. PICK g : g = FamilyOf(P)
  OBVIOUS
<1>2. steps # <<>> /\ Head(steps).op = "balance" /\ g = "wb" /\ g \in Families
  BY <1>1, StepOf, WhiteMeans DEF Balance, Now
<1>3. /\ Aside /\ UNCHANGED <<member, stored, due, camera, disturbed, rounds, oneRefusals>>
      /\ member[White] \in {0, 1} /\ Family(g) = {White, Temperature} /\ White # Temperature
  <2>1. White # Temperature
    BY DEF White, Automatic, Temperature
  <2>2. QED  BY <1>2, <2>1, ModeTyped, ParamsAre DEF Balance, OneInd
<1>4. ASSUME NEW x \in Stages, NEW y \in Stages, Turn(Head(steps), g, x, y), Means(g, x)
      PROVE  /\ y = At0("idle") /\ (Sound(g) => WaitsWhite /\ (Warm \/ member[White] = 0))
             /\ White0(g) => White \notin changed
  <2>1. x = At0("balance") /\ y = At0("idle")
    BY <1>1, <1>2, <1>4, WhiteTurnIs DEF WhiteTurn
  <2>2. QED  BY <1>2, <1>4, <2>1, WhiteMeans DEF At0, WhiteStage
<1>5. CASE member[White] = 0
  <2>1. PICK next : next = Run("send", Temperature, 0) \o Run("set", White, 0)
    OBVIOUS
  <2>2. steps' = next \o Tail(steps) /\ changed' = changed
    BY <1>5, <2>1 DEF Balance, Then, White
  <2>3. Brings(next, g, At0("warm"), At0("idle")) /\ At0("warm") \in Stages
    BY <1>2, <2>1, WhiteRuns, BringsPush, StagesAre
  <2>4. ASSUME NEW x \in Stages, NEW y \in Stages, Turn(Head(steps), g, x, y) /\ Means(g, x)
        PROVE  \E w \in Stages : Means(g, w) /\ Brings(next, g, w, y)
    <3>1. Means(g, At0("warm"))
      BY <1>2, <1>4, <1>5, <2>4, WhiteMeans DEF At0, WhiteStage
    <3>2. QED  BY <1>4, <2>3, <2>4, <3>1, Zenon
  <2>5. \A x, y \in Stages : Turn(Head(steps), g, x, y) /\ Means(g, x) =>
                               \E w \in Stages : Means(g, w) /\ Brings(next, g, w, y)
    BY <2>4, Zenon
  <2>6. Reads
    BY <1>3, <2>2 DEF Reads
  <2>7. QED  BY <1>1, <1>2, <2>2, <2>5, <2>6, ReadsStep
<1>6. CASE member[White] = 1
  <2>1. PICK none, marks : none = <<>> /\ marks = {Temperature}
    OBVIOUS
  <2>2. steps' = none \o Tail(steps) /\ changed' = changed \ marks /\ marks \in SUBSET Family(g)
    BY <1>3, <1>6, <2>1 DEF Balance, Then, White
  <2>3. ASSUME NEW x \in Stages, NEW y \in Stages, Turn(Head(steps), g, x, y) /\ Means(g, x)
        PROVE  \E w \in Stages : Means(g, w)' /\ Brings(none, g, w, y)
    <3>1. y = At0("idle") /\ (Sound(g) => WaitsWhite /\ Warm) /\ (White0(g) => White \notin changed)
      BY <1>4, <1>6, <2>3
    <3>2. (Sound(g)' <=> Sound(g)) /\ (Warm' <=> Warm) /\ (White0(g)' <=> White0(g)) /\ (Sound(g) => White0(g))
      BY <1>3 DEF Sound, Warm, White0
    <3>3. White0(g) => Unmarked(g)'
      BY <1>3, <2>1, <2>2, <3>1 DEF Unmarked
    <3>4. Sound(g) => WaitsWhite' /\ Saved(White)'
      BY <1>3, <1>6, <2>1, <2>2, <3>1, <3>2 DEF WaitsWhite, Carried, Saved
    <3>5. Sound(g)' => Arrived(g)'
      BY <1>2, <3>2, <3>3, <3>4, WhiteMeans, ParamsAre DEF Arrived
    <3>6. Idle1(g)'
      <4>1. rounds' = rounds /\ g \notin Ranged
        BY <1>2, <1>3, ParamsAre
      <4>2. QED  BY <3>2, <3>3, <3>5, <4>1 DEF Idle1, White0
    <3>7. Means(g, At0("idle"))'
      BY <1>2, <3>6, WhiteMeans DEF At0, WhiteStage
    <3>8. Brings(none, g, y, y)
      BY <2>1, BringsNone
    <3>9. QED  BY <3>1, <3>7, <3>8, Zenon
  <2>4. \A x, y \in Stages : Turn(Head(steps), g, x, y) /\ Means(g, x) =>
                               \E w \in Stages : Means(g, w)' /\ Brings(none, g, w, y)
    BY <2>3, Zenon
  <2>5. QED  BY <1>1, <1>2, <1>3, <2>2, <2>4, MarksStep
<1>7. QED  BY <1>3, <1>5, <1>6

-----------------------------------------------------------------------------
(* The rounds.                                                             *)

\* Behind the steps there is nothing but idle families.
LEMMA IdleFamilies ==
  ASSUME OneInd, steps = <<>>
  PROVE  \A f \in Families \cup {"sensors"} : Means(f, At0("idle"))
<1> SUFFICES ASSUME NEW f \in Families \cup {"sensors"} PROVE Means(f, At0("idle"))
  OBVIOUS
<1>1. PICK x \in Stages : Means(f, x) /\ Leads(steps, f, x, At0("idle"))
  BY DEF OneInd, Holds
<1>2. \A j \in DOMAIN steps : ~Concerns(steps[j], f)
  OBVIOUS
<1>3. x = At0("idle")
  BY <1>1, <1>2, LeadsPast
<1>4. QED  BY <1>1, <1>3

\* The flag is set last.
LEMMA LastStep ==
  ASSUME OneInd, steps # <<>>, Head(steps).op \in {"count", "rearm"}
  PROVE  /\ Tail(steps) = <<>> /\ P = PubRate /\ Head(steps).v \in Int
         /\ \A f \in Families : Means(f, At0("idle"))
         /\ Head(steps).op = "rearm" => Counted(Head(steps).v = 1)
<1>1. PICK e, r, z : e = Head(steps) /\ r = Tail(steps) /\ z = At0("idle")
  OBVIOUS
<1>2. FamilyOf(P) = "sensors" /\ e.at = P /\ P \in OneParams /\ e \in StepSet
  BY <1>1, StepOf, StepIs DEF P
<1>3. P = PubRate /\ e.v \in Int
  <2>1. P \in Family("sensors")
    BY <1>2 DEF Family
  <2>2. QED  BY <1>2, <2>1, ParamsAre DEF StepSet
<1>4. PICK x \in Stages : Means("sensors", x) /\ Leads(steps, "sensors", x, z)
  BY <1>1 DEF OneInd, Holds
<1>5. PICK y \in Stages : Turn(e, "sensors", x, y) /\ Leads(r, "sensors", y, z)
  BY <1>1, <1>4, LeadsOn
<1>6. CountTurn(e.op, e.v, x, y)
  BY <1>2, <1>5, ParamsAre DEF Turn, Concerns
<1>7. y = z
  BY <1>1, <1>6 DEF CountTurn
<1>8. r = <<>>
  <2>1. SUFFICES ASSUME r # <<>> PROVE FALSE
    OBVIOUS
  <2>2. PICK u \in Stages : Turn(Head(r), "sensors", y, u)
    BY <1>5, <2>1, LeadsOn
  <2>3. CASE Concerns(Head(r), "sensors")
    <3>1. CountTurn(Head(r).op, Head(r).v, y, u)
      BY <2>2, <2>3, ParamsAre DEF Turn
    <3>2. QED  BY <1>1, <1>7, <3>1 DEF CountTurn, At0
  <2>4. CASE ~Concerns(Head(r), "sensors")
    BY <1>1, <1>7, <2>2, <2>4 DEF Turn, At0
  <2>5. QED  BY <2>3, <2>4
<1>9. ASSUME NEW f \in Families PROVE Means(f, At0("idle"))
  <2>1. PICK u \in Stages : Means(f, u) /\ Leads(steps, f, u, z)
    BY <1>1 DEF OneInd, Holds
  <2>2. PICK w \in Stages : Turn(e, f, u, w) /\ Leads(r, f, w, z)
    BY <1>1, <2>1, LeadsOn
  <2>3. ~Concerns(e, f)
    BY <1>2, InFamily DEF Concerns
  <2>4. u = w
    BY <2>2, <2>3 DEF Turn
  <2>5. \A j \in DOMAIN r : ~Concerns(r[j], f)
    BY <1>8
  <2>6. w = z
    BY <2>2, <2>5, LeadsPast
  <2>7. QED  BY <1>1, <2>1, <2>4, <2>6
<1>10. ASSUME e.op = "rearm" PROVE Counted(e.v = 1)
  <2>1. x = <<"counted", e.v>>
    BY <1>6, <1>10 DEF CountTurn
  <2>2. QED  BY <1>4, <2>1 DEF Means
<1>11. QED  BY <1>1, <1>3, <1>8, <1>9, <1>10

LEMMA ReadsKeep ==
  ASSUME OneInd, Aside, UNCHANGED <<member, stored, changed, camera, disturbed, rounds, oneRefusals>>, due' \in BOOLEAN
  PROVE  OneTyped' /\ Others' /\ \A f \in Families : Same(f)
<1>1. OneTyped'
  BY DEF OneInd, OneTyped, OneSettingsTypeOK, Aside
<1>2. Others'
  BY DEF OneInd, Others, Saved, Aside
<1>3. \A f \in Families : Same(f)
  BY DEF Same, Sound, Aside
<1>4. QED  BY <1>1, <1>2, <1>3

LEMMA CountMarksInd == OneInd /\ CountMarks => OneInd'
<1> SUFFICES ASSUME OneInd, CountMarks PROVE OneInd'
  OBVIOUS
<1>1. PICK c : c = IF changed = {} THEN 0 ELSE 1
  OBVIOUS
<1>2. /\ steps # <<>> /\ Head(steps).op = "count" /\ steps' = Run("rearm", PubRate, c) \o Tail(steps) /\ Reads
  BY <1>1 DEF CountMarks, Now, Then
<1>3. Tail(steps) = <<>> /\ \A f \in Families : Means(f, At0("idle"))
  BY <1>2, LastStep
<1>4. /\ steps' = Run("rearm", PubRate, c) \o Tail(steps) /\ c \in Int
      /\ \A f : Leads(Tail(steps), f, At0("idle"), At0("idle"))
  <2>1. c \in Int /\ At0("idle") \in Stages
    BY <1>1, StagesAre
  <2>2. QED  BY <1>2, <1>3, <2>1, LeadsNone
<1>5. OneTyped' /\ Others' /\ \A f \in Families : Same(f)
  <2>1. due' \in BOOLEAN /\ Aside /\ UNCHANGED <<member, stored, changed, camera, disturbed, rounds, oneRefusals>>
    BY <1>2 DEF Reads, OneInd, OneTyped, OneSettingsTypeOK
  <2>2. QED  BY <2>1, ReadsKeep
<1>6. At0("idle") \in Stages /\ <<"counted", c>> \in Stages
  BY <1>4, StagesAre
<1>7. ASSUME NEW f \in Families PROVE Holds(f)'
  <2>1. Means(f, At0("idle"))'
    BY <1>3, <1>5, SameStage
  <2>2. FamilyOf(PubRate) = "sensors" /\ PubRate \in OneParams /\ "rearm" \in StepOps /\ f # "sensors"
    BY ParamsAre, InFamily DEF Family, StepOps
  <2>3. Within(Run("rearm", PubRate, c), "sensors")
    BY <1>4, <2>2, WithinRun
  <2>4. Leads(Run("rearm", PubRate, c), f, At0("idle"), At0("idle"))
    BY <1>6, <2>2, <2>3 DEF Within
  <2>5. Leads(steps', f, At0("idle"), At0("idle"))
    BY <1>4, <2>4, LeadsPush
  <2>6. QED  BY <1>6, <2>1, <2>5 DEF Holds
<1>8. Holds("sensors")'
  <2>1. \A p \in changed : FamilyOf(p) \in Families /\ p \in Family(FamilyOf(p))
    <3>1. changed \subseteq OneParams /\ PubRate \notin changed
      BY ParamsAre DEF OneInd, OneTyped, OneSettingsTypeOK
    <3>2. QED  BY <3>1, ParamsAre DEF Family, Families
  <2>2. Counted(c = 1)
    <3>1. ASSUME NEW f \in Families, ~Unmarked(f) PROVE c = 1
      BY <1>1, <3>1 DEF Unmarked
    <3>2. ASSUME NEW p \in changed PROVE (rounds = 1 => registered) /\ rounds # 2
      <4>1. PICK f : f = FamilyOf(p)
        OBVIOUS
      <4>2. f \in Families /\ ~Unmarked(f) /\ f # "sensors"
        BY <2>1, <4>1, InFamily DEF Unmarked
      <4>3. ~Still(f)
        BY <2>1, <4>1 DEF Still
      <4>4. Idle1(f)
        BY <1>3, <4>2, <4>3 DEF Means, At0
      <4>5. QED  BY <4>2, <4>4 DEF Idle1
    <3>3. QED  BY <1>1, <3>1, <3>2 DEF Counted
  <2>3. Counted(c = 1)'
    BY <1>2, <2>2 DEF Reads, Aside, Counted, Sound, Unmarked
  <2>4. Means("sensors", <<"counted", c>>)'
    BY <2>3 DEF Means
  <2>5. Leads(Run("rearm", PubRate, c), "sensors", <<"counted", c>>, At0("idle"))
    <3>1. PICK e : e = [op |-> "rearm", at |-> PubRate, v |-> c]
      OBVIOUS
    <3>2. Turn(e, "sensors", <<"counted", c>>, At0("idle"))
      BY <3>1, ParamsAre DEF Turn, Concerns, CountTurn, Family
    <3>3. PubRate \in OneParams /\ "rearm" \in StepOps
      BY ParamsAre DEF StepOps
    <3>4. QED  BY <1>4, <1>6, <3>1, <3>2, <3>3, LeadsRun
  <2>6. Leads(steps', "sensors", <<"counted", c>>, At0("idle"))
    BY <1>4, <2>5, LeadsPush
  <2>7. QED  BY <1>6, <2>4, <2>6 DEF Holds
<1>9. QED  BY <1>5, <1>7, <1>8 DEF OneInd

LEMMA RearmInd == OneInd /\ Rearm => OneInd'
<1> SUFFICES ASSUME OneInd, Rearm PROVE OneInd'
  OBVIOUS
<1>1. /\ steps # <<>> /\ Head(steps).op = "rearm" /\ steps' = <<>> \o Tail(steps) /\ due' = (Head(steps).v = 1)
      /\ Aside /\ UNCHANGED <<stored, member, changed, camera, disturbed, rounds, oneRefusals>>
  BY DEF Rearm, Now, Then
<1>2. Tail(steps) = <<>> /\ (\A f \in Families : Means(f, At0("idle"))) /\ Counted(Head(steps).v = 1)
  BY <1>1, LastStep
<1>3. steps' = <<>>
  BY <1>1, <1>2
<1>4. OneTyped' /\ Others' /\ \A f \in Families : Same(f)
  BY <1>1, ReadsKeep
<1>5. At0("idle") \in Stages
  BY StagesAre
<1>6. \A f : Leads(<<>>, f, At0("idle"), At0("idle"))
  BY <1>5, LeadsNone
<1>7. ASSUME NEW f \in Families PROVE Holds(f)'
  <2>1. Means(f, At0("idle"))'
    BY <1>2, <1>4, SameStage
  <2>2. QED  BY <1>3, <1>5, <1>6, <2>1 DEF Holds
<1>8. Holds("sensors")'
  <2>1. Counted(due)'
    BY <1>1, <1>2 DEF Aside, Counted, Sound, Unmarked
  <2>2. Means("sensors", At0("idle"))'
    BY <2>1 DEF Means, At0
  <2>3. QED  BY <1>3, <1>5, <1>6, <2>2 DEF Holds
<1>9. QED  BY <1>4, <1>7, <1>8 DEF OneInd

LEMMA RegisterInd == OneInd /\ Register => OneInd'
<1> SUFFICES ASSUME OneInd, Register PROVE OneInd'
  OBVIOUS
<1>1. /\ registered' = TRUE
      /\ UNCHANGED <<one, stored, member, changed, due, camera, steps, disturbed, rounds, oneChanges, oneRefusals>>
  BY DEF Register
<1>2. OneTyped'
  BY <1>1 DEF OneInd, OneTyped, OneSettingsTypeOK
<1>3. Others'
  BY <1>1 DEF OneInd, Others, Saved
<1>4. \A f \in Families : Same(f)
  BY <1>1 DEF Same, Sound
<1>5. ASSUME NEW f \in Families \cup {"sensors"} PROVE Holds(f)'
  <2>1. PICK x \in Stages : Means(f, x) /\ Leads(steps, f, x, At0("idle"))
    BY DEF OneInd, Holds
  <2>2. Means(f, x)'
    <3>1. CASE f \in Families
      BY <1>4, <2>1, <3>1, SameStage
    <3>2. CASE f = "sensors"
      <4>1. \A more : Counted(more) => Counted(more)'
        BY <1>1 DEF Counted, Sound, Unmarked
      <4>2. QED  BY <1>1, <2>1, <3>2, <4>1 DEF Means
    <3>3. QED  BY <3>1, <3>2
  <2>3. QED  BY <1>1, <2>1, <2>2 DEF Holds
<1>6. QED  BY <1>2, <1>3, <1>5 DEF OneInd

LEMMA SleepInd == OneInd /\ UNCHANGED oneSettingsVars => OneInd'
<1> SUFFICES ASSUME OneInd, UNCHANGED oneSettingsVars PROVE OneInd'
  OBVIOUS
<1>1. UNCHANGED <<one, registered, stored, member, changed, due, camera, steps, disturbed, rounds, oneChanges, oneRefusals>>
  BY DEF oneSettingsVars
<1>2. OneTyped'
  BY <1>1 DEF OneInd, OneTyped, OneSettingsTypeOK
<1>3. Others'
  BY <1>1 DEF OneInd, Others, Saved
<1>4. \A f \in Families : Same(f)
  BY <1>1 DEF Same, Sound
<1>5. ASSUME NEW f \in Families \cup {"sensors"} PROVE Holds(f)'
  <2>1. PICK x \in Stages : Means(f, x) /\ Leads(steps, f, x, At0("idle"))
    BY DEF OneInd, Holds
  <2>2. Means(f, x)'
    <3>1. CASE f \in Families
      BY <1>4, <2>1, <3>1, SameStage
    <3>2. CASE f = "sensors"
      <4>1. \A more : Counted(more) => Counted(more)'
        BY <1>1 DEF Counted, Sound, Unmarked
      <4>2. QED  BY <1>1, <2>1, <3>2, <4>1 DEF Means
    <3>3. QED  BY <3>1, <3>2
  <2>3. QED  BY <1>1, <2>1, <2>2 DEF Holds
<1>6. QED  BY <1>2, <1>3, <1>5 DEF OneInd

LEMMA LeadsSeven ==
  ASSUME NEW f, NEW s1, NEW s2, NEW s3, NEW s4, NEW s5, NEW s6, NEW s7,
         NEW x0, NEW x1, NEW x2, NEW x3, NEW x4, NEW x5, NEW x6, NEW x7,
         Leads(s1, f, x0, x1), Leads(s2, f, x1, x2), Leads(s3, f, x2, x3), Leads(s4, f, x3, x4),
         Leads(s5, f, x4, x5), Leads(s6, f, x5, x6), Leads(s7, f, x6, x7)
  PROVE  Leads(s1 \o s2 \o s3 \o s4 \o s5 \o s6 \o s7, f, x0, x7)
<1>1. Leads(s1 \o s2, f, x0, x2)
  BY LeadsPush
<1>2. Leads(s1 \o s2 \o s3, f, x0, x3)
  BY <1>1, LeadsPush
<1>3. Leads(s1 \o s2 \o s3 \o s4, f, x0, x4)
  BY <1>2, LeadsPush
<1>4. Leads(s1 \o s2 \o s3 \o s4 \o s5, f, x0, x5)
  BY <1>3, LeadsPush
<1>5. Leads(s1 \o s2 \o s3 \o s4 \o s5 \o s6, f, x0, x6)
  BY <1>4, LeadsPush
<1>6. QED  BY <1>5, LeadsPush

\* What applyDynamicSettings does with each family.
LEMMA RangeApplied ==
  ASSUME NEW g \in Ranged
  PROVE  /\ g \in one.ranged => Brings(ApplyRanged(g), g, At0("ready"), At0("idle"))
         /\ g \notin one.ranged => Brings(ApplyRanged(g), g, At0("idle"), At0("idle"))
         /\ Within(ApplyRanged(g), g)
<1>1. At0("idle") \in Stages /\ Lo \in Lo..Hi
  BY StagesAre, ZedOneSettingsAssumption DEF ZedOneSettingsAssumption
<1>2. CASE g \in one.ranged
  <2>1. Brings(Run("mode", Automatic(g), 0) \o Run("unmark", Automatic(g), 0) \o Run("range", Low(g), 0), g, At0("ready"), At0("idle"))
    <3>1. Brings(Run("mode", Automatic(g), 0) \o Run("unmark", Automatic(g), 0), g, At0("ready"), At0("plain"))
      BY <1>1, RangeRuns, BringsPush
    <3>2. Brings(Run("range", Low(g), 0), g, At0("plain"), At0("idle"))
      BY <1>1, RangeRuns
    <3>3. QED  BY <3>1, <3>2, BringsPush
  <2>2. QED  BY <1>2, <2>1 DEF ApplyRanged, Brings
<1>3. CASE g \notin one.ranged
  <2>1. ApplyRanged(g) = <<>>
    BY <1>3 DEF ApplyRanged
  <2>2. Brings(<<>>, g, At0("idle"), At0("idle"))
    BY <1>1, BringsNone
  <2>3. QED  BY <1>3, <2>1, <2>2 DEF Brings
<1>4. QED  BY <1>2, <1>3

LEMMA OthersApplied ==
  /\ Brings(ApplySaturationSharpnessGamma, "saturation", At0("ready"), At0("idle"))
  /\ Brings(ApplyWhiteBalance, "wb", At0("ready"), At0("idle"))
  /\ \A f \in {"compensation", "denoising"} :
        Leads(ApplyExposureCompensationAndDenoising, f, At0("ready"), At0("idle"))
  /\ \A f : \A x \in Stages : f \notin {"compensation", "denoising"} /\ (f = "sensors" => x = At0("open"))
                                => Leads(ApplyExposureCompensationAndDenoising, f, x, x)
  /\ \A f : \A x \in Stages : f # "sensors" => Leads(Run("count", PubRate, 0), f, x, x)
  /\ Leads(Run("count", PubRate, 0), "sensors", At0("open"), At0("idle"))
<1>1. {"saturation", "compensation", "denoising"} = ImageFamilies
      /\ <<"image", "saturation">> = Picture("saturation")
      /\ <<"image", "compensation">> = Picture("compensation")
      /\ <<"image", "denoising">> = Picture("denoising")
  BY DEF ImageFamilies, Picture
<1>2. Brings(ApplySaturationSharpnessGamma, "saturation", At0("ready"), At0("idle"))
  BY <1>1, ImageRuns DEF ApplySaturationSharpnessGamma
<1>3. Brings(ApplyWhiteBalance, "wb", At0("ready"), At0("idle"))
  BY WhiteRuns, BringsPush DEF ApplyWhiteBalance, White
<1>4. PICK a, b : a = Run("send", Picture("compensation"), 0) /\ b = Run("send", Picture("denoising"), 0)
  OBVIOUS
<1>5. Brings(a, "compensation", At0("ready"), At0("idle")) /\ Brings(b, "denoising", At0("ready"), At0("idle"))
  BY <1>1, <1>4, ImageRuns
<1>6. ApplyExposureCompensationAndDenoising = a \o b
  BY <1>1, <1>4 DEF ApplyExposureCompensationAndDenoising
<1>7. At0("ready") \in Stages /\ At0("idle") \in Stages /\ At0("open") \in Stages
  BY StagesAre
<1>8. Leads(a \o b, "compensation", At0("ready"), At0("idle"))
  <2>1. Leads(b, "compensation", At0("idle"), At0("idle"))
    BY <1>5, <1>7 DEF Brings, Within
  <2>2. Leads(a, "compensation", At0("ready"), At0("idle"))
    BY <1>5 DEF Brings
  <2>3. QED  BY <2>1, <2>2, LeadsPush
<1>9. Leads(a \o b, "denoising", At0("ready"), At0("idle"))
  <2>1. Leads(a, "denoising", At0("ready"), At0("ready"))
    BY <1>5, <1>7 DEF Brings, Within
  <2>2. Leads(b, "denoising", At0("ready"), At0("idle"))
    BY <1>5 DEF Brings
  <2>3. QED  BY <2>1, <2>2, LeadsPush
<1>10. ASSUME NEW f, NEW x \in Stages, f \notin {"compensation", "denoising"}, f = "sensors" => x = At0("open")
       PROVE  Leads(a \o b, f, x, x)
  <2>1. Leads(a, f, x, x) /\ Leads(b, f, x, x)
    BY <1>5, <1>10 DEF Brings, Within
  <2>2. QED  BY <2>1, LeadsPush
<1>11. PubRate \in OneParams /\ FamilyOf(PubRate) = "sensors" /\ "count" \in StepOps
  BY ParamsAre DEF Family, StepOps
<1>12. ASSUME NEW f, NEW x \in Stages, f # "sensors"
       PROVE  Leads(Run("count", PubRate, 0), f, x, x)
  <2>1. Within(Run("count", PubRate, 0), "sensors")
    BY <1>11, WithinRun
  <2>2. QED  BY <1>12, <2>1 DEF Within
<1>13. Leads(Run("count", PubRate, 0), "sensors", At0("open"), At0("idle"))
  <2>1. PICK e : e = [op |-> "count", at |-> PubRate, v |-> 0]
    OBVIOUS
  <2>2. Turn(e, "sensors", At0("open"), At0("idle"))
    BY <1>11, <2>1, ParamsAre DEF Turn, Concerns, CountTurn
  <2>3. QED  BY <1>7, <1>11, <2>1, <2>2, LeadsRun
<1>14. QED  BY <1>2, <1>3, <1>6, <1>8, <1>9, <1>10, <1>12, <1>13

\* A family is where a round finds it, and what the round will do with it.
Entry(f) == IF f = "sensors" THEN At0("open")
            ELSE IF f \in Ranged \ one.ranged THEN At0("idle") ELSE At0("ready")

LEMMA RoundLeads ==
  ASSUME NEW f \in Families \cup {"sensors"}, NEW s,
         s = ApplySaturationSharpnessGamma \o ApplyWhiteBalance \o ApplyExposure
                \o ApplyAnalogGain \o ApplyDigitalGain
                \o ApplyExposureCompensationAndDenoising \o Run("count", PubRate, 0)
  PROVE  Leads(s, f, Entry(f), At0("idle"))
<1>1. PICK s1, s2, s3, s4, s5, s6, s7 :
        /\ s1 = ApplySaturationSharpnessGamma /\ s2 = ApplyWhiteBalance /\ s3 = ApplyExposure
        /\ s4 = ApplyAnalogGain /\ s5 = ApplyDigitalGain /\ s6 = ApplyExposureCompensationAndDenoising
        /\ s7 = Run("count", PubRate, 0)
  OBVIOUS
<1>2. PICK i, r, o : i = At0("idle") /\ r = At0("ready") /\ o = At0("open")
  OBVIOUS
<1>3. i \in Stages /\ r \in Stages /\ o \in Stages
  BY <1>2, StagesAre
<1>4. /\ Brings(s1, "saturation", r, i) /\ Brings(s2, "wb", r, i)
      /\ \A g \in {"compensation", "denoising"} : Leads(s6, g, r, i)
      /\ \A g : \A x \in Stages : g \notin {"compensation", "denoising"}
           /\ (g = "sensors" => x = o) => Leads(s6, g, x, x)
      /\ \A g : \A x \in Stages : g # "sensors" => Leads(s7, g, x, x)
      /\ Leads(s7, "sensors", o, i)
  BY <1>1, <1>2, OthersApplied
<1>5. /\ Within(s1, "saturation") /\ Within(s2, "wb") /\ Within(s3, "exposure") /\ Within(s4, "analog")
           /\ Within(s5, "digital")
  BY <1>1, <1>4, RangeApplied DEF Brings, ApplyExposure, ApplyAnalogGain, ApplyDigitalGain, Ranged
<1>6. /\ \A g \in {"exposure", "analog", "digital"} : Entry(g) = IF g \in one.ranged THEN r ELSE i
      /\ \A g \in {"wb", "saturation", "compensation", "denoising"} : Entry(g) = r
      /\ Entry("sensors") = o
  BY <1>2 DEF Entry, Ranged
<1>7. /\ Leads(s3, "exposure", Entry("exposure"), i)
      /\ Leads(s4, "analog", Entry("analog"), i)
      /\ Leads(s5, "digital", Entry("digital"), i)
  BY <1>1, <1>2, <1>6, RangeApplied DEF Brings, ApplyExposure, ApplyAnalogGain, ApplyDigitalGain, Ranged
<1>8. PICK e : e = Entry(f)
  OBVIOUS
<1>9. e \in Stages
  BY <1>2, <1>3, <1>8 DEF Entry
<1>10. \A g, t : Within(t, g) /\ f # g /\ (f = "sensors" => e = o) => Leads(t, f, e, e)
  BY <1>9, <1>2 DEF Within
<1>11. \A g, t : Within(t, g) /\ f # g /\ f # "sensors" => Leads(t, f, i, i)
  BY <1>3 DEF Within
<1>12. s = s1 \o s2 \o s3 \o s4 \o s5 \o s6 \o s7
  BY <1>1
<1>13. CASE f = "saturation"
  <2>1. Leads(s1, f, e, i)
    BY <1>4, <1>6, <1>8, <1>13 DEF Brings
  <2>2. Leads(s2, f, i, i) /\ Leads(s3, f, i, i) /\ Leads(s4, f, i, i) /\ Leads(s5, f, i, i)
    BY <1>5, <1>10, <1>11, <1>13
  <2>3. Leads(s6, f, i, i) /\ Leads(s7, f, i, i)
    BY <1>3, <1>4, <1>13
  <2>4. Leads(s1 \o s2 \o s3 \o s4 \o s5 \o s6 \o s7, f, e, i)
    BY <2>1, <2>2, <2>3, LeadsSeven
  <2>5. QED  BY <1>2, <1>8, <1>12, <2>4
<1>14. CASE f = "wb"
  <2>1. Leads(s2, f, e, i)
    BY <1>4, <1>6, <1>8, <1>14 DEF Brings
  <2>2. Leads(s1, f, e, e) /\ Leads(s3, f, i, i) /\ Leads(s4, f, i, i) /\ Leads(s5, f, i, i)
    BY <1>5, <1>10, <1>11, <1>14
  <2>3. Leads(s6, f, i, i) /\ Leads(s7, f, i, i)
    BY <1>3, <1>4, <1>14
  <2>4. Leads(s1 \o s2 \o s3 \o s4 \o s5 \o s6 \o s7, f, e, i)
    BY <2>1, <2>2, <2>3, LeadsSeven
  <2>5. QED  BY <1>2, <1>8, <1>12, <2>4
<1>15. CASE f = "exposure"
  <2>1. Leads(s3, f, e, i)
    BY <1>7, <1>8, <1>15 DEF Brings
  <2>2. Leads(s1, f, e, e) /\ Leads(s2, f, e, e) /\ Leads(s4, f, i, i) /\ Leads(s5, f, i, i)
    BY <1>5, <1>10, <1>11, <1>15
  <2>3. Leads(s6, f, i, i) /\ Leads(s7, f, i, i)
    BY <1>3, <1>4, <1>15
  <2>4. Leads(s1 \o s2 \o s3 \o s4 \o s5 \o s6 \o s7, f, e, i)
    BY <2>1, <2>2, <2>3, LeadsSeven
  <2>5. QED  BY <1>2, <1>8, <1>12, <2>4
<1>16. CASE f = "analog"
  <2>1. Leads(s4, f, e, i)
    BY <1>7, <1>8, <1>16 DEF Brings
  <2>2. Leads(s1, f, e, e) /\ Leads(s2, f, e, e) /\ Leads(s3, f, e, e) /\ Leads(s5, f, i, i)
    BY <1>5, <1>10, <1>11, <1>16
  <2>3. Leads(s6, f, i, i) /\ Leads(s7, f, i, i)
    BY <1>3, <1>4, <1>16
  <2>4. Leads(s1 \o s2 \o s3 \o s4 \o s5 \o s6 \o s7, f, e, i)
    BY <2>1, <2>2, <2>3, LeadsSeven
  <2>5. QED  BY <1>2, <1>8, <1>12, <2>4
<1>17. CASE f = "digital"
  <2>1. Leads(s5, f, e, i)
    BY <1>7, <1>8, <1>17 DEF Brings
  <2>2. Leads(s1, f, e, e) /\ Leads(s2, f, e, e) /\ Leads(s3, f, e, e) /\ Leads(s4, f, e, e)
    BY <1>5, <1>10, <1>11, <1>17
  <2>3. Leads(s6, f, i, i) /\ Leads(s7, f, i, i)
    BY <1>3, <1>4, <1>17
  <2>4. Leads(s1 \o s2 \o s3 \o s4 \o s5 \o s6 \o s7, f, e, i)
    BY <2>1, <2>2, <2>3, LeadsSeven
  <2>5. QED  BY <1>2, <1>8, <1>12, <2>4
<1>18. CASE f \in {"compensation", "denoising"}
  <2>1. Leads(s1, f, e, e) /\ Leads(s2, f, e, e) /\ Leads(s3, f, e, e) /\ Leads(s4, f, e, e) /\ Leads(s5, f, e, e)
    BY <1>5, <1>10, <1>18
  <2>2. Leads(s6, f, e, i) /\ Leads(s7, f, i, i)
    BY <1>3, <1>4, <1>6, <1>8, <1>18
  <2>3. Leads(s1 \o s2 \o s3 \o s4 \o s5 \o s6 \o s7, f, e, i)
    BY <2>1, <2>2, LeadsSeven
  <2>4. QED  BY <1>2, <1>8, <1>12, <2>3
<1>19. CASE f = "sensors"
  <2>1. Leads(s1, f, e, e) /\ Leads(s2, f, e, e) /\ Leads(s3, f, e, e) /\ Leads(s4, f, e, e) /\ Leads(s5, f, e, e)
    BY <1>5, <1>6, <1>8, <1>10, <1>19
  <2>2. Leads(s6, f, e, e) /\ Leads(s7, f, e, i)
    BY <1>3, <1>4, <1>6, <1>8, <1>19
  <2>3. Leads(s1 \o s2 \o s3 \o s4 \o s5 \o s6 \o s7, f, e, i)
    BY <2>1, <2>2, LeadsSeven
  <2>4. QED  BY <1>2, <1>8, <1>12, <2>3
<1>20. QED  BY <1>13, <1>14, <1>15, <1>16, <1>17, <1>18, <1>19 DEF Families, Ranged, ImageFamilies

LEMMA ApplyInd == OneInd /\ ApplyDynamicSettings => OneInd'
<1> SUFFICES ASSUME OneInd, ApplyDynamicSettings PROVE OneInd'
  OBVIOUS
<1>1. /\ steps = <<>> /\ due = TRUE /\ rounds' = rounds + 1 /\ Aside
      /\ UNCHANGED <<stored, member, changed, due, camera, disturbed, oneRefusals>>
  BY DEF ApplyDynamicSettings, OneInd, OneTyped, OneSettingsTypeOK
<1>2. \A f \in Families \cup {"sensors"} : Means(f, At0("idle"))
  BY <1>1, IdleFamilies
<1>3. rounds \in {0, 1} /\ (rounds = 1 => registered)
  <2>1. Counted(due)
    BY <1>2 DEF Means, At0
  <2>2. QED  BY <1>1, <2>1 DEF Counted, OneInd, OneTyped
<1>4. OneTyped'
  <2>1. rounds' \in 0..2
    BY <1>1, <1>3
  <2>2. QED  BY <1>1, <2>1 DEF OneInd, OneTyped, OneSettingsTypeOK, Aside
<1>5. Others'
  BY <1>1, <1>3 DEF OneInd, Others, Saved, Aside
<1>6. \A f \in Families \cup {"sensors"} : Leads(steps, f, Entry(f), At0("idle"))'
  <2>1. \A f \in Families \cup {"sensors"} : Leads(steps', f, Entry(f), At0("idle"))
    BY RoundLeads DEF ApplyDynamicSettings
  <2>2. \A f : Entry(f)' = Entry(f)
    BY <1>1 DEF Entry, Aside
  <2>3. QED  BY <2>1, <2>2
<1>7. ASSUME NEW f \in Families \cup {"sensors"} PROVE Means(f, Entry(f))'
  <2>1. one' = one
    BY <1>1 DEF Aside
  <2>2. CASE f = "sensors"
    BY <2>2 DEF Means, Entry, At0
  <2>3. CASE f \in Ranged \ one.ranged
    <3>1. f # "sensors" /\ Entry(f) = At0("idle")
      BY <2>3, ParamsAre DEF Entry
    <3>2. Still(f)
      BY <1>2, <2>3, <3>1 DEF Means
    <3>3. Still(f)'
      BY <1>1, <3>2 DEF Still, Saved
    <3>4. QED  BY <2>1, <2>3, <3>1, <3>3 DEF Means, Entry
  <2>4. CASE f \in Families /\ ~(f \in Ranged \ one.ranged)
    <3>1. f # "sensors" /\ Entry(f) = At0("ready")
      BY <2>4, InFamily DEF Entry
    <3>2. Idle1(f)
      BY <1>2, <2>4, <3>1 DEF Means, At0
    <3>3. (Sound(f)' <=> Sound(f)) /\ (Waits(f)' <=> Waits(f)) /\ (Ready(f)' <=> Ready(f)) /\ (Split(f)' <=> Split(f))
      BY <1>1 DEF Sound, Waits, WaitsRange, WaitsWhite, Carried, Warm, Saved, SavedRange, Ready, Split
    <3>4. Arrived(f) => Waits(f) /\ (f \in Ranged => Split(f))
      <4>1. f \in Ranged => member[Automatic(f)] \in {0, 1}
        BY ModeTyped DEF OneInd
      <4>2. QED  BY <4>1 DEF Arrived, Agree, Split
    <3>5. Sound(f) => Waits(f) /\ Ready(f)
      BY <3>2, <3>4 DEF Idle1, Ready
    <3>6. rounds' = 2 => Ready(f)
      BY <1>1, <1>3, <3>2 DEF Idle1, Ready
    <3>7. (Live(f)' => Ready(f)') /\ (Sound(f)' => Waits(f)')
      BY <3>3, <3>5, <3>6 DEF Live
    <3>8. RangeStage(f, "ready", 0)' /\ WhiteStage("ready")'
      BY DEF RangeStage, WhiteStage
    <3>9. Entry(f)' = At0("ready") /\ At0("ready")[1] = "ready" /\ At0("ready")[2] = 0
      BY <2>1, <3>1 DEF Entry, At0
    <3>10. Means(f, At0("ready"))'
      BY <2>1, <2>4, <3>1, <3>7, <3>8 DEF Means, At0
    <3>11. QED  BY <3>9, <3>10
  <2>5. QED  BY <2>2, <2>3, <2>4
<1>8. \A f \in Families \cup {"sensors"} : Entry(f)' \in Stages
  BY StagesAre DEF Entry
<1>9. \A f \in Families \cup {"sensors"} : Holds(f)'
  BY <1>6, <1>7, <1>8 DEF Holds
<1>10. QED  BY <1>4, <1>5, <1>9 DEF OneInd

LEMMA OneSettingsInitInd == OneSettingsInit => OneInd
<1> SUFFICES ASSUME OneSettingsInit PROVE OneInd
  OBVIOUS
<1>1. /\ Lo \in Int /\ Hi \in Int /\ Lo < Hi /\ MaxOneChanges \in Nat /\ MaxOneRefusals \in Nat
      /\ one \in OneLaunches
  BY ZedOneSettingsAssumption DEF ZedOneSettingsAssumption, OneSettingsInit
<1>2. /\ registered = FALSE /\ stored = member /\ due = TRUE /\ steps = <<>> /\ disturbed = {} /\ rounds = 0
      /\ oneChanges = 0 /\ oneRefusals = 0
  BY DEF OneSettingsInit
<1>3. PICK a : a = IF one.manual THEN 0 ELSE 1
  OBVIOUS
<1>4. a \in {0, 1}
  BY <1>3
<1>5. member = [p \in OneParams |-> IF p[2] = "auto" THEN a
                                    ELSE IF p[2] = "max" THEN Hi
                                    ELSE IF p[2] \in {"value", "min"} THEN Lo ELSE 0]
  BY <1>3 DEF OneSettingsInit
<1>6. camera = [p \in Dials |-> IF p[2] = "max" THEN Hi ELSE IF p[2] = "min" THEN Lo
                                ELSE IF p = Temperature THEN Own ELSE 1]
  BY DEF OneSettingsInit, Dials
<1>7. member \in [OneParams -> Int] /\ camera \in [Dials -> Int]
  BY <1>1, <1>4, <1>5, <1>6 DEF Own
<1>8. \A p \in OneParams : member[p] \in Domain(p)
  BY <1>1, <1>4, <1>5 DEF Domain
<1>9. \A p \in Dials : camera[p] \in Domain(p) \cup {Own}
  <2>1. \A p \in Dials : p[2] # "value"
    BY DEF Dials, Flagged, Images, Temperature, Automatic, Ranged
  <2>2. ASSUME NEW p \in Dials PROVE camera[p] \in Domain(p) \cup {Own}
    <3>1. CASE p[2] \in {"max", "min"}
      BY <1>1, <1>6, <3>1 DEF Domain
    <3>2. CASE p[2] \notin {"max", "min"}
      <4>1. Domain(p) = 0..1
        BY <2>1, <3>2 DEF Domain
      <4>2. camera[p] \in {Own, 1}
        BY <1>6, <3>2
      <4>3. QED  BY <4>1, <4>2
    <3>3. QED  BY <3>1, <3>2
  <2>3. QED  BY <2>2
<1>10. changed = Flagged \ ((Ranged \ one.ranged) \X {"auto", "value", "min", "max"})
  BY DEF OneSettingsInit
<1>11. OneTyped
  <2>1. changed \subseteq Flagged /\ DOMAIN camera = Dials
    BY <1>7, <1>10
  <2>2. \A p \in OneParams : {member[p], stored[p]} \subseteq Domain(p)
    BY <1>2, <1>8
  <2>3. \A p \in DOMAIN camera : camera[p] \in Domain(p) \cup {Own}
    BY <1>9, <2>1
  <2>4. OneSettingsTypeOK
    <3>1. /\ registered \in BOOLEAN /\ due \in BOOLEAN /\ disturbed \subseteq OneParams
          /\ oneChanges \in 0..MaxOneChanges /\ oneRefusals \in 0..MaxOneRefusals
      <4>1. oneChanges \in 0..MaxOneChanges /\ oneRefusals \in 0..MaxOneRefusals
        BY <1>1, <1>2
      <4>2. registered \in BOOLEAN
        <5>1. registered = FALSE
          BY <1>2
        <5>2. QED  BY <5>1, Zenon
      <4>3. due \in BOOLEAN
        <5>1. due = TRUE
          BY <1>2
        <5>2. QED  BY <5>1, Zenon
      <4>4. disturbed \subseteq OneParams
        <5>1. disturbed = {}
          BY <1>2
        <5>2. QED  BY <5>1
      <4>5. QED  BY <4>1, <4>2, <4>3, <4>4
    <3>2. changed \subseteq Flagged
      BY <2>1
    <3>3. QED  BY <2>2, <2>3, <3>1, <3>2, Zenon DEF OneSettingsTypeOK
  <2>5. QED  BY <1>1, <1>2, <1>7, <2>4 DEF OneTyped
<1>12. \A g \in Ranged : /\ member[Low(g)] = Lo /\ member[High(g)] = Hi /\ camera[Low(g)] = Lo /\ camera[High(g)] = Hi
                         /\ member[Automatic(g)] = a
  <2>1. \A g \in Ranged : /\ Low(g) \in OneParams /\ High(g) \in OneParams /\ Automatic(g) \in OneParams
                          /\ Low(g) \in Dials /\ High(g) \in Dials
    BY ParamsAre
  <2>2. \A g \in Ranged : Low(g)[2] = "min" /\ High(g)[2] = "max" /\ Automatic(g)[2] = "auto"
    BY DEF Low, High, Automatic
  <2>3. QED  BY <1>5, <1>6, <2>1, <2>2
<1>13. Others
  BY <1>2, <1>12 DEF Others, Saved
<1>14. ASSUME NEW f \in Families PROVE Means(f, At0("idle"))
  <2>1. CASE f \in Ranged \ one.ranged
    <3>1. f # "sensors" /\ Family(f) = {Automatic(f), Value(f), Low(f), High(f)} /\ Automatic(f) \notin Dials
            /\ Value(f) \notin Dials
      BY <2>1, ParamsAre
    <3>2. \A p \in Family(f) : p \notin changed
      BY <1>10, <2>1, <3>1 DEF Automatic, Value, Low, High
    <3>3. Still(f)
      BY <1>2, <1>12, <2>1, <3>1, <3>2 DEF Still, Saved
    <3>4. QED  BY <2>1, <3>1, <3>3 DEF Means
  <2>2. CASE f \in Ranged /\ f \in one.ranged
    <3>1. Family(f) = {Automatic(f), Value(f), Low(f), High(f)} /\ Family(f) \subseteq Flagged
      BY <2>2, ParamsAre
    <3>2. \A p \in Family(f) : p \in changed
      BY <1>10, <2>2, <3>1 DEF Automatic, Value, Low, High
    <3>3. WaitsRange(f) /\ Ready(f) /\ Split(f) /\ ~Unmarked(f)
      BY <1>1, <1>12, <2>2, <3>1, <3>2 DEF WaitsRange, Ready, Split, Unmarked
    <3>4. Idle1(f)
      BY <1>2, <2>2, <3>3, RangeMeans DEF Idle1
    <3>5. RangeStage(f, "idle", 0)
      BY DEF RangeStage
    <3>6. QED  BY <2>2, <3>4, <3>5, RangeMeans DEF At0
  <2>3. CASE f = "wb"
    <3>1. White \in changed /\ White \in Family(f) /\ Temperature \in Dials /\ f \notin Ranged
      <4>1. White \in Flagged /\ White[1] = "wb" /\ "wb" \notin Ranged /\ Temperature \in Dials
              /\ White \in Family("wb")
        BY ParamsAre DEF White, Automatic
      <4>2. QED  BY <1>10, <2>3, <4>1
    <3>2. camera[Temperature] = Own
      <4>1. Temperature[2] = "temperature"
        BY DEF Temperature
      <4>2. QED  BY <1>6, <3>1, <4>1
    <3>3. WaitsWhite /\ Ready(f) /\ ~Unmarked(f)
      BY <1>2, <3>1, <3>2 DEF WaitsWhite, Carried, Warm, Saved, Ready, Unmarked
    <3>4. Idle1(f)
      <4>1. Waits(f)
        BY <2>3, <3>1, <3>3, ParamsAre DEF Waits
      <4>2. QED  BY <1>2, <3>1, <3>3, <4>1 DEF Idle1
    <3>5. QED  BY <2>3, <3>4, WhiteMeans DEF At0, WhiteStage
  <2>4. CASE f \in ImageFamilies
    <3>1. Picture(f) \in changed /\ Picture(f) \in Family(f) /\ f \notin Ranged
      <4>1. Picture(f) \in Flagged /\ Picture(f)[1] = "image" /\ "image" \notin Ranged /\ Picture(f) \in Family(f)
              /\ f \notin Ranged
        BY <2>4, ParamsAre DEF Picture
      <4>2. QED  BY <1>10, <4>1
    <3>2. Waits(f) /\ Ready(f) /\ ~Unmarked(f)
      BY <1>2, <2>4, <3>1, ImageMeans DEF Carried, Saved, Ready, Unmarked
    <3>3. Idle1(f)
      BY <1>2, <3>1, <3>2 DEF Idle1
    <3>4. QED  BY <2>4, <3>3, ImageMeans DEF At0
  <2>5. QED  BY <2>1, <2>2, <2>3, <2>4, InFamily
<1>15. Means("sensors", At0("idle"))
  BY <1>2 DEF Means, At0, Counted
<1>16. At0("idle") \in Stages /\ \A f : Leads(<<>>, f, At0("idle"), At0("idle"))
  <2>1. At0("idle") \in Stages
    BY StagesAre
  <2>2. QED  BY <2>1, LeadsNone
<1>17. \A f \in Families \cup {"sensors"} : Holds(f)
  BY <1>2, <1>14, <1>15, <1>16 DEF Holds
<1>18. QED  BY <1>11, <1>13, <1>17 DEF OneInd

-----------------------------------------------------------------------------
(* The callback.                                                           *)

\* The two folds of a call.
Handed(n, batch) == FoldLeft(HandleOneParam, n, batch)
Put(f, c) == [f EXCEPT ![c[1]] = c[2]]
Puts(f, batch) == FoldLeft(LAMBDA h, c : [h EXCEPT ![c[1]] = c[2]], f, batch)


LEMMA PutOfOne ==
  ASSUME NEW f, NEW c
  PROVE  Puts(f, <<c>>) = Put(f, c)
<1> DEFINE D == DOMAIN <<c>>
           Eq(h) == h = [s \in SUBSET D |-> IF s = {} THEN f
                                          ELSE Put(h[s \ {Max(s)}], <<c>>[Max(s)])]
           g == [s \in SUBSET {1} |-> IF s = {} THEN f ELSE Put(f, c)]
           h == CHOOSE h : Eq(h)
<1>1. D = {1}
  OBVIOUS
<1>2. Eq(g)
  <2>1. ASSUME NEW s \in SUBSET {1}, s # {} PROVE Put(f, c) = Put(g[s \ {Max(s)}], <<c>>[Max(s)])
    <3>1. s = {1} /\ s \ {Max(s)} = {}
      BY <2>1, MaxOne
    <3>2. QED  BY <3>1, MaxOne
  <2>2. QED  BY <1>1, <2>1
<1>3. Puts(f, <<c>>) = h[D]
  BY DEF Puts, Put, FoldLeft, MapThenFoldSet
<1>4. Eq(h)
  <2> HIDE DEF Eq, g
  <2>1. QED  BY <1>2
<1>5. h[{}] = f /\ h[{1}] = Put(h[{1} \ {Max({1})}], <<c>>[Max({1})])
  <2> HIDE DEF h
  <2>1. QED  BY <1>1, <1>4
<1>6. {1} \ {1} = {} /\ <<c>>[1] = c
  OBVIOUS
<1> HIDE DEF h
<1>7. QED  BY <1>1, <1>3, <1>5, <1>6, MaxOne DEF h

LEMMA PutOfTwo ==
  ASSUME NEW f, NEW b, NEW c
  PROVE  Puts(f, <<b, c>>) = Put(Put(f, b), c)
<1> DEFINE D == DOMAIN <<b, c>>
           Eq(h) == h = [s \in SUBSET D |-> IF s = {} THEN f
                                          ELSE Put(h[s \ {Max(s)}], <<b, c>>[Max(s)])]
           g == [s \in SUBSET {1, 2} |->
                   IF s = {} THEN f ELSE IF s = {1} THEN Put(f, b)
                   ELSE IF s = {2} THEN Put(f, c) ELSE Put(Put(f, b), c)]
           h == CHOOSE h : Eq(h)
<1>1. D = {1, 2}
  OBVIOUS
<1>2. Eq(g)
  <2>1. ASSUME NEW s \in SUBSET {1, 2}, s # {} PROVE g[s] = Put(g[s \ {Max(s)}], <<b, c>>[Max(s)])
    <3>1. g[{}] = f /\ g[{1}] = Put(f, b) /\ g[{2}] = Put(f, c) /\ g[{1, 2}] = Put(Put(f, b), c)
      <4>1. {1, 2} # {1} /\ {1, 2} # {2} /\ {2} # {1} /\ {1, 2} # {} /\ {1} # {} /\ {2} # {}
        OBVIOUS
      <4>2. QED  BY <4>1
    <3>2. s = {1} \/ s = {2} \/ s = {1, 2}
      BY <2>1
    <3>3. {1} \ {1} = {} /\ {2} \ {2} = {} /\ <<b, c>>[1] = b /\ <<b, c>>[2] = c
      OBVIOUS
    <3> HIDE DEF g
    <3>4. QED  BY <3>1, <3>2, <3>3, MaxOne, MaxTwo
  <2>2. \A s \in SUBSET {1, 2} : g[s] = IF s = {} THEN f ELSE Put(g[s \ {Max(s)}], <<b, c>>[Max(s)])
    BY <2>1
  <2>3. g = [s \in SUBSET {1, 2} |-> g[s]]
    OBVIOUS
  <2> HIDE DEF g
  <2>4. QED  BY <1>1, <2>2, <2>3
<1>3. Puts(f, <<b, c>>) = h[D]
  BY DEF Puts, Put, FoldLeft, MapThenFoldSet
<1>4. Eq(h)
  <2> HIDE DEF Eq, g
  <2>1. QED  BY <1>2
<1>5. /\ h[{}] = f /\ h[{1}] = Put(h[{1} \ {Max({1})}], <<b, c>>[Max({1})])
      /\ h[{1, 2}] = Put(h[{1, 2} \ {Max({1, 2})}], <<b, c>>[Max({1, 2})])
  <2> HIDE DEF h
  <2>1. QED  BY <1>1, <1>4
<1>6. {1} \ {1} = {} /\ <<b, c>>[1] = b /\ <<b, c>>[2] = c
  OBVIOUS
<1> HIDE DEF h
<1>7. QED  BY <1>1, <1>3, <1>5, <1>6, MaxOne, MaxTwo DEF h

LEMMA HandedOne ==
  ASSUME NEW f, NEW c
  PROVE  Handed(f, <<c>>) = HandleOneParam(f, c)
<1> DEFINE D == DOMAIN <<c>>
           Eq(h) == h = [s \in SUBSET D |-> IF s = {} THEN f
                                          ELSE HandleOneParam(h[s \ {Max(s)}], <<c>>[Max(s)])]
           g == [s \in SUBSET {1} |-> IF s = {} THEN f ELSE HandleOneParam(f, c)]
           h == CHOOSE h : Eq(h)
<1>1. D = {1}
  OBVIOUS
<1>2. Eq(g)
  <2>1. ASSUME NEW s \in SUBSET {1}, s # {} PROVE HandleOneParam(f, c) = HandleOneParam(g[s \ {Max(s)}], <<c>>[Max(s)])
    <3>1. s = {1} /\ s \ {Max(s)} = {}
      BY <2>1, MaxOne
    <3>2. QED  BY <3>1, MaxOne
  <2>2. QED  BY <1>1, <2>1
<1>3. Handed(f, <<c>>) = h[D]
  BY DEF Handed, FoldLeft, MapThenFoldSet
<1>4. Eq(h)
  <2> HIDE DEF Eq, g
  <2>1. QED  BY <1>2
<1>5. h[{}] = f /\ h[{1}] = HandleOneParam(h[{1} \ {Max({1})}], <<c>>[Max({1})])
  <2> HIDE DEF h
  <2>1. QED  BY <1>1, <1>4
<1>6. {1} \ {1} = {} /\ <<c>>[1] = c
  OBVIOUS
<1> HIDE DEF h
<1>7. QED  BY <1>1, <1>3, <1>5, <1>6, MaxOne DEF h

LEMMA HandedTwo ==
  ASSUME NEW f, NEW b, NEW c
  PROVE  Handed(f, <<b, c>>) = HandleOneParam(HandleOneParam(f, b), c)
<1> DEFINE D == DOMAIN <<b, c>>
           Eq(h) == h = [s \in SUBSET D |-> IF s = {} THEN f
                                          ELSE HandleOneParam(h[s \ {Max(s)}], <<b, c>>[Max(s)])]
           g == [s \in SUBSET {1, 2} |->
                   IF s = {} THEN f ELSE IF s = {1} THEN HandleOneParam(f, b)
                   ELSE IF s = {2} THEN HandleOneParam(f, c) ELSE HandleOneParam(HandleOneParam(f, b), c)]
           h == CHOOSE h : Eq(h)
<1>1. D = {1, 2}
  OBVIOUS
<1>2. Eq(g)
  <2>1. ASSUME NEW s \in SUBSET {1, 2}, s # {} PROVE g[s] = HandleOneParam(g[s \ {Max(s)}], <<b, c>>[Max(s)])
    <3>1. g[{}] = f /\ g[{1}] = HandleOneParam(f, b) /\ g[{2}] = HandleOneParam(f, c)
            /\ g[{1, 2}] = HandleOneParam(HandleOneParam(f, b), c)
      <4>1. {1, 2} # {1} /\ {1, 2} # {2} /\ {2} # {1} /\ {1, 2} # {} /\ {1} # {} /\ {2} # {}
        OBVIOUS
      <4>2. QED  BY <4>1
    <3>2. s = {1} \/ s = {2} \/ s = {1, 2}
      BY <2>1
    <3>3. {1} \ {1} = {} /\ {2} \ {2} = {} /\ <<b, c>>[1] = b /\ <<b, c>>[2] = c
      OBVIOUS
    <3> HIDE DEF g
    <3>4. QED  BY <3>1, <3>2, <3>3, MaxOne, MaxTwo
  <2>2. \A s \in SUBSET {1, 2} : g[s] = IF s = {} THEN f ELSE HandleOneParam(g[s \ {Max(s)}], <<b, c>>[Max(s)])
    BY <2>1
  <2>3. g = [s \in SUBSET {1, 2} |-> g[s]]
    OBVIOUS
  <2> HIDE DEF g
  <2>4. QED  BY <1>1, <2>2, <2>3
<1>3. Handed(f, <<b, c>>) = h[D]
  BY DEF Handed, FoldLeft, MapThenFoldSet
<1>4. Eq(h)
  <2> HIDE DEF Eq, g
  <2>1. QED  BY <1>2
<1>5. /\ h[{}] = f /\ h[{1}] = HandleOneParam(h[{1} \ {Max({1})}], <<b, c>>[Max({1})])
      /\ h[{1, 2}] = HandleOneParam(h[{1, 2} \ {Max({1, 2})}], <<b, c>>[Max({1, 2})])
  <2> HIDE DEF h
  <2>1. QED  BY <1>1, <1>4
<1>6. {1} \ {1} = {} /\ <<b, c>>[1] = b /\ <<b, c>>[2] = c
  OBVIOUS
<1> HIDE DEF h
<1>7. QED  BY <1>1, <1>3, <1>5, <1>6, MaxOne, MaxTwo DEF h


\* The call, with the record that it works on.
LEMMA CallbackIs ==
  ASSUME NEW batch, Callback(batch)
  PROVE  \E n : /\ n = Handed(Before, batch) /\ member' = n.member /\ changed' = n.changed /\ due' = n.count
                /\ stored' = IF n.refused THEN stored ELSE Puts(stored, batch)
  BY Zenon DEF Callback, Handed, Puts

-----------------------------------------------------------------------------
(* What a call makes of the members and the marks.                         *)

Node(n) ==
  /\ n \in [member : [OneParams -> Int], changed : SUBSET Flagged, count : BOOLEAN, refused : BOOLEAN]
  /\ \A p \in OneParams : n.member[p] \in Domain(p)

\* A parameter gets a value, and a mark if it is another one; or it is left alone.
Gets(n, m, p, v) == m.member[p] = v /\ (p \in m.changed <=> v # n.member[p])
Left(n, m, p) == m.member[p] = n.member[p] /\ (p \in m.changed <=> p \in n.changed)
LeftBut(n, m, set) == \A p \in OneParams \ set : Left(n, m, p)

LEMMA DomainsAre ==
  /\ \A p \in OneParams : Domain(p) \subseteq Int
  /\ \A g \in Ranged : /\ Domain(Automatic(g)) = {0, 1}
                       /\ Domain(Value(g)) = Lo..Hi /\ Domain(Low(g)) = Lo..Hi /\ Domain(High(g)) = Lo..Hi
  /\ Domain(White) = {0, 1} /\ Domain(Temperature) = {0, 1} /\ Domain(PubRate) = {0, 1}
  /\ \A f \in ImageFamilies : Domain(Picture(f)) = {0, 1}
<1>1. Lo \in Int /\ Hi \in Int
  BY ZedOneSettingsAssumption DEF ZedOneSettingsAssumption
<1>2. 0..1 = {0, 1} /\ \A g : /\ Automatic(g)[2] = "auto" /\ Value(g)[2] = "value" /\ Low(g)[2] = "min" /\ High(g)[2] = "max"
  BY DEF Automatic, Value, Low, High
<1>3. \A f \in ImageFamilies : Picture(f)[2] \notin {"value", "min", "max"}
  BY DEF Picture, ImageFamilies
<1>4. QED  BY <1>1, <1>2, <1>3 DEF Domain, White, Automatic, Temperature, PubRate

\* updateIntParam and updateBoolParam.
LEMMA UpdateIs ==
  ASSUME NEW n, Node(n), NEW p \in Flagged, NEW v \in Domain(p), NEW m, m = UpdateParam(n, p, v)
  PROVE  /\ Node(m) /\ Gets(n, m, p, v) /\ LeftBut(n, m, {p})
         /\ m.count = n.count /\ m.refused = n.refused
<1>1. p \in OneParams /\ v \in Int /\ Flagged \subseteq OneParams
  BY ParamsAre, DomainsAre
<1>2. PICK f : f = [n.member EXCEPT ![p] = v]
  OBVIOUS
<1>3. PICK s : s = IF v = n.member[p] THEN n.changed \ {p} ELSE n.changed \cup {p}
  OBVIOUS
<1>4. /\ n.member \in [OneParams -> Int] /\ n.changed \subseteq Flagged
      /\ n \in [member : [OneParams -> Int], changed : SUBSET Flagged, count : BOOLEAN, refused : BOOLEAN]
  BY DEF Node
<1>5. f \in [OneParams -> Int] /\ f[p] = v /\ \A q \in OneParams \ {p} : f[q] = n.member[q]
  BY <1>1, <1>2, <1>4
<1>6. s \subseteq Flagged /\ (p \in s <=> v # n.member[p]) /\ \A q \in OneParams \ {p} : q \in s <=> q \in n.changed
  BY <1>3, <1>4
<1>7. m = [n EXCEPT !.member = f, !.changed = s]
  BY <1>2, <1>3 DEF UpdateParam
<1>8. /\ m \in [member : [OneParams -> Int], changed : SUBSET Flagged, count : BOOLEAN, refused : BOOLEAN]
      /\ m.member = f /\ m.changed = s /\ m.count = n.count /\ m.refused = n.refused
  BY <1>4, <1>5, <1>6, <1>7
<1>9. \A q \in OneParams : m.member[q] \in Domain(q)
  BY <1>5, <1>8 DEF Node
<1>10. QED  BY <1>5, <1>6, <1>8, <1>9 DEF Node, Gets, Left, LeftBut

\* The same, for a parameter whose value is new: the call has counted it.
LEMMA CountIs ==
  ASSUME NEW n, Node(n), NEW m, m = [n EXCEPT !.count = TRUE]
  PROVE  Node(m) /\ m.member = n.member /\ m.changed = n.changed /\ m.count = TRUE /\ m.refused = n.refused
<1>1. /\ n \in [member : [OneParams -> Int], changed : SUBSET Flagged, count : BOOLEAN, refused : BOOLEAN]
      /\ \A q \in OneParams : n.member[q] \in Domain(q)
  BY DEF Node
<1>2. m \in [member : [OneParams -> Int], changed : SUBSET Flagged, count : BOOLEAN, refused : BOOLEAN]
      /\ m.member = n.member /\ m.changed = n.changed /\ m.count = TRUE /\ m.refused = n.refused
  BY <1>1
<1>3. QED  BY <1>1, <1>2 DEF Node

\* What becomes of a range, of the white balance and of the image.
RangeMoved(n, m, g, q, v) ==
  \/ v = n.member[q] /\ Gets(n, m, q, v) /\ LeftBut(n, m, {q})
  \/ v # n.member[q] /\ q = Automatic(g) /\ Gets(n, m, q, v) /\ LeftBut(n, m, {q})
  \/ /\ v # n.member[q] /\ q = Value(g) /\ Gets(n, m, q, v)
     /\ Gets(n, m, Automatic(g), 0) /\ Gets(n, m, Low(g), v) /\ Gets(n, m, High(g), v)
     /\ LeftBut(n, m, Family(g))
  \/ /\ v # n.member[q] /\ q \in {Low(g), High(g)} /\ Gets(n, m, q, v)
     /\ \A p \in {Low(g), High(g)} \ {q} : Left(n, m, p)
     /\ \/ m.member[Low(g)] # m.member[High(g)] /\ Gets(n, m, Automatic(g), 1) /\ Left(n, m, Value(g))
        \/ m.member[Low(g)] = m.member[High(g)] /\ Gets(n, m, Automatic(g), 0) /\ Gets(n, m, Value(g), v)
     /\ LeftBut(n, m, Family(g))
WhiteMoved(n, m, q, v) ==
  \/ v = n.member[q] /\ Gets(n, m, q, v) /\ LeftBut(n, m, {q})
  \/ v # n.member[q] /\ q = White /\ Gets(n, m, q, v) /\ LeftBut(n, m, {q})
  \/ /\ v # n.member[q] /\ q = Temperature /\ Gets(n, m, q, v) /\ Gets(n, m, White, 0)
     /\ LeftBut(n, m, Family("wb"))
Moved(n, m, q, v) ==
  /\ Node(m)
  /\ IF q = Picture("denoising") THEN m.refused = TRUE /\ LeftBut(n, m, {}) /\ m.count = n.count
     ELSE /\ m.refused = n.refused /\ m.count = (n.count \/ (q # PubRate /\ v # n.member[q]))
          /\ q = PubRate => m.member[q] = v /\ m.changed = n.changed /\ LeftBut(n, m, {q})
          /\ \A g \in Ranged : g = FamilyOf(q) => RangeMoved(n, m, g, q, v)
          /\ FamilyOf(q) = "wb" => WhiteMoved(n, m, q, v)
          /\ FamilyOf(q) \in ImageFamilies => Gets(n, m, q, v) /\ LeftBut(n, m, {q})

\* A parameter that keeps its value, or that nothing follows from.
LEMMA AloneIs ==
  ASSUME NEW n, Node(n), NEW q \in Flagged, NEW v \in Domain(q), NEW m, m = Handle(n, q, v, Alone)
  PROVE  /\ Node(m) /\ Gets(n, m, q, v) /\ LeftBut(n, m, {q})
         /\ m.refused = n.refused /\ m.count = (n.count \/ v # n.member[q])
<1>1. PICK u : u = UpdateParam(n, q, v)
  OBVIOUS
<1>2. Node(u) /\ Gets(n, u, q, v) /\ LeftBut(n, u, {q}) /\ u.count = n.count /\ u.refused = n.refused
  BY <1>1, UpdateIs
<1>3. n.count \in BOOLEAN
  BY DEF Node
<1>4. CASE v = n.member[q]
  <2>1. m = u
    BY <1>1, <1>4 DEF Handle
  <2>2. QED  BY <1>2, <1>3, <1>4, <2>1
<1>5. CASE v # n.member[q]
  <2>1. m = [u EXCEPT !.count = TRUE]
    BY <1>1, <1>5 DEF Handle, Alone
  <2>2. Node(m) /\ m.member = u.member /\ m.changed = u.changed /\ m.count = TRUE /\ m.refused = u.refused
    BY <1>2, <2>1, CountIs
  <2>3. Gets(n, m, q, v) /\ LeftBut(n, m, {q})
    BY <1>2, <2>2 DEF Gets, LeftBut, Left
  <2>4. QED  BY <1>2, <1>5, <2>2, <2>3
<1>6. QED  BY <1>4, <1>5

LEMMA RangedIs ==
  ASSUME NEW n, Node(n), NEW g \in Ranged, NEW q \in Family(g), NEW v \in Domain(q), NEW m, m = HandleRanged(n, q, v)
  PROVE  Node(m) /\ RangeMoved(n, m, g, q, v) /\ m.refused = n.refused /\ m.count = (n.count \/ v # n.member[q])
<1>1. PICK A, V, L, H : A = Automatic(g) /\ V = Value(g) /\ L = Low(g) /\ H = High(g)
  OBVIOUS
<1>2. /\ Family(g) = {A, V, L, H} /\ {A, V, L, H} \subseteq Flagged /\ Flagged \subseteq OneParams
      /\ A # V /\ A # L /\ A # H /\ V # L /\ V # H /\ L # H
      /\ q[1] = g /\ (q[2] = "auto" <=> q = A) /\ (q[2] = "value" <=> q = V)
      /\ q \in {A, V, L, H}
  <2>1. Family(g) = {A, V, L, H} /\ {A, V, L, H} \subseteq Flagged /\ Flagged \subseteq OneParams
    BY <1>1, ParamsAre
  <2>2. A = <<g, "auto">> /\ V = <<g, "value">> /\ L = <<g, "min">> /\ H = <<g, "max">>
    BY <1>1 DEF Automatic, Value, Low, High
  <2>3. q \in {A, V, L, H}
    BY <2>1
  <2>4. QED  BY <2>1, <2>2, <2>3
<1>3. /\ Domain(A) = {0, 1} /\ Domain(V) = Lo..Hi /\ Domain(L) = Lo..Hi /\ Domain(H) = Lo..Hi
      /\ n.count \in BOOLEAN
  BY <1>1, DomainsAre DEF Node
<1>4. PICK u : u = UpdateParam(n, q, v)
  OBVIOUS
<1>5. PICK c : c = [u EXCEPT !.count = TRUE]
  OBVIOUS
<1>6. Node(u) /\ Gets(n, u, q, v) /\ LeftBut(n, u, {q}) /\ u.count = n.count /\ u.refused = n.refused
  BY <1>2, <1>4, UpdateIs
<1>7. Node(c) /\ c.member = u.member /\ c.changed = u.changed /\ c.count = TRUE /\ c.refused = u.refused
  BY <1>5, <1>6, CountIs
<1>8. Gets(n, c, q, v) /\ LeftBut(n, c, {q}) /\ c.refused = n.refused
  BY <1>6, <1>7 DEF Gets, LeftBut, Left
<1>9. CASE v = n.member[q]
  <2>1. m = u
    BY <1>4, <1>9 DEF HandleRanged, Handle
  <2>2. RangeMoved(n, m, g, q, v)
    BY <1>6, <1>9, <2>1 DEF RangeMoved
  <2>3. QED  BY <1>3, <1>6, <1>9, <2>1, <2>2
<1>10. CASE v # n.member[q] /\ q = A
  <2>1. m = c
    BY <1>2, <1>4, <1>5, <1>10 DEF HandleRanged, Handle
  <2>2. RangeMoved(n, m, g, q, v)
    BY <1>1, <1>8, <1>10, <2>1 DEF RangeMoved
  <2>3. QED  BY <1>7, <1>8, <1>10, <2>1, <2>2
<1>11. CASE v # n.member[q] /\ q = V
  <2>1. m = FixRange(c, g, v)
    BY <1>2, <1>4, <1>5, <1>11 DEF HandleRanged, Handle
  <2>2. PICK u1, u2 : u1 = UpdateParam(c, A, 0) /\ u2 = UpdateParam(u1, L, v)
    OBVIOUS
  <2>3. m = UpdateParam(u2, H, v)
    BY <1>1, <2>1, <2>2 DEF FixRange
  <2>4. Node(u1) /\ Gets(c, u1, A, 0) /\ LeftBut(c, u1, {A}) /\ u1.count = c.count /\ u1.refused = c.refused
    BY <1>2, <1>3, <1>7, <2>2, UpdateIs
  <2>5. v \in Lo..Hi
    BY <1>3, <1>11
  <2>6. Node(u2) /\ Gets(u1, u2, L, v) /\ LeftBut(u1, u2, {L}) /\ u2.count = u1.count /\ u2.refused = u1.refused
    <3>1. L \in Flagged /\ v \in Domain(L) /\ Node(u1)
      BY <1>2, <1>3, <2>4, <2>5
    <3>2. QED  BY <2>2, <3>1, UpdateIs
  <2>7. Node(m) /\ Gets(u2, m, H, v) /\ LeftBut(u2, m, {H}) /\ m.count = u2.count /\ m.refused = u2.refused
    <3>1. H \in Flagged /\ v \in Domain(H) /\ Node(u2)
      BY <1>2, <1>3, <2>5, <2>6
    <3>2. QED  BY <2>3, <3>1, UpdateIs
  <2>8. Gets(n, m, A, 0)
    BY <1>2, <1>8, <1>11, <2>4, <2>6, <2>7 DEF LeftBut, Left, Gets
  <2>9. Gets(n, m, L, v)
    BY <1>2, <1>8, <1>11, <2>4, <2>6, <2>7 DEF LeftBut, Left, Gets
  <2>10. Gets(n, m, H, v)
    BY <1>2, <1>8, <1>11, <2>4, <2>6, <2>7 DEF LeftBut, Left, Gets
  <2>11. Gets(n, m, V, v)
    BY <1>2, <1>8, <1>11, <2>4, <2>6, <2>7 DEF LeftBut, Left, Gets
  <2>12. LeftBut(n, m, {A, V, L, H})
    BY <1>2, <1>8, <1>11, <2>4, <2>6, <2>7 DEF LeftBut, Left
  <2>13. RangeMoved(n, m, g, q, v)
    BY <1>1, <1>2, <1>11, <2>8, <2>9, <2>10, <2>11, <2>12 DEF RangeMoved
  <2>14. QED  BY <1>7, <1>8, <1>11, <2>4, <2>6, <2>7, <2>13
<1>12. CASE v # n.member[q] /\ q \in {L, H}
  <2>1. m = FixValue(c, g, v)
    BY <1>2, <1>4, <1>5, <1>12 DEF HandleRanged, Handle
  <2>2. v \in Lo..Hi /\ q # A /\ q # V
    BY <1>2, <1>3, <1>12
  <2>3. CASE c.member[L] # c.member[H]
    <3>1. m = UpdateParam(c, A, 1)
      BY <1>1, <2>1, <2>3 DEF FixValue
    <3>2. Node(m) /\ Gets(c, m, A, 1) /\ LeftBut(c, m, {A}) /\ m.count = c.count /\ m.refused = c.refused
      BY <1>2, <1>3, <1>7, <3>1, UpdateIs
    <3>3. Gets(n, m, A, 1) /\ Left(n, m, V)
      BY <1>2, <1>8, <1>12, <3>2 DEF LeftBut, Left, Gets
    <3>4. Gets(n, m, q, v) /\ \A p \in {L, H} \ {q} : Left(n, m, p)
      BY <1>2, <1>8, <1>12, <3>2 DEF LeftBut, Left, Gets
    <3>5. m.member[L] # m.member[H]
      BY <1>2, <2>3, <3>2 DEF LeftBut, Left
    <3>6. LeftBut(n, m, {A, V, L, H})
      BY <1>2, <1>8, <1>12, <3>2 DEF LeftBut, Left
    <3>7. RangeMoved(n, m, g, q, v)
      BY <1>1, <1>2, <1>12, <3>3, <3>4, <3>5, <3>6 DEF RangeMoved
    <3>8. QED  BY <1>7, <1>8, <1>12, <3>2, <3>7
  <2>4. CASE c.member[L] = c.member[H]
    <3>1. PICK u1 : u1 = UpdateParam(c, A, 0)
      OBVIOUS
    <3>2. m = UpdateParam(u1, V, v)
      BY <1>1, <2>1, <2>4, <3>1 DEF FixValue
    <3>3. Node(u1) /\ Gets(c, u1, A, 0) /\ LeftBut(c, u1, {A}) /\ u1.count = c.count /\ u1.refused = c.refused
      BY <1>2, <1>3, <1>7, <3>1, UpdateIs
    <3>4. Node(m) /\ Gets(u1, m, V, v) /\ LeftBut(u1, m, {V}) /\ m.count = u1.count /\ m.refused = u1.refused
      BY <1>2, <1>3, <2>2, <3>2, <3>3, UpdateIs
    <3>5. Gets(n, m, A, 0) /\ Gets(n, m, V, v)
      BY <1>2, <1>8, <1>12, <3>3, <3>4 DEF LeftBut, Left, Gets
    <3>6. Gets(n, m, q, v) /\ \A p \in {L, H} \ {q} : Left(n, m, p)
      BY <1>2, <1>8, <1>12, <3>3, <3>4 DEF LeftBut, Left, Gets
    <3>7. m.member[L] = m.member[H]
      BY <1>2, <2>4, <3>3, <3>4 DEF LeftBut, Left
    <3>8. LeftBut(n, m, {A, V, L, H})
      BY <1>2, <1>8, <1>12, <3>3, <3>4 DEF LeftBut, Left
    <3>9. RangeMoved(n, m, g, q, v)
      BY <1>1, <1>2, <1>12, <3>5, <3>6, <3>7, <3>8 DEF RangeMoved
    <3>10. QED  BY <1>7, <1>8, <1>12, <3>3, <3>4, <3>9
  <2>5. QED  BY <2>3, <2>4
<1>13. QED  BY <1>2, <1>9, <1>10, <1>11, <1>12

LEMMA WhiteIs ==
  ASSUME NEW n, Node(n), NEW q \in Family("wb"), NEW v \in Domain(q), NEW m, m = HandleWhiteBalance(n, q, v)
  PROVE  Node(m) /\ WhiteMoved(n, m, q, v) /\ m.refused = n.refused /\ m.count = (n.count \/ v # n.member[q])
<1>1. PICK X, T : X = White /\ T = Temperature
  OBVIOUS
<1>2. /\ Family("wb") = {X, T} /\ {X, T} \subseteq Flagged /\ Flagged \subseteq OneParams /\ X # T
      /\ X = Automatic("wb") /\ q \in {X, T}
  BY <1>1, ParamsAre DEF White, Temperature, Automatic
<1>3. Domain(X) = {0, 1} /\ n.count \in BOOLEAN
  BY <1>1, DomainsAre DEF Node
<1>4. PICK u : u = UpdateParam(n, q, v)
  OBVIOUS
<1>5. PICK c : c = [u EXCEPT !.count = TRUE]
  OBVIOUS
<1>6. Node(u) /\ Gets(n, u, q, v) /\ LeftBut(n, u, {q}) /\ u.count = n.count /\ u.refused = n.refused
  <2>1. q \in Flagged
    BY <1>2
  <2>2. QED  BY <1>4, <2>1, UpdateIs
<1>7. Node(c) /\ c.member = u.member /\ c.changed = u.changed /\ c.count = TRUE /\ c.refused = u.refused
  BY <1>5, <1>6, CountIs
<1>8. Gets(n, c, q, v) /\ LeftBut(n, c, {q}) /\ c.refused = n.refused
  BY <1>6, <1>7 DEF Gets, LeftBut, Left
<1>9. CASE v = n.member[q]
  <2>1. m = u
    BY <1>4, <1>9 DEF HandleWhiteBalance, Handle
  <2>2. QED  BY <1>3, <1>6, <1>9, <2>1 DEF WhiteMoved
<1>10. CASE v # n.member[q] /\ q = X
  <2>1. m = c
    BY <1>1, <1>2, <1>4, <1>5, <1>10 DEF HandleWhiteBalance, Handle
  <2>2. QED  BY <1>1, <1>7, <1>8, <1>10, <2>1 DEF WhiteMoved
<1>11. CASE v # n.member[q] /\ q = T
  <2>1. m = UpdateParam(c, X, 0)
    BY <1>1, <1>2, <1>4, <1>5, <1>11 DEF HandleWhiteBalance, Handle
  <2>2. Node(m) /\ Gets(c, m, X, 0) /\ LeftBut(c, m, {X}) /\ m.count = c.count /\ m.refused = c.refused
    BY <1>2, <1>3, <1>7, <2>1, UpdateIs
  <2>3. Gets(n, m, X, 0) /\ Gets(n, m, T, v) /\ LeftBut(n, m, {X, T})
    BY <1>2, <1>8, <1>11, <2>2 DEF LeftBut, Left, Gets
  <2>4. WhiteMoved(n, m, q, v)
    BY <1>1, <1>2, <1>11, <2>3 DEF WhiteMoved
  <2>5. QED  BY <1>7, <1>8, <1>11, <2>2, <2>4
<1>12. QED  BY <1>2, <1>9, <1>10, <1>11

\* A parameter of a call.
LEMMA MovedIs ==
  ASSUME NEW n, Node(n), n.refused = FALSE, NEW q \in OneParams, NEW v \in Domain(q), NEW m,
         m = HandleOneParam(n, <<q, v>>)
  PROVE  Moved(n, m, q, v)
<1>1. PICK c : c = <<q, v>>
  OBVIOUS
<1>2. c[1] = q /\ c[2] = v /\ m = HandleOneParam(n, c)
  BY <1>1
<1>3. FamilyOf(q) \in Ranged \cup ImageFamilies \cup {"wb", "sensors"} /\ q \in Family(FamilyOf(q)) /\ v \in Int
  BY ParamsAre, DomainsAre DEF Family
<1>4. n.count \in BOOLEAN /\ n.member \in [OneParams -> Int]
      /\ n \in [member : [OneParams -> Int], changed : SUBSET Flagged, count : BOOLEAN, refused : BOOLEAN]
      /\ \A p \in OneParams : n.member[p] \in Domain(p)
  BY DEF Node
<1>5. CASE q = PubRate
  <2>1. FamilyOf(q) = "sensors" /\ q # Picture("denoising")
    BY <1>5 DEF FamilyOf, PubRate, Picture
  <2>2. PICK f : f = [n.member EXCEPT ![q] = v]
    OBVIOUS
  <2>3. m = [n EXCEPT !.member = f]
    BY <1>2, <1>5, <2>2 DEF HandleOneParam
  <2>4. f \in [OneParams -> Int] /\ f[q] = v /\ \A p \in OneParams \ {q} : f[p] = n.member[p]
    BY <1>3, <1>4, <2>2
  <2>5. /\ m \in [member : [OneParams -> Int], changed : SUBSET Flagged, count : BOOLEAN, refused : BOOLEAN]
        /\ m.member = f /\ m.changed = n.changed /\ m.count = n.count /\ m.refused = n.refused
    BY <1>4, <2>3, <2>4
  <2>6. \A p \in OneParams : m.member[p] \in Domain(p)
    BY <1>4, <2>4, <2>5
  <2>7. Node(m)
    BY <2>5, <2>6 DEF Node
  <2>8. LeftBut(n, m, {q}) /\ m.member[q] = v
    BY <2>4, <2>5 DEF LeftBut, Left
  <2>9. m.count = (n.count \/ (q # PubRate /\ v # n.member[q]))
    BY <1>4, <1>5, <2>5
  <2>10. QED  BY <1>5, <2>1, <2>5, <2>7, <2>8, <2>9, ParamsAre DEF Moved
<1>6. CASE q # PubRate
  <2>1. m = HandleDynamicVideoParam(n, q, v) /\ FamilyOf(q) # "sensors" /\ q \in Flagged
    <3>1. m = HandleDynamicVideoParam(n, q, v)
      BY <1>2, <1>6 DEF HandleOneParam
    <3>2. QED  BY <1>3, <1>6, <3>1, ParamsAre DEF OneParams
  <2>2. CASE FamilyOf(q) \in Ranged
    <3>1. PICK g : g = FamilyOf(q)
      OBVIOUS
    <3>2. q[1] = g /\ g \in {"exposure", "analog", "digital"} /\ q[1] # "image" /\ q[1] # "wb"
            /\ q # Picture("denoising")
          /\ g \notin ImageFamilies /\ g # "wb"
      <4>1. q \in {Automatic(g), Value(g), Low(g), High(g)} /\ g \in {"exposure", "analog", "digital"}
        BY <1>3, <2>2, <3>1, ParamsAre
      <4>2. q[1] = g
        BY <4>1 DEF Automatic, Value, Low, High
      <4>3. Picture("denoising")[1] = "image"
        BY DEF Picture
      <4>4. QED  BY <4>1, <4>2, <4>3 DEF ImageFamilies
    <3>3. m = HandleRanged(n, q, v)
      BY <2>1, <3>2 DEF HandleDynamicVideoParam, HandleExposure, HandleAnalogGain, HandleDigitalGain
    <3>4. Node(m) /\ RangeMoved(n, m, g, q, v) /\ m.refused = n.refused /\ m.count = (n.count \/ v # n.member[q])
      BY <1>3, <2>2, <3>1, <3>3, RangedIs
    <3>5. QED  BY <1>6, <3>1, <3>2, <3>4 DEF Moved
  <2>3. CASE FamilyOf(q) = "wb"
    <3>1. q[1] = "wb" /\ q # Picture("denoising") /\ "wb" \notin Ranged /\ "wb" \notin ImageFamilies
      <4>1. q \in {White, Temperature}
        BY <1>3, <2>3, ParamsAre
      <4>2. q[1] = "wb"
        BY <4>1 DEF White, Automatic, Temperature
      <4>3. Picture("denoising")[1] = "image"
        BY DEF Picture
      <4>4. QED  BY <4>2, <4>3 DEF ImageFamilies, Ranged
    <3>2. m = HandleWhiteBalance(n, q, v)
      BY <2>1, <3>1 DEF HandleDynamicVideoParam
    <3>3. Node(m) /\ WhiteMoved(n, m, q, v) /\ m.refused = n.refused /\ m.count = (n.count \/ v # n.member[q])
      BY <1>3, <2>3, <3>2, WhiteIs
    <3>4. QED  BY <1>6, <2>3, <3>1, <3>3 DEF Moved
  <2>4. CASE FamilyOf(q) \in ImageFamilies
    <3>1. PICK f : f = FamilyOf(q)
      OBVIOUS
    <3>2. q = Picture(f) /\ f \in ImageFamilies /\ f \notin Ranged /\ f # "wb"
      <4>1. Family(f) = {Picture(f)} /\ f \notin Ranged /\ f # "wb"
        BY <2>4, <3>1, ParamsAre
      <4>2. QED  BY <1>3, <2>4, <3>1, <4>1
    <3>3. q[1] = "image" /\ q[2] = f /\ (q = Picture("denoising") <=> f = "denoising")
      BY <3>2 DEF Picture
    <3>4. CASE f = "denoising"
      <4>1. m = [n EXCEPT !.refused = TRUE]
        BY <2>1, <3>3, <3>4 DEF HandleDynamicVideoParam
      <4>2. /\ m \in [member : [OneParams -> Int], changed : SUBSET Flagged, count : BOOLEAN, refused : BOOLEAN]
            /\ m.member = n.member /\ m.changed = n.changed /\ m.count = n.count /\ m.refused = TRUE
        BY <1>4, <4>1
      <4>3. Node(m) /\ LeftBut(n, m, {})
        BY <1>4, <4>2 DEF Node, LeftBut, Left
      <4>4. QED  BY <3>3, <3>4, <4>2, <4>3 DEF Moved
    <3>5. CASE f # "denoising"
      <4>1. m = Handle(n, q, v, Alone)
        BY <2>1, <3>3, <3>5 DEF HandleDynamicVideoParam, HandleSaturationSharpnessGamma
      <4>2. /\ Node(m) /\ Gets(n, m, q, v) /\ LeftBut(n, m, {q})
            /\ m.refused = n.refused /\ m.count = (n.count \/ v # n.member[q])
        BY <2>1, <4>1, AloneIs
      <4>3. QED  BY <1>6, <3>1, <3>2, <3>3, <3>5, <4>2 DEF Moved
    <3>6. QED  BY <3>4, <3>5
  <2>5. QED  BY <1>3, <2>1, <2>2, <2>3, <2>4
<1>7. QED  BY <1>5, <1>6

\* A call with one parameter, and with two.
LEMMA BeforeIs ==
  ASSUME OneTyped
  PROVE  Node(Before) /\ Before.refused = FALSE /\ Before.member = member /\ Before.changed = changed
           /\ Before.count = FALSE
<1>1. Before.refused = FALSE /\ Before.member = member /\ Before.changed = changed /\ Before.count = FALSE
  BY DEF Before
<1>2. Before \in [member : [OneParams -> Int], changed : SUBSET Flagged, count : BOOLEAN, refused : BOOLEAN]
  BY DEF Before, OneTyped, OneSettingsTypeOK
<1>3. \A p \in OneParams : member[p] \in Domain(p)
  BY ModeTyped
<1>4. QED  BY <1>1, <1>2, <1>3 DEF Node

LEMMA CallbackOne ==
  ASSUME OneTyped, NEW q \in OneParams, NEW v \in Domain(q), Callback(<<<<q, v>>>>)
  PROVE  \E n : /\ Moved(Before, n, q, v) /\ member' = n.member /\ changed' = n.changed /\ due' = n.count
                /\ stored' = IF n.refused THEN stored ELSE [stored EXCEPT ![q] = v]
<1>1. PICK c, batch : c = <<q, v>> /\ batch = <<c>>
  OBVIOUS
<1>2. Callback(batch)
  BY <1>1
<1>3. PICK n : /\ n = Handed(Before, batch) /\ member' = n.member /\ changed' = n.changed /\ due' = n.count
               /\ stored' = IF n.refused THEN stored ELSE Puts(stored, batch)
  BY <1>2, CallbackIs, Zenon
<1>4. n = HandleOneParam(Before, c)
  BY <1>1, <1>3, HandedOne
<1>5. Moved(Before, n, q, v)
  BY <1>1, <1>4, BeforeIs, MovedIs
<1>6. Puts(stored, batch) = [stored EXCEPT ![q] = v]
  BY <1>1, PutOfOne DEF Put
<1>7. QED  BY <1>3, <1>5, <1>6

Both(m, n, q, v, r, w) ==
  /\ Moved(Before, m, q, v) /\ IF m.refused THEN n = m ELSE Moved(m, n, r, w)
  /\ member' = n.member /\ changed' = n.changed /\ due' = n.count
  /\ stored' = IF n.refused THEN stored ELSE [[stored EXCEPT ![q] = v] EXCEPT ![r] = w]

LEMMA CallbackTwo ==
  ASSUME OneTyped, NEW q \in OneParams, NEW v \in Domain(q), NEW r \in OneParams, NEW w \in Domain(r),
         Callback(<<<<q, v>>, <<r, w>>>>)
  PROVE  \E m, n : Both(m, n, q, v, r, w)
<1>1. PICK b, c, batch : b = <<q, v>> /\ c = <<r, w>> /\ batch = <<b, c>>
  OBVIOUS
<1>2. Callback(batch)
  BY <1>1
<1>3. PICK n : /\ n = Handed(Before, batch) /\ member' = n.member /\ changed' = n.changed /\ due' = n.count
               /\ stored' = IF n.refused THEN stored ELSE Puts(stored, batch)
  BY <1>2, CallbackIs, Zenon
<1>4. PICK m : m = HandleOneParam(Before, b)
  OBVIOUS
<1>5. n = HandleOneParam(m, c)
  BY <1>1, <1>3, <1>4, HandedTwo
<1>6. Moved(Before, m, q, v)
  BY <1>1, <1>4, BeforeIs, MovedIs
<1>7. IF m.refused THEN n = m ELSE Moved(m, n, r, w)
  <2>1. Node(m) /\ m.refused \in BOOLEAN
    BY <1>6 DEF Moved, Node
  <2>2. CASE m.refused = TRUE
    BY <1>5, <2>2 DEF HandleOneParam
  <2>3. CASE m.refused = FALSE
    BY <1>1, <1>5, <2>1, <2>3, MovedIs
  <2>4. QED  BY <2>1, <2>2, <2>3
<1>8. Puts(stored, batch) = [[stored EXCEPT ![q] = v] EXCEPT ![r] = w]
  BY <1>1, PutOfTwo DEF Put
<1>9. Both(m, n, q, v, r, w)
  BY <1>3, <1>6, <1>7, <1>8 DEF Both
<1>10. QED  BY <1>9, Zenon

-----------------------------------------------------------------------------
(* What the grab thread sets in its turn.                                  *)

\* The family that it sets something of, once the callback is there.
Sets(g, n, v) ==
  /\ one' = one /\ camera' = camera /\ rounds' = rounds /\ registered = TRUE /\ registered' = TRUE
  /\ disturbed \subseteq disturbed'
       /\ (Sound(g)' => ~(P \in changed /\ P \in Dials /\ P \notin changed' /\ camera[P] # member[P]))
  /\ member' = n.member /\ changed' = n.changed
  /\ stored'[P] = v /\ \A p \in OneParams \ {P} : stored'[p] = stored[p]

LEMMA SetsLive ==
  ASSUME NEW g, NEW n, NEW v, Sets(g, n, v)
  PROVE  /\ Sound(g)' => Sound(g)
         /\ Live(g)' => Live(g)
         /\ Tidy(g)' => Live(g)
         /\ White0(g)' => White0(g)
         /\ (Sound(g) => Live(g)) /\ (Live(g) => White0(g))  /\ (Live(g) => Tidy(g))
<1>1. Sound(g)' => Sound(g)
  BY DEF Sets, Sound
<1>2. QED  BY <1>1 DEF Sets, Live, Tidy, White0

LEMMA SetsRange ==
  ASSUME OneInd, NEW g \in Ranged, g \in one.ranged, NEW n, NEW v \in Domain(P), Sets(g, n, v),
         RangeMoved(Before, n, g, P, v),
         P \in Family(g), NEW x \in Stages, NEW y \in Stages, RangeTurn("set", P[2], v, x, y), Means(g, x)
  PROVE  Means(g, y)'
<1>1. PICK A, V, L, H : A = Automatic(g) /\ V = Value(g) /\ L = Low(g) /\ H = High(g)
  OBVIOUS
<1>2. /\ Family(g) = {A, V, L, H} /\ Family(g) \subseteq OneParams /\ L \in Dials /\ H \in Dials
      /\ A # V /\ A # L /\ A # H /\ V # L /\ V # H /\ L # H /\ A \notin Dials /\ V \notin Dials
      /\ A[2] = "auto" /\ V[2] = "value" /\ L[2] = "min" /\ H[2] = "max"
  BY <1>1, ParamsAre DEF Automatic, Value, Low, High
<1>3. /\ member[A] \in {0, 1} /\ Lo < Hi /\ Lo \in Int /\ Hi \in Int
      /\ \A p \in Family(g) : member[p] \in Int
  BY <1>1, <1>2, ModeTyped DEF OneInd
<1>4. /\ Sound(g)' => Sound(g)
      /\ Live(g)' => Live(g)
      /\ Tidy(g)' => Live(g)
      /\ White0(g)' => White0(g)
      /\ (Sound(g) => Live(g)) /\ (Live(g) => White0(g)) /\ (Live(g) => Tidy(g))
      /\ Sound(g)' => Live(g)'
  <2>1. Sound(g)' => Live(g)'
    BY DEF Live
  <2>2. QED  BY <2>1, SetsLive
<1>5. /\ member'[P] = v /\ (P \in changed' <=> v # member[P])
      /\ stored'[P] = v /\ \A p \in Family(g) \ {P} : stored'[p] = stored[p]
      /\ one' = one /\ camera' = camera /\ rounds' = rounds /\ registered /\ registered'
      /\ Sound(g)' => ~(P \in changed /\ P \in Dials /\ P \notin changed' /\ camera[P] # member[P])
  BY <1>2 DEF RangeMoved, Gets, Sets, Before
<1>6. v = member[P] \/ P = A =>
         \A p \in Family(g) \ {P} : member'[p] = member[p] /\ (p \in changed' <=> p \in changed)
  BY <1>1, <1>2 DEF RangeMoved, Gets, Left, LeftBut, Sets, Before
<1>7. v # member[P] /\ P = V =>
         /\ member'[A] = 0 /\ member'[L] = v /\ member'[H] = v
         /\ (A \in changed' <=> member[A] # 0) /\ (L \in changed' <=> member[L] # v)
              /\ (H \in changed' <=> member[H] # v)
  BY <1>1, <1>2 DEF RangeMoved, Gets, Left, LeftBut, Sets, Before
<1>8. v # member[P] /\ P \in {L, H} =>
         /\ \A p \in {L, H} \ {P} : member'[p] = member[p] /\ (p \in changed' <=> p \in changed)
         /\ \/ /\ member'[L] # member'[H] /\ member'[A] = 1 /\ (A \in changed' <=> member[A] # 1)
               /\ member'[V] = member[V] /\ (V \in changed' <=> V \in changed)
            \/ /\ member'[L] = member'[H] /\ member'[A] = 0 /\ (A \in changed' <=> member[A] # 0)
               /\ member'[V] = v /\ (V \in changed' <=> member[V] # v)
  BY <1>1, <1>2 DEF RangeMoved, Gets, Left, LeftBut, Sets, Before
<1>9. RangeStage(g, x[1], x[2])
  BY RangeMeans
<1>10. CASE P = A /\ v = 0 /\ x[1] = "zero" /\ y = <<"low", x[2]>>
  <2>1. Manual0(g) /\ (Live(g) => member[V] = x[2]) /\ (Sound(g) => CarriedRange(g))
    BY <1>1, <1>9, <1>10 DEF RangeStage
  <2>2. Manual0(g)' /\ (Live(g)' => member'[V] = x[2]) /\ (Sound(g)' => CarriedRange(g)')
    BY <1>1, <1>2, <1>4, <1>5, <1>6, <1>10, <2>1 DEF Manual0, CarriedRange, Carried
  <2>3. RangeStage(g, "low", x[2])'
    BY <1>1, <2>2 DEF RangeStage
  <2>4. QED  BY <1>5, <1>10, <2>3, RangeMeansNext
<1>11. CASE P = L /\ x = <<"low", v>> /\ y = <<"high", v>>
  <2>1. Manual0(g) /\ (Live(g) => member[V] = v) /\ (Sound(g) => CarriedRange(g))
    BY <1>1, <1>9, <1>11 DEF RangeStage
  <2>2. Live(g)' => member'[V] = v /\ member'[L] = v /\ (member'[A] = 0 \/ v # member'[H])
    BY <1>1, <1>2, <1>4, <1>5, <1>6, <1>8, <1>11, <2>1 DEF Manual0
  <2>3. Sound(g)' => CarriedRange(g)' /\ Saved(L)'
    BY <1>1, <1>2, <1>4, <1>5, <1>6, <1>8, <1>11, <2>1 DEF CarriedRange, Carried, Saved
  <2>4. RangeStage(g, "high", v)'
    BY <1>1, <2>2, <2>3 DEF RangeStage
  <2>5. QED  BY <1>5, <1>11, <2>4, RangeMeansNext
<1>12. CASE P = H /\ x = <<"high", v>> /\ y = At0("even")
  <2>1. /\ Live(g) => /\ member[V] = v /\ member[L] = v
                      /\ member[A] = 0 \/ v # member[H]
        /\ Sound(g) => CarriedRange(g) /\ Saved(L)
    BY <1>1, <1>9, <1>12 DEF RangeStage
  <2>2. Live(g)' => Agree(g)'
    BY <1>1, <1>2, <1>4, <1>5, <1>6, <1>8, <1>12, <2>1 DEF Agree
  <2>3. Sound(g)' => CarriedRange(g)' /\ SavedRange(g)'
    BY <1>1, <1>2, <1>4, <1>5, <1>6, <1>8, <1>12, <2>1 DEF CarriedRange, Carried, Saved, SavedRange
  <2>4. RangeStage(g, "even", 0)'
    BY <1>1, <2>2, <2>3 DEF RangeStage
  <2>5. QED  BY <1>5, <1>12, <2>4, RangeMeansNext DEF At0
<1>13. CASE P = L /\ v = Lo /\ x = At0("widen") /\ y = At0("wide")
  <2>1. (Live(g) => member[A] = 1) /\ (Sound(g) => CarriedRange(g))
    BY <1>1, <1>9, <1>13 DEF RangeStage, At0
  <2>2. Live(g)' => member'[L] = Lo /\ (member'[A] = 1 \/ member'[H] = Lo)
    BY <1>1, <1>2, <1>4, <1>5, <1>6, <1>8, <1>13, <2>1
  <2>3. Sound(g)' => CarriedRange(g)' /\ Saved(L)'
    BY <1>1, <1>2, <1>4, <1>5, <1>6, <1>8, <1>13, <2>1 DEF CarriedRange, Carried, Saved
  <2>4. RangeStage(g, "wide", 0)'
    BY <1>1, <2>2, <2>3 DEF RangeStage
  <2>5. QED  BY <1>5, <1>13, <2>4, RangeMeansNext DEF At0
<1>14. CASE P = H /\ v = Hi /\ x = At0("wide") /\ y = At0("even")
  <2>1. /\ Live(g) => member[L] = Lo /\ (member[A] = 1 \/ member[H] = Lo)
        /\ Sound(g) => CarriedRange(g) /\ Saved(L)
    BY <1>1, <1>9, <1>14 DEF RangeStage, At0
  <2>2. Live(g)' => Agree(g)'
    BY <1>1, <1>2, <1>3, <1>4, <1>5, <1>6, <1>8, <1>14, <2>1 DEF Agree
  <2>3. Sound(g)' => CarriedRange(g)' /\ SavedRange(g)'
    BY <1>1, <1>2, <1>4, <1>5, <1>6, <1>8, <1>14, <2>1 DEF CarriedRange, Carried, Saved, SavedRange
  <2>4. RangeStage(g, "even", 0)'
    BY <1>1, <2>2, <2>3 DEF RangeStage
  <2>5. QED  BY <1>5, <1>14, <2>4, RangeMeansNext DEF At0
<1>15. CASE P = A /\ v = 0 /\ x[1] = "sole" /\ y = <<"value", x[2]>>
  <2>1. /\ (Live(g) => Agree(g)) /\ (Sound(g) => CarriedRange(g) /\ SavedRange(g)) /\ (Tidy(g) => Unmarked(g))
        /\ White0(g) => member[L] = x[2] /\ member[H] = x[2]
    BY <1>1, <1>9, <1>15 DEF RangeStage
  <2>2. Live(g) => member[A] = 0
    BY <1>1, <1>4, <2>1 DEF Agree
  <2>3. (Live(g)' => Agree(g)') /\ (Sound(g)' => CarriedRange(g)' /\ SavedRange(g)')
    BY <1>1, <1>2, <1>4, <1>5, <1>6, <1>15, <2>1, <2>2 DEF Agree, CarriedRange, Carried, Saved, SavedRange
  <2>4. /\ Tidy(g)' => Unmarked(g)'
        /\ White0(g)' => member'[L] = x[2] /\ member'[H] = x[2] /\ member'[A] = 0
        /\ Saved(A)'
    <3>1. Family(g)' = Family(g)
      OBVIOUS
    <3>2. QED  BY <1>1, <1>2, <1>4, <1>5, <1>6, <1>15, <2>1, <2>2, <3>1 DEF Saved, Unmarked
  <2>5. RangeStage(g, "value", x[2])'
    BY <1>1, <2>3, <2>4 DEF RangeStage
  <2>6. QED  BY <1>5, <1>15, <2>5, RangeMeansNext
<1>16. CASE P = V /\ x = <<"value", v>> /\ y = At0("idle")
  <2>1. /\ (Live(g) => Agree(g)) /\ (Sound(g) => CarriedRange(g) /\ SavedRange(g)) /\ (Tidy(g) => Unmarked(g))
        /\ White0(g) => member[L] = v /\ member[H] = v /\ member[A] = 0
        /\ Sound(g) => Saved(A)
    BY <1>1, <1>9, <1>16 DEF RangeStage
  <2>2. Live(g) => member[V] = v
    BY <1>1, <1>4, <2>1 DEF Agree
  <2>3. White0(g)' => member'[A] = 0
    BY <1>2, <1>4, <1>5, <1>6, <1>7, <1>16, <2>1
  <2>4. Live(g)' => Unmarked(g)'
    <3>1. Family(g)' = Family(g)
      OBVIOUS
    <3>2. QED  BY <1>2, <1>4, <1>5, <1>6, <1>16, <2>1, <2>2, <3>1 DEF Unmarked
  <2>5. Live(g)' => \A p \in Family(g) : member'[p] = member[p] /\ (p \in changed' <=> p \in changed)
    <3>1. Live(g) => V \notin changed
      BY <1>2, <1>4, <2>1 DEF Unmarked
    <3>2. QED  BY <1>2, <1>4, <1>5, <1>6, <1>16, <2>2, <3>1
  <2>6. Sound(g)' => Arrived(g)'
    <3>1. SUFFICES ASSUME Sound(g)' PROVE Arrived(g)'
      OBVIOUS
    <3>2. /\ Agree(g) /\ CarriedRange(g) /\ SavedRange(g) /\ Unmarked(g) /\ Saved(A) /\ member[A] = 0
          /\ member[L] = v /\ member[H] = v /\ member[V] = v
      BY <1>4, <2>1, <2>2, <3>1
    <3>3. \A p \in Family(g) : member'[p] = member[p] /\ (p \in changed' <=> p \in changed) /\ p \notin changed
      BY <1>4, <2>5, <3>1, <3>2 DEF Unmarked
    <3>4. WaitsRange(g)'
      BY <1>1, <1>2, <1>5, <3>2, <3>3 DEF WaitsRange, CarriedRange, Carried
    <3>5. Agree(g)' /\ Saved(A)' /\ SavedRange(g)' /\ Saved(V)'
      BY <1>1, <1>2, <1>5, <1>16, <3>2, <3>3 DEF Agree, Saved, SavedRange
    <3>6. g # "wb" /\ g \notin ImageFamilies
      BY ParamsAre
    <3>7. QED  BY <1>1, <1>4, <2>4, <3>1, <3>4, <3>5, <3>6 DEF Arrived, Waits
  <2>7. Idle1(g)'
    <3>1. rounds' = 2 => Unmarked(g)'
      BY <2>4 DEF Live
    <3>2. rounds' = 1 => Split(g)' /\ registered'
      BY <1>1, <1>5, <2>3 DEF White0, Split
    <3>3. QED  BY <2>6, <3>1, <3>2 DEF Idle1
  <2>8. RangeStage(g, "idle", 0)'
    BY DEF RangeStage
  <2>9. QED  BY <1>5, <1>16, <2>7, <2>8, RangeMeansNext DEF At0
<1>17. CASE P = A /\ v = 1 /\ x = At0("multi") /\ y = At0("idle")
  <2>1. /\ (Live(g) => Agree(g)) /\ (Sound(g) => CarriedRange(g) /\ SavedRange(g)) /\ (Tidy(g) => Unmarked(g))
        /\ White0(g) => member[L] # member[H]
    BY <1>1, <1>9, <1>17 DEF RangeStage, At0
  <2>2. Live(g) => member[A] = 1
    BY <1>1, <1>3, <1>4, <2>1 DEF Agree
  <2>3. Live(g)' => \A p \in Family(g) : member'[p] = member[p] /\ (p \in changed' <=> p \in changed)
          /\ p \notin changed
    <3>1. Live(g) => \A p \in Family(g) : p \notin changed
      BY <1>4, <2>1 DEF Unmarked
    <3>2. QED  BY <1>2, <1>4, <1>5, <1>6, <1>17, <2>2, <3>1
  <2>4. Sound(g)' => Arrived(g)'
    <3>1. SUFFICES ASSUME Sound(g)' PROVE Arrived(g)'
      OBVIOUS
    <3>2. Agree(g) /\ CarriedRange(g) /\ SavedRange(g) /\ member[A] = 1
      BY <1>4, <2>1, <2>2, <3>1
    <3>3. \A p \in Family(g) : member'[p] = member[p] /\ (p \in changed' <=> p \in changed) /\ p \notin changed
      BY <1>4, <2>3, <3>1
    <3>4. WaitsRange(g)'
      BY <1>1, <1>2, <1>5, <1>17, <3>2, <3>3 DEF WaitsRange, CarriedRange, Carried, SavedRange, Saved
    <3>5. Agree(g)' /\ Saved(A)' /\ SavedRange(g)' /\ member'[A] = 1
      BY <1>1, <1>2, <1>5, <1>17, <3>2, <3>3 DEF Agree, Saved, SavedRange
    <3>6. g # "wb" /\ g \notin ImageFamilies
      BY ParamsAre
    <3>7. Unmarked(g)'
      BY <3>3 DEF Unmarked
    <3>8. QED  BY <1>1, <3>4, <3>5, <3>6, <3>7 DEF Arrived, Waits
  <2>5. Idle1(g)'
    <3>1. rounds' = 2 => Unmarked(g)'
      BY <2>3 DEF Live, Unmarked
    <3>2. rounds' = 1 => Split(g)' /\ registered'
      <4>1. White0(g)' => member'[L] # member'[H]
        BY <1>2, <1>4, <1>6, <1>17, <2>1
      <4>2. QED  BY <1>1, <1>5, <4>1 DEF White0, Split
    <3>3. QED  BY <2>4, <3>1, <3>2 DEF Idle1
  <2>6. RangeStage(g, "idle", 0)'
    BY DEF RangeStage
  <2>7. QED  BY <1>5, <1>17, <2>5, <2>6, RangeMeansNext DEF At0
<1>18. QED  BY <1>2, <1>10, <1>11, <1>12, <1>13, <1>14, <1>15, <1>16, <1>17 DEF RangeTurn

LEMMA SetsWhite ==
  ASSUME OneInd, NEW n, NEW v, Sets("wb", n, v), WhiteMoved(Before, n, P, v),
         NEW x \in Stages, NEW y \in Stages, WhiteTurn("set", P, v, x, y), Means("wb", x)
  PROVE  Means("wb", y)'
<1>1. PICK X, T : X = White /\ T = Temperature
  OBVIOUS
<1>2. Family("wb") = {X, T} /\ X # T /\ X \in Dials /\ T \in Dials /\ Family("wb") \subseteq OneParams
        /\ "wb" \notin Ranged
      /\ "wb" \notin ImageFamilies /\ X = Automatic("wb")
  BY <1>1, ParamsAre DEF White, Automatic, Temperature, Family
<1>3. P = X /\ v = 0 /\ x = At0("fixed") /\ y = At0("idle")
  BY <1>1 DEF WhiteTurn
<1>4. /\ Sound("wb")' => Sound("wb")
      /\ Live("wb")' => Live("wb")
      /\ White0("wb")' => White0("wb")
      /\ (Sound("wb") => Live("wb")) /\ (Live("wb") => White0("wb"))
  BY SetsLive
<1>5. /\ member'[X] = 0 /\ (X \in changed' <=> 0 # member[X])
      /\ stored'[X] = 0 /\ stored'[T] = stored[T]
      /\ member'[T] = member[T] /\ (T \in changed' <=> T \in changed)
      /\ one' = one /\ camera' = camera /\ rounds' = rounds /\ registered /\ registered'
  BY <1>1, <1>2, <1>3 DEF WhiteMoved, Gets, Left, LeftBut, Sets, Before
<1>6. /\ Sound("wb") => WaitsWhite
      /\ White0("wb") => X \notin changed /\ member[X] = 0 /\ T \notin changed
  BY <1>1, <1>3, WhiteMeans DEF WhiteStage, At0
<1>7. White0("wb")' => Unmarked("wb")'
  BY <1>2, <1>4, <1>5, <1>6 DEF Unmarked
<1>8. Sound("wb")' => Arrived("wb")'
  <2>1. SUFFICES ASSUME Sound("wb")' PROVE Arrived("wb")'
    OBVIOUS
  <2>2. WaitsWhite /\ X \notin changed /\ member[X] = 0 /\ T \notin changed
    BY <1>4, <1>6, <2>1
  <2>3. WaitsWhite'
    BY <1>1, <1>5, <2>2 DEF WaitsWhite, Carried, Warm, Saved
  <2>4. Saved(White)'
    BY <1>1, <1>5 DEF Saved
  <2>5. Unmarked("wb")'
    BY <1>2, <1>5, <2>2 DEF Unmarked
  <2>6. QED  BY <1>2, <2>3, <2>4, <2>5 DEF Arrived, Waits
<1>9. Idle1("wb")'
  <2>1. rounds' = 2 => Unmarked("wb")'
    BY <1>7 DEF White0
  <2>2. rounds' = 1 => registered'
    BY <1>5
  <2>3. QED  BY <1>2, <1>8, <2>1, <2>2 DEF Idle1
<1>10. QED  BY <1>3, <1>9, WhiteMeans DEF At0, WhiteStage

\* Before the callback is there the node does not hear of it.
LEMMA UnheardRange ==
  ASSUME OneInd, NEW g \in Ranged, g \in one.ranged, registered = FALSE, registered' = FALSE,
         UNCHANGED <<one, member, changed, rounds>>,
         ~Sound(g)', NEW v, NEW x \in Stages, NEW y \in Stages, RangeTurn("set", P[2], v, x, y), Means(g, x)
  PROVE  Means(g, y)'
<1>1. rounds \in {0, 1} /\ rounds' \in {0, 1} /\ member[Low(g)] = Lo /\ member[High(g)] = Hi /\ Lo < Hi
        /\ Lo \in Int /\ Hi \in Int
  BY ModeTyped DEF OneInd, OneTyped, Others
<1>2. ~Live(g)' /\ (Tidy(g)' <=> rounds = 1) /\ (White0(g)' <=> rounds = 1)
  BY <1>1 DEF Live, Tidy, White0
<1>3. (rounds = 1 => Tidy(g)) /\ (rounds = 1 => White0(g))
  BY <1>1 DEF Tidy, White0
<1>4. RangeStage(g, x[1], x[2])
  BY RangeMeans
<1>5. Unmarked(g)' <=> Unmarked(g)
  BY DEF Unmarked
<1>6. CASE y[1] \in {"low", "high", "even", "wide"}
  <2>1. RangeStage(g, y[1], y[2])'
    BY <1>2, <1>6 DEF RangeStage, Manual0
  <2>2. QED  BY <1>6, <2>1, RangeMeansNext
<1>7. CASE x[1] = "sole" /\ y = <<"value", x[2]>>
  <2>1. (Tidy(g) => Unmarked(g)) /\ (White0(g) => member[Low(g)] = x[2] /\ member[High(g)] = x[2])
    BY <1>4, <1>7 DEF RangeStage
  <2>2. rounds # 1
    BY <1>1, <1>3, <2>1
  <2>3. RangeStage(g, "value", x[2])'
    BY <1>2, <2>2 DEF RangeStage
  <2>4. QED  BY <1>7, <2>3, RangeMeansNext
<1>8. CASE x[1] \in {"value", "multi"} /\ y = At0("idle")
  <2>1. (Tidy(g) => Unmarked(g)) /\ (x[1] = "value" /\ White0(g) => member[Low(g)] = x[2] /\ member[High(g)] = x[2])
    BY <1>4, <1>8 DEF RangeStage
  <2>2. rounds = 1 => Unmarked(g)
    BY <1>3, <2>1
  <2>3. Split(g)'
    BY <1>1 DEF Split
  <2>4. Idle1(g)'
    BY <1>1, <1>5, <2>2, <2>3 DEF Idle1
  <2>5. RangeStage(g, "idle", 0)'
    BY DEF RangeStage
  <2>6. QED  BY <1>8, <2>4, <2>5, RangeMeansNext DEF At0
<1>9. QED  BY <1>6, <1>7, <1>8 DEF RangeTurn, At0

LEMMA UnheardWhite ==
  ASSUME OneInd, registered = FALSE, UNCHANGED <<member, changed, rounds>>,
         ~Sound("wb")', NEW v, NEW x \in Stages, NEW y \in Stages, WhiteTurn("set", P, v, x, y), Means("wb", x)
  PROVE  Means("wb", y)'
<1>1. rounds' \in {0, 1} /\ rounds' = rounds
  BY DEF OneInd, OneTyped, Others
<1>2. x = At0("fixed") /\ y = At0("idle")
  BY DEF WhiteTurn
<1>3. rounds = 1 => White \notin changed /\ Temperature \notin changed
  BY <1>2, WhiteMeans DEF WhiteStage, At0, White0
<1>4. Idle1("wb")'
  <2>1. Family("wb") = {White, Temperature} /\ "wb" \notin Ranged
    BY ParamsAre
  <2>2. rounds' = 1 => Unmarked("wb")'
    BY <1>1, <1>3, <2>1 DEF Unmarked
  <2>3. QED  BY <1>1, <2>1, <2>2 DEF Idle1
<1>5. QED  BY <1>2, <1>4, WhiteMeans DEF At0, WhiteStage

\* The parameter that a step sets.
LEMMA SetOf ==
  ASSUME OneInd, steps # <<>>, Head(steps).op = "set"
  PROVE  /\ Head(steps).v \in Domain(P) /\ P \in OneParams /\ P \in Family(FamilyOf(P))
         /\ \/ FamilyOf(P) \in Ranged /\ FamilyOf(P) \in one.ranged /\ FamilyOf(P) # "wb"
            \/ FamilyOf(P) = "wb" /\ P = White
         /\ FamilyOf(P) \in Families /\ P # PubRate /\ Mates(P) = Family(FamilyOf(P))
<1>1. Head(steps) \in StepSet /\ P \in OneParams /\ FamilyOf(P) \in Families
      /\ (FamilyOf(P) \in Ranged => FamilyOf(P) \in one.ranged)
  BY StepIs, StepOf
<1>2. Head(steps).v \in Domain(P)
  BY <1>1 DEF StepSet, P
<1>3. P \in Family(FamilyOf(P)) /\ Mates(P) = Family(FamilyOf(P))
  BY <1>1, ParamsAre DEF Family
<1>4. P # PubRate
  <2>1. FamilyOf(PubRate) = "sensors"
    BY ParamsAre DEF Family
  <2>2. QED  BY <1>1, <2>1, InFamily
<1>5. PICK x, y \in Stages : Turn(Head(steps), FamilyOf(P), x, y)
  BY StepIs
<1>6. FamilyOf(P) = "wb" => P = White
  BY <1>5, WhiteTurnIs DEF WhiteTurn
<1>7. FamilyOf(P) \notin ImageFamilies
  <2>1. SUFFICES ASSUME FamilyOf(P) \in ImageFamilies PROVE FALSE
    OBVIOUS
  <2>2. ImageTurn(Head(steps).op, x, y)
    BY <1>5, <2>1, ImageTurnIs
  <2>3. QED  BY <2>2 DEF ImageTurn
<1>8. QED  BY <1>1, <1>2, <1>3, <1>4, <1>6, <1>7, InFamily

LEMMA SetParameterInd == OneInd /\ SetParameter => OneInd'
<1> SUFFICES ASSUME OneInd, SetParameter PROVE OneInd'
  OBVIOUS
<1>1. PICK g, v : g = FamilyOf(P) /\ v = Head(steps).v
  OBVIOUS
<1>2. /\ steps # <<>> /\ Head(steps).op = "set" /\ steps' = <<>> \o Tail(steps)
      /\ one' = one /\ registered' = registered /\ oneChanges' = oneChanges /\ camera' = camera /\ rounds' = rounds
      /\ oneRefusals' = oneRefusals
  BY DEF SetParameter, Now, Then, Aside
<1>3. /\ v \in Domain(P) /\ P \in OneParams /\ P \in Family(g) /\ g \in Families /\ P # PubRate /\ Mates(P) = Family(g)
      /\ (g \in Ranged /\ g \in one.ranged /\ g # "wb") \/ (g = "wb" /\ P = White)
  BY <1>1, <1>2, SetOf
<1>4. OneTyped /\ registered \in BOOLEAN /\ rounds \in 0..2 /\ stored \in [OneParams -> Int] /\ Domain(P) \subseteq Int
      /\ disturbed \subseteq OneParams /\ DOMAIN camera = Dials /\ Family(g) \subseteq OneParams
      /\ \A p \in OneParams : {member[p], stored[p]} \subseteq Domain(p)
  BY <1>3, DomainsAre DEF OneInd, OneTyped, OneSettingsTypeOK, Family
<1>5. \A x, y \in Stages : Turn(Head(steps), g, x, y) =>
        \/ g \in Ranged /\ RangeTurn("set", P[2], v, x, y)
        \/ g = "wb" /\ WhiteTurn("set", P, v, x, y)
  <2>1. ASSUME NEW x \in Stages, NEW y \in Stages, Turn(Head(steps), g, x, y)
        PROVE  \/ g \in Ranged /\ RangeTurn("set", P[2], v, x, y)
               \/ g = "wb" /\ WhiteTurn("set", P, v, x, y)
    <3>1. CASE g \in Ranged
      BY <1>1, <1>2, <2>1, <3>1, RangeTurnIs
    <3>2. CASE g = "wb"
      BY <1>1, <1>2, <2>1, <3>2, WhiteTurnIs
    <3>3. QED  BY <1>3, <3>1, <3>2
  <2>2. QED  BY <2>1
\* What is to show of both cases.
<1>6. ASSUME /\ member' \in [OneParams -> Int] /\ stored' \in [OneParams -> Int]
             /\ \A p \in OneParams : {member'[p], stored'[p]} \subseteq Domain(p)
             /\ changed' \subseteq Flagged /\ due' \in BOOLEAN /\ disturbed' \subseteq OneParams
             /\ disturbed \subseteq disturbed'
             /\ \A p \in OneParams \ Family(g) : /\ member'[p] = member[p] /\ stored'[p] = stored[p]
                                                 /\ p \in changed' <=> p \in changed
             /\ registered = FALSE => member' = member,
             \A x, y \in Stages : Turn(Head(steps), g, x, y) /\ Means(g, x) => Means(g, y)'
      PROVE  OneInd'
  <2>1. OneTyped'
    BY <1>2, <1>4, <1>6 DEF OneTyped, OneSettingsTypeOK
  <2>2. PubRate \in OneParams \ Family(g)
    <3>1. FamilyOf(PubRate) = "sensors" /\ PubRate \in OneParams /\ g # "sensors"
      BY <1>3, ParamsAre, InFamily DEF Family
    <3>2. QED  BY <3>1 DEF Family
  <2>3. Others'
    BY <1>2, <1>4, <1>6, <2>2 DEF OneInd, Others, Saved
  <2>4. \A f \in Families \ {g} : Same(f)
    <3>1. Local(g)
      BY <1>2, <1>6 DEF Local
    <3>2. QED  BY <3>1, LocalSame
  <2>5. Within(<<>>, g)
    BY WithinNone
  <2>6. \A y \in Stages : Leads(<<>>, g, y, y)
    BY LeadsNone
  <2>7. ASSUME NEW x \in Stages, NEW y \in Stages, Turn(Head(steps), g, x, y) /\ Means(g, x)
        PROVE  \E w \in Stages : Means(g, w)' /\ Leads(<<>>, g, w, y)
    <3>1. Means(g, y)' /\ Leads(<<>>, g, y, y)
      BY <1>6, <2>6, <2>7
    <3>2. QED  BY <3>1, Zenon
  <2>8. \A x, y \in Stages : Turn(Head(steps), g, x, y) /\ Means(g, x) => \E w \in Stages : Means(g, w)'
          /\ Leads(<<>>, g, w, y)
    BY <2>7, Zenon
  <2>9. \A f \in Families \cup {"sensors"} : Holds(f)'
    BY <1>1, <1>2, <1>3, <2>4, <2>5, <2>8, FamilyStep
  <2>10. QED  BY <2>1, <2>3, <2>9 DEF OneInd
<1>7. CASE registered = TRUE
  <2>1. /\ Callback(<<<<P, v>>>>)
        /\ disturbed' = IF P \in changed \cap DOMAIN camera /\ P \notin changed' /\ camera[P] # member[P]
                        THEN disturbed \cup Mates(P) ELSE disturbed
    BY <1>1, <1>7 DEF SetParameter
  <2>2. PICK n : /\ Moved(Before, n, P, v) /\ member' = n.member /\ changed' = n.changed /\ due' = n.count
                 /\ stored' = IF n.refused THEN stored ELSE [stored EXCEPT ![P] = v]
    <3>1. OneTyped /\ P \in OneParams /\ v \in Domain(P)
      BY <1>3, <1>4
    <3>2. QED  BY <2>1, <3>1, CallbackOne, Zenon
  <2>3. P # Picture("denoising")
    <3>1. FamilyOf(Picture("denoising")) = "denoising" /\ "denoising" \in ImageFamilies
      BY DEF FamilyOf, Picture, ImageFamilies
    <3>2. g \notin ImageFamilies
      BY <1>3, ParamsAre
    <3>3. QED  BY <1>1, <3>1, <3>2
  <2>4. Node(n) /\ n.refused = FALSE
    BY <2>2, <2>3, <1>4, BeforeIs DEF Moved
  <2>5. stored' = [stored EXCEPT ![P] = v]
    BY <2>2, <2>4
  <2>6. /\ stored' \in [OneParams -> Int] /\ stored'[P] = v /\ \A p \in OneParams \ {P} : stored'[p] = stored[p]
    BY <1>3, <1>4, <2>5
  <2>7. /\ member' \in [OneParams -> Int] /\ changed' \subseteq Flagged /\ due' \in BOOLEAN
        /\ \A p \in OneParams : member'[p] \in Domain(p)
    BY <2>2, <2>4 DEF Node
  <2>8. \A p \in OneParams : stored'[p] \in Domain(p)
    BY <1>3, <1>4, <2>6
  <2>9. disturbed' \subseteq OneParams /\ disturbed \subseteq disturbed'
    BY <1>3, <1>4, <2>1
  <2>10. Sound(g)' => ~(P \in changed /\ P \in Dials /\ P \notin changed' /\ camera[P] # member[P])
    BY <1>3, <1>4, <2>1 DEF Sound
  <2>11. Sets(g, n, v)
    BY <1>2, <1>7, <2>2, <2>6, <2>9, <2>10 DEF Sets
  <2>12. (g \in Ranged => RangeMoved(Before, n, g, P, v)) /\ (g = "wb" => WhiteMoved(Before, n, P, v))
    BY <1>1, <2>2, <2>3 DEF Moved
  <2>13. LeftBut(Before, n, Family(g))
    <3>1. g \in Ranged => Automatic(g) \in Family(g)
      BY ParamsAre
    <3>2. LeftBut(Before, n, {P}) => LeftBut(Before, n, Family(g))
      BY <1>3 DEF LeftBut
    <3>3. QED  BY <1>3, <2>12, <3>2 DEF RangeMoved, WhiteMoved
  <2>14. \A p \in OneParams \ Family(g) : /\ member'[p] = member[p] /\ stored'[p] = stored[p]
                                          /\ p \in changed' <=> p \in changed
    BY <1>3, <1>4, <2>2, <2>6, <2>13, BeforeIs DEF LeftBut, Left
  <2>15. ASSUME NEW x \in Stages, NEW y \in Stages, Turn(Head(steps), g, x, y) /\ Means(g, x)
         PROVE  Means(g, y)'
    <3>1. CASE g \in Ranged
      <4>1. RangeTurn("set", P[2], v, x, y) /\ g \in one.ranged /\ RangeMoved(Before, n, g, P, v) /\ Means(g, x)
        BY <1>3, <1>5, <2>12, <2>15, <3>1, ParamsAre
      <4>2. QED  BY <1>3, <2>11, <3>1, <4>1, SetsRange
    <3>2. CASE g = "wb"
      <4>1. WhiteTurn("set", P, v, x, y) /\ WhiteMoved(Before, n, P, v) /\ Means("wb", x) /\ Sets("wb", n, v)
        BY <1>3, <1>5, <2>11, <2>12, <2>15, <3>2, ParamsAre
      <4>2. Means("wb", y)'
        BY <4>1, SetsWhite
      <4>3. QED  BY <3>2, <4>2
    <3>3. QED  BY <1>3, <3>1, <3>2
  <2>16. \A x, y \in Stages : Turn(Head(steps), g, x, y) /\ Means(g, x) => Means(g, y)'
    BY <2>15
  <2>17. \A p \in OneParams : {member'[p], stored'[p]} \subseteq Domain(p)
    BY <2>7, <2>8
  <2>18. QED  BY <1>6, <1>7, <2>6, <2>7, <2>9, <2>14, <2>16, <2>17
<1>8. CASE registered = FALSE
  <2>1. /\ stored' = [stored EXCEPT ![P] = v] /\ disturbed' = disturbed \cup Mates(P)
        /\ UNCHANGED <<member, changed, due>>
    BY <1>1, <1>8 DEF SetParameter
  <2>2. /\ stored' \in [OneParams -> Int] /\ stored'[P] = v /\ \A p \in OneParams \ {P} : stored'[p] = stored[p]
    BY <1>3, <1>4, <2>1
  <2>3. ~Sound(g)'
    BY <1>3, <2>1 DEF Sound
  <2>4. ASSUME NEW x \in Stages, NEW y \in Stages, Turn(Head(steps), g, x, y) /\ Means(g, x)
        PROVE  Means(g, y)'
    <3>1. CASE g \in Ranged
      <4>1. RangeTurn("set", P[2], v, x, y) /\ g \in one.ranged /\ Means(g, x)
        BY <1>3, <1>5, <2>4, <3>1, ParamsAre
      <4>2. UNCHANGED <<one, member, changed, rounds>> /\ registered' = FALSE
        BY <1>2, <1>8, <2>1
      <4>3. QED  BY <1>8, <2>3, <3>1, <4>1, <4>2, UnheardRange
    <3>2. CASE g = "wb"
      <4>1. WhiteTurn("set", P, v, x, y) /\ Means("wb", x) /\ ~Sound("wb")'
        BY <1>3, <1>5, <2>3, <2>4, <3>2, ParamsAre
      <4>2. UNCHANGED <<member, changed, rounds>>
        BY <1>2, <2>1
      <4>3. Means("wb", y)'
        BY <1>8, <4>1, <4>2, UnheardWhite
      <4>4. QED  BY <3>2, <4>3
    <3>3. QED  BY <1>3, <3>1, <3>2
  <2>5. \A x, y \in Stages : Turn(Head(steps), g, x, y) /\ Means(g, x) => Means(g, y)'
    BY <2>4
  <2>6. \A p \in OneParams : {member'[p], stored'[p]} \subseteq Domain(p)
    BY <1>3, <1>4, <2>1, <2>2
  <2>7. /\ member' \in [OneParams -> Int] /\ changed' \subseteq Flagged /\ due' \in BOOLEAN
             /\ disturbed' \subseteq OneParams
        /\ disturbed \subseteq disturbed'
    BY <1>3, <1>4, <2>1 DEF OneTyped, OneSettingsTypeOK
  <2>8. \A p \in OneParams \ Family(g) : /\ member'[p] = member[p] /\ stored'[p] = stored[p]
                                         /\ p \in changed' <=> p \in changed
    BY <1>3, <2>1, <2>2
  <2>9. QED  BY <1>6, <2>1, <2>2, <2>5, <2>6, <2>7, <2>8
<1>9. QED  BY <1>4, <1>7, <1>8

-----------------------------------------------------------------------------
(* A call of a client.                                                     *)

\* A parameter of a call that is not refused, as a family sees it: s and t are
\* what is stored before and after.
RangeGiven(g, n, m, s, t, q, v) ==
  \/ /\ q \in Family(g) /\ RangeMoved(n, m, g, q, v) /\ t[q] = v
     /\ \A p \in Family(g) \ {q} : t[p] = s[p]
  \/ q \notin Family(g) /\ \A p \in Family(g) : Left(n, m, p) /\ t[p] = s[p]

\* Its four values, their marks and what is stored of them.
RangeTaken(g, m, n, s, t, r, w) ==
  LET A == Automatic(g)  V == Value(g)  L == Low(g)  H == High(g)
  IN  \/ /\ \A p \in Family(g) \ {r} : n.member[p] = m.member[p] /\ (p \in n.changed <=> p \in m.changed) /\ t[p] = s[p]
         /\ r \in Family(g) => /\ n.member[r] = w /\ t[r] = w /\ (r \in n.changed <=> w # m.member[r])
                               /\ w = m.member[r] \/ r = A
      \/ /\ r = V /\ w # m.member[r] /\ n.member[V] = w /\ V \in n.changed /\ t[V] = w
         /\ n.member[A] = 0 /\ n.member[L] = w /\ n.member[H] = w
         /\ (A \in n.changed <=> m.member[A] # 0) /\ (L \in n.changed <=> w # m.member[L])
              /\ (H \in n.changed <=> w # m.member[H])
         /\ \A p \in {A, L, H} : t[p] = s[p]
      \/ /\ r \in {L, H} /\ w # m.member[r] /\ n.member[r] = w /\ r \in n.changed /\ t[r] = w
         /\ \A p \in {L, H} \ {r} : n.member[p] = m.member[p] /\ (p \in n.changed <=> p \in m.changed) /\ t[p] = s[p]
         /\ \/ /\ n.member[L] # n.member[H] /\ n.member[A] = 1 /\ (A \in n.changed <=> m.member[A] # 1)
               /\ n.member[V] = m.member[V] /\ (V \in n.changed <=> V \in m.changed)
            \/ /\ n.member[L] = n.member[H] /\ n.member[A] = 0 /\ (A \in n.changed <=> m.member[A] # 0)
               /\ n.member[V] = w /\ (V \in n.changed <=> w # m.member[V])
         /\ t[A] = s[A] /\ t[V] = s[V]

LEMMA RangeTakenIs ==
  ASSUME NEW g \in Ranged, NEW m, NEW n, NEW s, NEW t, NEW r, NEW w, RangeGiven(g, m, n, s, t, r, w)
  PROVE  RangeTaken(g, m, n, s, t, r, w)
<1>1. PICK A, V, L, H : A = Automatic(g) /\ V = Value(g) /\ L = Low(g) /\ H = High(g)
  OBVIOUS
<1>2. /\ Family(g) = {A, V, L, H} /\ Family(g) \subseteq OneParams
      /\ A # V /\ A # L /\ A # H /\ V # L /\ V # H /\ L # H
  BY <1>1, ParamsAre DEF Automatic, Value, Low, High
<1>3. CASE r \notin Family(g)
  BY <1>1, <1>3 DEF RangeGiven, RangeTaken, Left
<1>4. CASE r \in Family(g) /\ (w = m.member[r] \/ r = A)
  <2>1. n.member[r] = w /\ t[r] = w /\ (r \in n.changed <=> w # m.member[r]) /\ LeftBut(m, n, {r})
        /\ \A p \in Family(g) \ {r} : t[p] = s[p]
    BY <1>1, <1>2, <1>4 DEF RangeGiven, RangeMoved, Gets
  <2>2. \A p \in Family(g) \ {r} : n.member[p] = m.member[p] /\ (p \in n.changed <=> p \in m.changed)
    BY <1>2, <2>1 DEF LeftBut, Left
  <2>3. QED  BY <1>1, <1>4, <2>1, <2>2 DEF RangeTaken
<1>5. CASE r = V /\ w # m.member[r]
  <2>1. /\ n.member[V] = w /\ V \in n.changed /\ n.member[A] = 0 /\ n.member[L] = w /\ n.member[H] = w
        /\ (A \in n.changed <=> m.member[A] # 0) /\ (L \in n.changed <=> w # m.member[L])
             /\ (H \in n.changed <=> w # m.member[H])
    BY <1>1, <1>2, <1>5 DEF RangeGiven, RangeMoved, Gets
  <2>2. t[V] = w /\ \A p \in {A, L, H} : t[p] = s[p]
    BY <1>2, <1>5 DEF RangeGiven
  <2>3. QED  BY <1>1, <1>5, <2>1, <2>2 DEF RangeTaken
<1>6. CASE r \in {L, H} /\ w # m.member[r]
  <2>1. RangeMoved(m, n, g, r, w) /\ t[r] = w /\ \A p \in Family(g) \ {r} : t[p] = s[p]
    BY <1>2, <1>6 DEF RangeGiven
  <2>2. n.member[r] = w /\ r \in n.changed
        /\ \A p \in {L, H} \ {r} : n.member[p] = m.member[p] /\ (p \in n.changed <=> p \in m.changed)
    BY <1>1, <1>2, <1>6, <2>1 DEF RangeMoved, Gets, Left
  <2>3. \/ /\ n.member[L] # n.member[H] /\ n.member[A] = 1 /\ (A \in n.changed <=> m.member[A] # 1)
           /\ n.member[V] = m.member[V] /\ (V \in n.changed <=> V \in m.changed)
        \/ /\ n.member[L] = n.member[H] /\ n.member[A] = 0 /\ (A \in n.changed <=> m.member[A] # 0)
           /\ n.member[V] = w /\ (V \in n.changed <=> w # m.member[V])
    BY <1>1, <1>2, <1>6, <2>1 DEF RangeMoved, Gets, Left
  <2>4. t[A] = s[A] /\ t[V] = s[V] /\ \A p \in {L, H} \ {r} : t[p] = s[p]
    BY <1>2, <1>6, <2>1
  <2>5. QED  BY <1>1, <1>6, <2>1, <2>2, <2>3, <2>4 DEF RangeTaken
<1>7. QED  BY <1>2, <1>3, <1>4, <1>5, <1>6

\* Two parameters at most, of a range that had arrived.
LEMMA RangeCalled ==
  ASSUME OneInd, NEW g \in Ranged, Arrived(g), camera' = camera, NEW m, NEW n, NEW s, NEW q, NEW v, NEW r, NEW w, q # r,
         RangeGiven(g, Before, m, stored, s, q, v), RangeGiven(g, m, n, s, stored', r, w),
         v \in Domain(q), w \in Domain(r), member' = n.member, changed' = n.changed
  PROVE  Waits(g)' /\ Ready(g)' /\ (Unmarked(g)' => Arrived(g)')
<1>1. PICK A, V, L, H : A = Automatic(g) /\ V = Value(g) /\ L = Low(g) /\ H = High(g)
  OBVIOUS
<1>2. /\ Family(g) = {A, V, L, H} /\ Family(g) \subseteq OneParams
      /\ A # V /\ A # L /\ A # H /\ V # L /\ V # H /\ L # H
      /\ g # "wb" /\ g \notin ImageFamilies
  BY <1>1, ParamsAre DEF Automatic, Value, Low, High
<1>3. /\ member[A] \in {0, 1}
      /\ q = A => v \in {0, 1}
      /\ r = A => w \in {0, 1}
  <2>1. Domain(A) = {0, 1}
    BY <1>1, DomainsAre
  <2>2. QED  BY <1>1, <2>1, ModeTyped DEF OneInd
<1>4. /\ \A p \in Family(g) : p \notin changed
      /\ camera[L] = member[L] /\ camera[H] = member[H]
      /\ (member[A] = 0 <=> member[L] = member[H]) /\ (member[A] = 0 => member[V] = member[L])
      /\ stored[A] = member[A] /\ stored[L] = member[L] /\ stored[H] = member[H]
      /\ member[A] = 0 => stored[V] = member[V]
  <2>1. Unmarked(g) /\ WaitsRange(g) /\ Agree(g) /\ Saved(A) /\ SavedRange(g) /\ (member[A] = 0 => Saved(V))
    BY <1>1, <1>2 DEF Arrived, Waits
  <2>2. QED  BY <1>1, <1>2, <2>1 DEF Unmarked, WaitsRange, Agree, Saved, SavedRange
<1>5. RangeTaken(g, Before, m, stored, s, q, v) /\ RangeTaken(g, m, n, s, stored', r, w)
  BY RangeTakenIs
<1>6. Before.member = member /\ Before.changed = changed
  BY DEF Before
\* The first.
<1>7. \/ /\ \A p \in Family(g) : m.member[p] = member[p] /\ p \notin m.changed
         /\ \A p \in Family(g) \ {q} : s[p] = stored[p]
         /\ q \in Family(g) => s[q] = member[q]
      \/ /\ q = A /\ m.member[A] # member[A] /\ m.member[A] \in {0, 1} /\ A \in m.changed /\ s[A] = m.member[A]
         /\ \A p \in {V, L, H} : m.member[p] = member[p] /\ p \notin m.changed /\ s[p] = stored[p]
      \/ /\ q = V /\ m.member[V] # member[V] /\ V \in m.changed /\ s[V] = m.member[V]
         /\ m.member[A] = 0 /\ m.member[L] = m.member[V] /\ m.member[H] = m.member[V]
         /\ (A \in m.changed <=> member[A] # 0)
         /\ (L \in m.changed <=> m.member[V] # member[L]) /\ (H \in m.changed <=> m.member[V] # member[H])
         /\ \A p \in {A, L, H} : s[p] = stored[p]
      \/ /\ q \in {L, H} /\ m.member[q] # member[q] /\ q \in m.changed /\ s[q] = m.member[q]
         /\ \A p \in {L, H} \ {q} : m.member[p] = member[p] /\ p \notin m.changed /\ s[p] = stored[p]
         /\ \/ /\ m.member[L] # m.member[H] /\ m.member[A] = 1 /\ (A \in m.changed <=> member[A] # 1)
               /\ m.member[V] = member[V] /\ V \notin m.changed
            \/ /\ m.member[L] = m.member[H] /\ m.member[A] = 0 /\ (A \in m.changed <=> member[A] # 0)
               /\ m.member[V] = m.member[q] /\ (V \in m.changed <=> m.member[q] # member[V])
         /\ s[A] = stored[A] /\ s[V] = stored[V]
  BY <1>1, <1>2, <1>3, <1>4, <1>5, <1>6 DEF RangeTaken
<1>8. /\ WaitsRange(g)'
      /\ member'[A] = 1 => member'[L] # member'[H] \/ A \in changed'
      /\ Unmarked(g)' => /\ \A p \in Family(g) : member'[p] = member[p]
                         /\ stored'[A] = member[A] /\ stored'[L] = member[L] /\ stored'[H] = member[H]
                         /\ member[A] = 0 => stored'[V] = member[V]
  <2>1. Unmarked(g)' <=> A \notin changed' /\ V \notin changed' /\ L \notin changed' /\ H \notin changed'
    BY <1>2 DEF Unmarked
  <2>2. WaitsRange(g)' <=>
          /\ \/ L \in changed'
             \/ member'[A] = 0 /\ V \in changed' /\ member'[L] = member'[V]
             \/ ~(member'[A] = 0 /\ V \in changed') /\ camera[L] = member'[L]
          /\ \/ H \in changed'
             \/ member'[A] = 0 /\ V \in changed' /\ member'[H] = member'[V]
             \/ ~(member'[A] = 0 /\ V \in changed') /\ camera[H] = member'[H]
          /\ member'[A] = 1 => A \in changed' \/ (stored'[L] = member'[L] /\ stored'[H] = member'[H])
    BY <1>1, <1>2 DEF WaitsRange, SavedRange, Saved
  <2>3. CASE /\ \A p \in Family(g) : m.member[p] = member[p] /\ p \notin m.changed
             /\ \A p \in Family(g) \ {q} : s[p] = stored[p]
             /\ q \in Family(g) => s[q] = member[q]
    BY <1>1, <1>2, <1>3, <1>4, <1>5, <2>1, <2>2, <2>3 DEF RangeTaken
  <2>4. CASE /\ q = A /\ m.member[A] # member[A] /\ m.member[A] \in {0, 1} /\ A \in m.changed /\ s[A] = m.member[A]
             /\ \A p \in {V, L, H} : m.member[p] = member[p] /\ p \notin m.changed /\ s[p] = stored[p]
    BY <1>1, <1>2, <1>3, <1>4, <1>5, <2>1, <2>2, <2>4 DEF RangeTaken
  <2>5. CASE /\ q = V /\ m.member[V] # member[V] /\ V \in m.changed /\ s[V] = m.member[V]
             /\ m.member[A] = 0 /\ m.member[L] = m.member[V] /\ m.member[H] = m.member[V]
             /\ (A \in m.changed <=> member[A] # 0)
             /\ (L \in m.changed <=> m.member[V] # member[L]) /\ (H \in m.changed <=> m.member[V] # member[H])
             /\ \A p \in {A, L, H} : s[p] = stored[p]
    BY <1>1, <1>2, <1>3, <1>4, <1>5, <2>1, <2>2, <2>5 DEF RangeTaken
  <2>6. CASE /\ q \in {L, H} /\ m.member[q] # member[q] /\ q \in m.changed /\ s[q] = m.member[q]
             /\ \A p \in {L, H} \ {q} : m.member[p] = member[p] /\ p \notin m.changed /\ s[p] = stored[p]
             /\ \/ /\ m.member[L] # m.member[H] /\ m.member[A] = 1 /\ (A \in m.changed <=> member[A] # 1)
                   /\ m.member[V] = member[V] /\ V \notin m.changed
                \/ /\ m.member[L] = m.member[H] /\ m.member[A] = 0 /\ (A \in m.changed <=> member[A] # 0)
                   /\ m.member[V] = m.member[q] /\ (V \in m.changed <=> m.member[q] # member[V])
             /\ s[A] = stored[A] /\ s[V] = stored[V]
    BY <1>1, <1>2, <1>3, <1>4, <1>5, <2>1, <2>2, <2>6 DEF RangeTaken
  <2>7. QED  BY <1>7, <2>3, <2>4, <2>5, <2>6
<1>9. Ready(g)' /\ Waits(g)'
  BY <1>1, <1>2, <1>8 DEF Ready, Split, Waits
<1>10. ASSUME Unmarked(g)' PROVE Arrived(g)'
  <2>1. Agree(g)' /\ Saved(A)' /\ SavedRange(g)' /\ (member'[A] = 0 => Saved(V)')
    BY <1>1, <1>2, <1>4, <1>8, <1>10 DEF Agree, Saved, SavedRange
  <2>2. QED  BY <1>1, <1>2, <1>9, <1>10, <2>1 DEF Arrived
<1>11. QED  BY <1>9, <1>10

\* The white balance, in the same way.
WhiteGiven(n, m, s, t, q, v) ==
  \/ /\ q \in Family("wb") /\ WhiteMoved(n, m, q, v) /\ t[q] = v
     /\ \A p \in Family("wb") \ {q} : t[p] = s[p]
  \/ q \notin Family("wb") /\ \A p \in Family("wb") : Left(n, m, p) /\ t[p] = s[p]
WhiteTaken(m, n, s, t, r, w) ==
  LET X == White  T == Temperature
  IN  \/ /\ \A p \in {X, T} \ {r} : n.member[p] = m.member[p] /\ (p \in n.changed <=> p \in m.changed) /\ t[p] = s[p]
         /\ r \in {X, T} => /\ n.member[r] = w /\ t[r] = w /\ (r \in n.changed <=> w # m.member[r])
                            /\ w = m.member[r] \/ r = X
      \/ /\ r = T /\ w # m.member[T] /\ n.member[T] = w /\ T \in n.changed /\ t[T] = w
         /\ n.member[X] = 0 /\ (X \in n.changed <=> m.member[X] # 0) /\ t[X] = s[X]

LEMMA WhiteTakenIs ==
  ASSUME NEW m, NEW n, NEW s, NEW t, NEW r, NEW w, WhiteGiven(m, n, s, t, r, w)
  PROVE  WhiteTaken(m, n, s, t, r, w)
<1>1. PICK X, T : X = White /\ T = Temperature
  OBVIOUS
<1>2. Family("wb") = {X, T} /\ X # T /\ Family("wb") \subseteq OneParams
  BY <1>1, ParamsAre DEF White, Automatic, Temperature, Family
<1>3. CASE r \notin {X, T}
  BY <1>1, <1>2, <1>3 DEF WhiteGiven, WhiteTaken, Left
<1>4. CASE r \in {X, T} /\ (w = m.member[r] \/ r = X)
  <2>1. n.member[r] = w /\ t[r] = w /\ (r \in n.changed <=> w # m.member[r]) /\ LeftBut(m, n, {r})
        /\ \A p \in {X, T} \ {r} : t[p] = s[p]
    BY <1>1, <1>2, <1>4 DEF WhiteGiven, WhiteMoved, Gets
  <2>2. \A p \in {X, T} \ {r} : n.member[p] = m.member[p] /\ (p \in n.changed <=> p \in m.changed)
    BY <1>2, <2>1 DEF LeftBut, Left
  <2>3. QED  BY <1>1, <1>4, <2>1, <2>2 DEF WhiteTaken
<1>5. CASE r = T /\ w # m.member[r]
  <2>1. n.member[T] = w /\ T \in n.changed /\ n.member[X] = 0 /\ (X \in n.changed <=> m.member[X] # 0)
    BY <1>1, <1>2, <1>5 DEF WhiteGiven, WhiteMoved, Gets
  <2>2. t[T] = w /\ t[X] = s[X]
    BY <1>2, <1>5 DEF WhiteGiven
  <2>3. QED  BY <1>1, <1>5, <2>1, <2>2 DEF WhiteTaken
<1>6. QED  BY <1>3, <1>4, <1>5

LEMMA WhiteCalled ==
  ASSUME OneInd, Arrived("wb"), camera' = camera, NEW m, NEW n, NEW s, NEW q, NEW v, NEW r, NEW w, q # r,
         WhiteGiven(Before, m, stored, s, q, v), WhiteGiven(m, n, s, stored', r, w),
         v \in Domain(q), w \in Domain(r), member' = n.member, changed' = n.changed
  PROVE  Waits("wb")' /\ Ready("wb")' /\ (Unmarked("wb")' => Arrived("wb")')
<1>1. PICK X, T : X = White /\ T = Temperature
  OBVIOUS
<1>2. Family("wb") = {X, T} /\ X # T /\ "wb" \notin Ranged /\ "wb" \notin ImageFamilies
  BY <1>1, ParamsAre DEF White, Automatic, Temperature
<1>3. /\ member[X] \in {0, 1}
      /\ q = X => v \in {0, 1}
      /\ r = X => w \in {0, 1}
  <2>1. Domain(X) = {0, 1}
    BY <1>1, DomainsAre
  <2>2. QED  BY <1>1, <2>1, ModeTyped DEF OneInd
<1>4. /\ X \notin changed /\ T \notin changed /\ camera[X] = member[X]
      /\ camera[T] = member[T] \/ camera[T] = Own
      /\ stored[X] = member[X] /\ stored[T] = member[T]
  <2>1. Unmarked("wb") /\ WaitsWhite /\ Saved(X)
    BY <1>1, <1>2 DEF Arrived, Waits
  <2>2. QED  BY <1>1, <1>2, <2>1 DEF Unmarked, WaitsWhite, Carried, Warm, Saved
<1>5. WhiteTaken(Before, m, stored, s, q, v) /\ WhiteTaken(m, n, s, stored', r, w)
  BY WhiteTakenIs
<1>6. Before.member = member /\ Before.changed = changed
  BY DEF Before
<1>7. \/ /\ \A p \in {X, T} : m.member[p] = member[p] /\ p \notin m.changed
         /\ s[X] = member[X] /\ s[T] = member[T]
      \/ /\ q = X /\ m.member[X] # member[X] /\ m.member[X] \in {0, 1} /\ X \in m.changed /\ s[X] = m.member[X]
         /\ m.member[T] = member[T] /\ T \notin m.changed /\ s[T] = member[T]
      \/ /\ q = T /\ m.member[T] # member[T] /\ T \in m.changed /\ s[T] = m.member[T]
         /\ m.member[X] = 0 /\ (X \in m.changed <=> member[X] # 0) /\ s[X] = member[X]
  BY <1>1, <1>2, <1>3, <1>4, <1>5, <1>6 DEF WhiteTaken
<1>8. WaitsWhite' <=>
        /\ \/ X \in changed' \/ camera[X] = member'[X]
           \/ T \in changed' /\ member'[X] = 0
        /\ \/ camera[T] = member'[T] \/ camera[T] = Own
           \/ member'[X] = 0 /\ T \in changed'
           \/ member'[X] = 1 /\ X \in changed'
        /\ stored'[T] = member'[T] /\ (member'[X] = 0 \/ stored'[X] = member'[X])
  BY <1>1 DEF WaitsWhite, Carried, Warm, Saved
<1>9. /\ WaitsWhite'
      /\ X \notin changed' /\ T \notin changed' => stored'[X] = member'[X]
  BY <1>1, <1>2, <1>3, <1>4, <1>5, <1>7, <1>8 DEF WhiteTaken
<1>10. Ready("wb")' /\ Waits("wb")'
  BY <1>1, <1>2, <1>9 DEF Ready, Waits
<1>11. ASSUME Unmarked("wb")' PROVE Arrived("wb")'
  <2>1. X \notin changed' /\ T \notin changed'
    BY <1>2, <1>11 DEF Unmarked
  <2>2. QED  BY <1>1, <1>2, <1>9, <1>10, <1>11, <2>1 DEF Arrived, Saved
<1>12. QED  BY <1>10, <1>11

\* A setting of the image, which there is one of.
ImageGiven(f, n, m, s, t, q, v) ==
  \/ q = Picture(f) /\ Gets(n, m, q, v) /\ t[q] = v
  \/ q # Picture(f) /\ Left(n, m, Picture(f)) /\ t[Picture(f)] = s[Picture(f)]

LEMMA ImageCalled ==
  ASSUME NEW f \in ImageFamilies, Arrived(f), camera' = camera, NEW m, NEW n, NEW s, NEW q, NEW v, NEW r, NEW w, q # r,
         ImageGiven(f, Before, m, stored, s, q, v), ImageGiven(f, m, n, s, stored', r, w),
         member' = n.member, changed' = n.changed
  PROVE  Waits(f)' /\ Ready(f)' /\ (Unmarked(f)' => Arrived(f)')
<1>1. PICK p : p = Picture(f)
  OBVIOUS
<1>2. Family(f) = {p} /\ f \notin Ranged /\ f # "wb"
  BY <1>1, ParamsAre
<1>3. p \notin changed /\ camera[p] = member[p] /\ stored[p] = member[p]
  BY <1>1, <1>2, ImageMeans DEF Unmarked, Carried, Saved
<1>4. Before.member = member /\ Before.changed = changed
  BY DEF Before
<1>5. (p \in changed' \/ camera[p] = member'[p]) /\ stored'[p] = member'[p]
  BY <1>1, <1>3, <1>4 DEF ImageGiven, Gets, Left
<1>6. Waits(f)'
  BY <1>1, <1>5, ImageMeans DEF Carried, Saved
<1>7. Ready(f)'
  BY <1>2 DEF Ready
<1>8. QED  BY <1>6, <1>7, ImageMeans

\* What a parameter of a call leaves alone.
Elsewhere(n, m, q, v) ==
  /\ \A p \in OneParams : FamilyOf(p) # FamilyOf(q) => Left(n, m, p)
  /\ m.refused = n.refused \/ (m.refused = TRUE /\ LeftBut(n, m, {}))
  /\ m.count = FALSE => n.count = FALSE /\ m.changed \subseteq n.changed
  /\ (q # PubRate => m.member[PubRate] = n.member[PubRate]) /\ (q = PubRate => m.member[q] = v /\ m.refused = n.refused)

LEMMA MovedElse ==
  ASSUME NEW n, Node(n), NEW q \in OneParams, NEW v, NEW m, Moved(n, m, q, v)
  PROVE  Elsewhere(n, m, q, v)
<1>1. FamilyOf(q) \in Ranged \cup ImageFamilies \cup {"wb", "sensors"} /\ q \in Family(FamilyOf(q))
        /\ PubRate \in OneParams
      /\ FamilyOf(PubRate) = "sensors"
  BY ParamsAre DEF Family
<1>2. m.changed \subseteq OneParams /\ m.count \in BOOLEAN /\ n.count \in BOOLEAN
  BY ParamsAre DEF Moved, Node
<1>3. PICK f : f = FamilyOf(q)
  OBVIOUS
<1>4. CASE q = Picture("denoising")
  <2>1. m.refused = TRUE /\ LeftBut(n, m, {}) /\ m.count = n.count
    BY <1>4 DEF Moved
  <2>2. \A p \in OneParams : Left(n, m, p)
    BY <2>1 DEF LeftBut
  <2>3. m.changed \subseteq n.changed
    BY <1>2, <2>2 DEF Left
  <2>4. m.member[PubRate] = n.member[PubRate]
    BY <1>1, <2>2 DEF Left
  <2>5. q # PubRate
    BY <1>4 DEF Picture, PubRate
  <2>6. QED  BY <2>1, <2>2, <2>3, <2>4, <2>5 DEF Elsewhere
<1>5. CASE q = PubRate /\ q # Picture("denoising")
  <2>1. m.refused = n.refused /\ m.member[q] = v /\ m.changed = n.changed /\ LeftBut(n, m, {q})
        /\ m.count = (n.count \/ (q # PubRate /\ v # n.member[q]))
    BY <1>5 DEF Moved
  <2>2. \A p \in OneParams : FamilyOf(p) # FamilyOf(q) => Left(n, m, p)
    BY <2>1 DEF LeftBut
  <2>3. m.count = n.count
    BY <1>2, <1>5, <2>1
  <2>4. QED  BY <1>5, <2>1, <2>2, <2>3 DEF Elsewhere
<1>6. CASE q # PubRate /\ q # Picture("denoising")
  <2>1. m.refused = n.refused /\ m.count = (n.count \/ v # n.member[q])
    BY <1>2, <1>6 DEF Moved
  <2>2. f \in Families
    <3>1. q \notin Family("sensors")
      BY <1>6, ParamsAre
    <3>2. QED  BY <1>1, <1>3, <3>1 DEF Families
  <2>3. LeftBut(n, m, Family(f)) /\ (v = n.member[q] => Gets(n, m, q, v) /\ LeftBut(n, m, {q}))
    <3>1. LeftBut(n, m, {q}) => LeftBut(n, m, Family(f))
      BY <1>1, <1>3 DEF LeftBut
    <3>2. CASE f \in Ranged
      <4>1. RangeMoved(n, m, f, q, v)
        BY <1>3, <1>6, <3>2 DEF Moved
      <4>2. QED  BY <3>1, <4>1 DEF RangeMoved
    <3>3. CASE f = "wb"
      <4>1. WhiteMoved(n, m, q, v)
        BY <1>3, <1>6, <3>3 DEF Moved
      <4>2. QED  BY <3>1, <3>3, <4>1 DEF WhiteMoved
    <3>4. CASE f \in ImageFamilies
      <4>1. Gets(n, m, q, v) /\ LeftBut(n, m, {q})
        BY <1>3, <1>6, <3>4 DEF Moved
      <4>2. QED  BY <3>1, <4>1
    <3>5. QED  BY <2>2, <3>2, <3>3, <3>4, InFamily
  <2>4. \A p \in OneParams : FamilyOf(p) # FamilyOf(q) => Left(n, m, p)
    BY <1>3, <2>3 DEF LeftBut, Family
  <2>5. m.member[PubRate] = n.member[PubRate]
    <3>1. FamilyOf(q) # "sensors"
      BY <1>3, <2>2, InFamily
    <3>2. QED  BY <1>1, <2>4, <3>1 DEF Left
  <2>6. ASSUME m.count = FALSE PROVE n.count = FALSE /\ m.changed \subseteq n.changed
    <3>1. n.count = FALSE /\ v = n.member[q]
      BY <1>2, <2>1, <2>6
    <3>2. Gets(n, m, q, v) /\ LeftBut(n, m, {q})
      BY <2>3, <3>1
    <3>3. m.changed \subseteq n.changed
      BY <1>2, <3>1, <3>2 DEF Gets, LeftBut, Left
    <3>4. QED  BY <3>1, <3>3
  <2>7. QED  BY <1>6, <2>1, <2>4, <2>5, <2>6 DEF Elsewhere
<1>7. QED  BY <1>4, <1>5, <1>6

\* A parameter that is given what it has.
LEMMA MovedSame ==
  ASSUME NEW n, Node(n), NEW f \in Families, NEW q \in Family(f), NEW m, Moved(n, m, q, n.member[q])
  PROVE  \A p \in Family(f) : m.member[p] = n.member[p] /\ (p \in m.changed => p \in n.changed)
<1>1. Family(f) \subseteq OneParams /\ q \in OneParams /\ FamilyOf(q) = f /\ q # PubRate
  <2>1. FamilyOf(PubRate) = "sensors"
    BY ParamsAre DEF Family
  <2>2. QED  BY <2>1, InFamily DEF Family
<1>2. CASE q = Picture("denoising")
  BY <1>1, <1>2 DEF Moved, LeftBut, Left
<1>3. CASE q # Picture("denoising")
  <2>1. Gets(n, m, q, n.member[q]) /\ LeftBut(n, m, {q})
    <3>1. CASE f \in Ranged
      <4>1. RangeMoved(n, m, f, q, n.member[q])
        BY <1>1, <1>3, <3>1 DEF Moved
      <4>2. QED  BY <4>1 DEF RangeMoved
    <3>2. CASE f = "wb"
      <4>1. WhiteMoved(n, m, q, n.member[q])
        BY <1>1, <1>3, <3>2 DEF Moved
      <4>2. QED  BY <4>1 DEF WhiteMoved
    <3>3. CASE f \in ImageFamilies
      BY <1>1, <1>3, <3>3 DEF Moved
    <3>4. QED  BY <3>1, <3>2, <3>3, InFamily
  <2>2. QED  BY <1>1, <2>1 DEF Gets, LeftBut, Left
<1>4. QED  BY <1>2, <1>3

\* A parameter of a call, as a family sees it.
Given(f, n, m, s, t, q, v) ==
  /\ f \in Ranged => RangeGiven(f, n, m, s, t, q, v)
  /\ f = "wb" => WhiteGiven(n, m, s, t, q, v)
  /\ f \in ImageFamilies => ImageGiven(f, n, m, s, t, q, v)

LEMMA GivenIs ==
  ASSUME NEW n, Node(n), NEW q \in OneParams, NEW v, NEW m, Moved(n, m, q, v), m.refused = FALSE,
         NEW s, NEW t, t[q] = v, \A p \in OneParams \ {q} : t[p] = s[p], NEW f \in Families
  PROVE  Given(f, n, m, s, t, q, v)
<1>1. Family(f) \subseteq OneParams /\ (q \in Family(f) <=> FamilyOf(q) = f) /\ \A p \in Family(f) : FamilyOf(p) = f
  BY DEF Family
<1>2. q # Picture("denoising")
  BY DEF Moved
<1>3. CASE q \in Family(f)
  <2>1. \A p \in Family(f) \ {q} : t[p] = s[p]
    BY <1>1
  <2>2. f \in Ranged => RangeGiven(f, n, m, s, t, q, v)
    BY <1>1, <1>2, <1>3, <2>1 DEF Moved, RangeGiven
  <2>3. f = "wb" => WhiteGiven(n, m, s, t, q, v)
    BY <1>1, <1>2, <1>3, <2>1 DEF Moved, WhiteGiven
  <2>4. f \in ImageFamilies => ImageGiven(f, n, m, s, t, q, v)
    <3>1. f \in ImageFamilies => q = Picture(f)
      BY <1>3, InFamily
    <3>2. QED  BY <1>1, <1>2, <1>3, <3>1 DEF Moved, ImageGiven
  <2>5. QED  BY <2>2, <2>3, <2>4 DEF Given
<1>4. CASE q \notin Family(f)
  <2>1. \A p \in Family(f) : Left(n, m, p) /\ t[p] = s[p]
    <3>1. \A p \in OneParams : FamilyOf(p) # FamilyOf(q) => Left(n, m, p)
      <4>1. Elsewhere(n, m, q, v)
        BY MovedElse
      <4>2. QED  BY <4>1 DEF Elsewhere
    <3>2. QED  BY <1>1, <1>4, <3>1
  <2>2. f \in ImageFamilies => Picture(f) \in Family(f)
    BY InFamily
  <2>3. QED  BY <1>4, <2>1, <2>2 DEF Given, RangeGiven, WhiteGiven, ImageGiven
<1>5. QED  BY <1>3, <1>4

\* Nothing is given to the family.
LEMMA NotGiven ==
  ASSUME NEW n, NEW s, NEW f \in Families
  PROVE  Given(f, n, n, s, s, PubRate, 0)
<1>1. PubRate \notin Family(f)
  <2>1. FamilyOf(PubRate) = "sensors"
    BY ParamsAre DEF Family
  <2>2. QED  BY <2>1, InFamily DEF Family
<1>2. f \in ImageFamilies => PubRate # Picture(f)
  BY <1>1, InFamily
<1>3. QED  BY <1>1, <1>2 DEF Given, RangeGiven, WhiteGiven, ImageGiven, Left

LEMMA FamilyCalled ==
  ASSUME OneInd, NEW f \in Families, Arrived(f), camera' = camera, NEW m, NEW n, NEW s, NEW q, NEW v, NEW r, NEW w,
         q # r,
         Given(f, Before, m, stored, s, q, v), Given(f, m, n, s, stored', r, w),
         v \in Domain(q), w \in Domain(r), member' = n.member, changed' = n.changed
  PROVE  Waits(f)' /\ Ready(f)' /\ (Unmarked(f)' => Arrived(f)')
<1>1. CASE f \in Ranged
  <2>1. RangeGiven(f, Before, m, stored, s, q, v) /\ RangeGiven(f, m, n, s, stored', r, w)
    BY <1>1 DEF Given
  <2>2. QED  BY <1>1, <2>1, RangeCalled
<1>2. CASE f = "wb"
  <2>1. WhiteGiven(Before, m, stored, s, q, v) /\ WhiteGiven(m, n, s, stored', r, w) /\ Arrived("wb")
    BY <1>2 DEF Given
  <2>2. Waits("wb")' /\ Ready("wb")' /\ (Unmarked("wb")' => Arrived("wb")')
    BY <2>1, WhiteCalled
  <2>3. QED  BY <1>2, <2>2
<1>3. CASE f \in ImageFamilies
  <2>1. ImageGiven(f, Before, m, stored, s, q, v) /\ ImageGiven(f, m, n, s, stored', r, w)
    BY <1>3 DEF Given
  <2>2. QED  BY <1>3, <2>1, ImageCalled
<1>4. QED  BY <1>1, <1>2, <1>3, InFamily

\* A family that has arrived and stays as it is.
LEMMA ArrivedStays ==
  ASSUME OneInd, NEW f \in Families, Arrived(f), camera' = camera,
         \A p \in Family(f) : member'[p] = member[p] /\ stored'[p] = stored[p] /\ p \notin changed'
  PROVE  Waits(f)' /\ Ready(f)' /\ Arrived(f)'
<1>1. \A p \in Family(f) : p \notin changed
  BY DEF Arrived, Unmarked
<1>2. Unmarked(f)'
  BY DEF Unmarked
<1>3. CASE f \in Ranged
  <2>1. PICK A, V, L, H : A = Automatic(f) /\ V = Value(f) /\ L = Low(f) /\ H = High(f)
    OBVIOUS
  <2>2. {A, V, L, H} = Family(f) /\ f \notin ImageFamilies /\ f # "wb" /\ member[A] \in {0, 1}
    BY <1>3, <2>1, InFamily, ModeTyped DEF OneInd
  <2>3. WaitsRange(f) /\ Agree(f) /\ Saved(A) /\ SavedRange(f) /\ (member[A] = 0 => Saved(V))
    BY <1>3, <2>1 DEF Arrived, Waits
  <2>4. WaitsRange(f)' /\ Agree(f)' /\ Saved(A)' /\ SavedRange(f)' /\ (member'[A] = 0 => Saved(V)')
    BY <1>1, <2>1, <2>2, <2>3 DEF WaitsRange, Agree, Saved, SavedRange
  <2>5. Ready(f)'
    BY <2>1, <2>2, <2>4 DEF Ready, Split, Agree
  <2>6. QED  BY <1>2, <2>1, <2>2, <2>4, <2>5 DEF Arrived, Waits
<1>4. CASE f = "wb"
  <2>1. PICK X, T : X = White /\ T = Temperature
    OBVIOUS
  <2>2. Family(f) = {X, T} /\ f \notin Ranged /\ f \notin ImageFamilies
    BY <1>4, <2>1, InFamily
  <2>3. WaitsWhite /\ Saved(X)
    BY <1>4, <2>1, <2>2 DEF Arrived, Waits
  <2>4. WaitsWhite' /\ Saved(X)'
    BY <1>1, <2>1, <2>2, <2>3 DEF WaitsWhite, Carried, Warm, Saved
  <2>5. QED  BY <1>2, <1>4, <2>1, <2>2, <2>4 DEF Arrived, Waits, Ready
<1>5. CASE f \in ImageFamilies
  <2>1. Family(f) = {Picture(f)} /\ f \notin Ranged /\ f # "wb"
    BY <1>5, InFamily
  <2>2. Carried(Picture(f))' /\ Saved(Picture(f))'
    BY <1>1, <1>5, <2>1 DEF Arrived, Waits, Carried, Saved
  <2>3. QED  BY <1>2, <1>5, <2>1, <2>2 DEF Arrived, Waits, Ready
<1>6. QED  BY <1>3, <1>4, <1>5, InFamily

LEMMA MovedTo ==
  ASSUME NEW n, NEW q \in OneParams, NEW v, NEW m, Moved(n, m, q, v), m.refused = FALSE
  PROVE  m.member[q] = v
<1>1. FamilyOf(q) \in Ranged \cup ImageFamilies \cup {"wb", "sensors"} /\ q # Picture("denoising")
  BY ParamsAre DEF Moved
<1>2. FamilyOf(q) = "sensors" => q = PubRate
  <2>1. q \in Family(FamilyOf(q))
    BY DEF Family
  <2>2. QED  BY <2>1, ParamsAre
<1>3. CASE FamilyOf(q) \in Ranged
  BY <1>1, <1>3 DEF Moved, RangeMoved, Gets
<1>4. CASE FamilyOf(q) = "wb"
  BY <1>1, <1>4 DEF Moved, WhiteMoved, Gets
<1>5. CASE FamilyOf(q) \in ImageFamilies
  BY <1>1, <1>5 DEF Moved, Gets
<1>6. CASE FamilyOf(q) = "sensors"
  BY <1>1, <1>2, <1>6 DEF Moved
<1>7. QED  BY <1>1, <1>3, <1>4, <1>5, <1>6

\* What a call with the parameters of a set does.
CalledWith(set) ==
  /\ member' \in [OneParams -> Int] /\ stored' \in [OneParams -> Int] /\ changed' \subseteq Flagged /\ due' \in BOOLEAN
  /\ \A p \in OneParams : member'[p] \in Domain(p) /\ stored'[p] \in Domain(p)
  /\ \A f \in Families : set \cap Family(f) = {} =>
       \A p \in Family(f) : member'[p] = member[p] /\ stored'[p] = stored[p] /\ (p \in changed' <=> p \in changed)
  /\ due' = FALSE => changed' \subseteq changed
  /\ \A f \in Families : Arrived(f) /\ (stored' = stored => \A p \in Family(f) : member'[p] = member[p]) =>
       Waits(f)' /\ Ready(f)' /\ (Unmarked(f)' => Arrived(f)')
  /\ PubRate \notin set => member'[PubRate] = member[PubRate] /\ stored'[PubRate] = stored[PubRate]
  /\ PubRate \in set /\ stored' # stored => Saved(PubRate)'

LEMMA CalledOne ==
  ASSUME OneInd, camera' = camera, NEW q \in OneParams, NEW v \in Domain(q), Callback(<<<<q, v>>>>)
  PROVE  CalledWith({q})
<1>1. PICK n : /\ Moved(Before, n, q, v) /\ member' = n.member /\ changed' = n.changed /\ due' = n.count
               /\ stored' = IF n.refused THEN stored ELSE [stored EXCEPT ![q] = v]
  <2>1. OneTyped
    BY DEF OneInd
  <2>2. QED  BY <2>1, CallbackOne, Zenon
<1>2. /\ Node(Before) /\ Before.refused = FALSE /\ Before.member = member /\ Before.changed = changed
           /\ Before.count = FALSE
      /\ Node(n) /\ n.refused \in BOOLEAN
  BY <1>1, BeforeIs DEF OneInd, Moved, Node
<1>3. /\ stored \in [OneParams -> Int] /\ v \in Int /\ PubRate \in OneParams
      /\ \A p \in OneParams : stored[p] \in Domain(p)
  BY DomainsAre, ParamsAre DEF OneInd, OneTyped, OneSettingsTypeOK
<1>4. /\ stored' \in [OneParams -> Int] /\ \A p \in OneParams \ {q} : stored'[p] = stored[p]
      /\ stored'[q] \in {v, stored[q]} /\ (n.refused = FALSE => stored'[q] = v)
           /\ (n.refused = TRUE => stored' = stored)
  BY <1>1, <1>2, <1>3
<1>5. /\ \A p \in OneParams : FamilyOf(p) # FamilyOf(q) => Left(Before, n, p)
      /\ n.refused = FALSE \/ LeftBut(Before, n, {})
      /\ n.count = FALSE => n.changed \subseteq changed
      /\ (q # PubRate => n.member[PubRate] = member[PubRate]) /\ (q = PubRate => n.member[q] = v /\ n.refused = FALSE)
  <2>1. Node(Before) /\ Moved(Before, n, q, v)
    BY <1>1, <1>2
  <2>2. Elsewhere(Before, n, q, v)
    BY <2>1, MovedElse
  <2>3. QED  BY <1>2, <2>2 DEF Elsewhere
<1>6. ASSUME NEW f \in Families, {q} \cap Family(f) = {}
      PROVE  \A p \in Family(f) : member'[p] = member[p] /\ stored'[p] = stored[p] /\ (p \in changed' <=> p \in changed)
  <2>1. \A p \in Family(f) : p \in OneParams \ {q} /\ FamilyOf(p) # FamilyOf(q)
    BY <1>6 DEF Family
  <2>2. QED  BY <1>1, <1>2, <1>4, <1>5, <2>1 DEF Left
<1>7. ASSUME NEW f \in Families, Arrived(f), stored' = stored => \A p \in Family(f) : member'[p] = member[p]
      PROVE  Waits(f)' /\ Ready(f)' /\ (Unmarked(f)' => Arrived(f)')
  <2>1. \A p \in Family(f) : p \notin changed
    BY <1>7 DEF Arrived, Unmarked
  <2>2. CASE q \notin Family(f)
    <3>1. \A p \in Family(f) : member'[p] = member[p] /\ stored'[p] = stored[p] /\ p \notin changed'
      BY <1>6, <2>1, <2>2
    <3>2. QED  BY <1>7, <3>1, ArrivedStays
  <2>3. CASE n.refused = TRUE
    <3>1. \A p \in Family(f) : member'[p] = member[p] /\ stored'[p] = stored[p] /\ p \notin changed'
      BY <1>1, <1>2, <1>4, <1>5, <2>1, <2>3 DEF LeftBut, Left, Family
    <3>2. QED  BY <1>7, <3>1, ArrivedStays
  <2>4. CASE q \in Family(f) /\ n.refused = FALSE
    <3>1. Given(f, Before, n, stored, stored', q, v)
      BY <1>1, <1>2, <1>4, <2>4, GivenIs
    <3>2. Given(f, n, n, stored', stored', PubRate, 0)
      BY NotGiven
    <3>3. q # PubRate
      <4>1. FamilyOf(PubRate) = "sensors" /\ FamilyOf(q) = f
        BY <2>4, ParamsAre DEF Family
      <4>2. QED  BY <4>1, InFamily
    <3>4. 0 \in Domain(PubRate)
      BY DomainsAre
    <3>5. member' = n.member /\ changed' = n.changed
      BY <1>1
    <3>6. QED  BY <1>7, <3>1, <3>2, <3>3, <3>4, <3>5, FamilyCalled
  <2>5. QED  BY <1>2, <2>2, <2>3, <2>4
<1>8. \A p \in OneParams : member'[p] \in Domain(p) /\ stored'[p] \in Domain(p)
  BY <1>1, <1>2, <1>3, <1>4 DEF Node
<1>9. /\ PubRate \notin {q} => member'[PubRate] = member[PubRate] /\ stored'[PubRate] = stored[PubRate]
      /\ PubRate \in {q} /\ stored' # stored => Saved(PubRate)'
  BY <1>1, <1>3, <1>4, <1>5 DEF Saved
<1>10. /\ member' \in [OneParams -> Int] /\ changed' \subseteq Flagged /\ due' \in BOOLEAN
       /\ due' = FALSE => changed' \subseteq changed
  BY <1>1, <1>2, <1>5 DEF Node
<1>11. QED  BY <1>4, <1>6, <1>7, <1>8, <1>9, <1>10 DEF CalledWith

LEMMA CalledTwo ==
  ASSUME OneInd, camera' = camera, NEW q \in OneParams, NEW v \in Domain(q), NEW r \in OneParams,
         NEW w \in Domain(r), q # r,
         Callback(<<<<q, v>>, <<r, w>>>>)
  PROVE  CalledWith({q, r})
<1>1. PICK m, n : /\ Moved(Before, m, q, v) /\ IF m.refused THEN n = m ELSE Moved(m, n, r, w)
                  /\ member' = n.member /\ changed' = n.changed /\ due' = n.count
                  /\ stored' = IF n.refused THEN stored ELSE [[stored EXCEPT ![q] = v] EXCEPT ![r] = w]
  <2>1. OneTyped
    BY DEF OneInd
  <2>2. PICK m, n : Both(m, n, q, v, r, w)
    BY <2>1, CallbackTwo, Zenon
  <2>3. QED  BY <2>2 DEF Both
<1>2. /\ Node(Before) /\ Before.refused = FALSE /\ Before.member = member /\ Before.changed = changed
           /\ Before.count = FALSE
      /\ Node(m) /\ m.refused \in BOOLEAN /\ Node(n) /\ n.refused \in BOOLEAN
  <2>1. /\ Node(Before) /\ Before.refused = FALSE /\ Before.member = member /\ Before.changed = changed
             /\ Before.count = FALSE
        /\ Node(m)
    BY <1>1, BeforeIs DEF OneInd, Moved
  <2>2. m.refused \in BOOLEAN
    BY <2>1 DEF Node
  <2>3. Node(n)
    BY <1>1, <2>1, <2>2 DEF Moved
  <2>4. QED  BY <2>1, <2>2, <2>3 DEF Node
<1>3. /\ stored \in [OneParams -> Int] /\ v \in Int /\ w \in Int /\ PubRate \in OneParams
      /\ \A p \in OneParams : stored[p] \in Domain(p)
  BY DomainsAre, ParamsAre DEF OneInd, OneTyped, OneSettingsTypeOK
<1>4. PICK s : s = [stored EXCEPT ![q] = v]
  OBVIOUS
<1>5. s \in [OneParams -> Int] /\ s[q] = v /\ \A p \in OneParams \ {q} : s[p] = stored[p]
  BY <1>3, <1>4
<1>6. /\ stored' \in [OneParams -> Int] /\ \A p \in OneParams \ {q, r} : stored'[p] = stored[p]
      /\ stored'[q] \in {v, stored[q]} /\ stored'[r] \in {w, stored[r]}
      /\ n.refused = FALSE => stored'[r] = w /\ stored'[q] = v /\ \A p \in OneParams \ {r} : stored'[p] = s[p]
      /\ n.refused = TRUE => stored' = stored
  <2>1. CASE n.refused = TRUE
    BY <1>1, <1>3, <2>1
  <2>2. CASE n.refused = FALSE
    <3>1. stored' = [s EXCEPT ![r] = w]
      BY <1>1, <1>4, <2>2
    <3>2. QED  BY <1>3, <1>5, <2>2, <3>1
  <2>3. QED  BY <1>2, <2>1, <2>2
<1>7. /\ \A p \in OneParams : FamilyOf(p) # FamilyOf(q) => Left(Before, m, p)
      /\ m.refused = FALSE \/ LeftBut(Before, m, {})
      /\ m.count = FALSE => m.changed \subseteq changed
      /\ (q # PubRate => m.member[PubRate] = member[PubRate]) /\ (q = PubRate => m.member[q] = v /\ m.refused = FALSE)
  <2>1. Node(Before) /\ Moved(Before, m, q, v)
    BY <1>1, <1>2
  <2>2. Elsewhere(Before, m, q, v)
    BY <2>1, MovedElse
  <2>3. QED  BY <1>2, <2>2 DEF Elsewhere
<1>8. m.refused = FALSE =>
        /\ \A p \in OneParams : FamilyOf(p) # FamilyOf(r) => Left(m, n, p)
        /\ n.refused = FALSE \/ LeftBut(m, n, {})
        /\ n.count = FALSE => m.count = FALSE /\ n.changed \subseteq m.changed
        /\ (r # PubRate => n.member[PubRate] = m.member[PubRate])
             /\ (r = PubRate => n.member[r] = w /\ n.refused = FALSE)
  <2>1. SUFFICES ASSUME m.refused = FALSE
                 PROVE  /\ \A p \in OneParams : FamilyOf(p) # FamilyOf(r) => Left(m, n, p)
                        /\ n.refused = FALSE \/ LeftBut(m, n, {})
                        /\ n.count = FALSE => m.count = FALSE /\ n.changed \subseteq m.changed
                        /\ (r # PubRate => n.member[PubRate] = m.member[PubRate])
                        /\ (r = PubRate => n.member[r] = w /\ n.refused = FALSE)
    OBVIOUS
  <2>2. Moved(m, n, r, w)
    BY <1>1, <2>1
  <2>3. Node(m)
    BY <1>2
  <2>4. Elsewhere(m, n, r, w)
    BY <2>2, <2>3, MovedElse
  <2>5. QED  BY <2>1, <2>4 DEF Elsewhere
<1>9. m.refused = TRUE => n = m
  BY <1>1
<1>10. ASSUME NEW f \in Families, {q, r} \cap Family(f) = {}
       PROVE  \A p \in Family(f) : member'[p] = member[p] /\ stored'[p] = stored[p]
                /\ (p \in changed' <=> p \in changed)
  <2>1. \A p \in Family(f) : p \in OneParams \ {q, r} /\ FamilyOf(p) # FamilyOf(q) /\ FamilyOf(p) # FamilyOf(r)
    BY <1>10 DEF Family
  <2>2. \A p \in Family(f) : n.member[p] = m.member[p] /\ (p \in n.changed <=> p \in m.changed)
    BY <1>2, <1>8, <1>9, <2>1 DEF Left
  <2>3. QED  BY <1>1, <1>2, <1>6, <1>7, <2>1, <2>2 DEF Left
<1>11. ASSUME NEW f \in Families, Arrived(f), stored' = stored => \A p \in Family(f) : member'[p] = member[p]
       PROVE  Waits(f)' /\ Ready(f)' /\ (Unmarked(f)' => Arrived(f)')
  <2>1. (\A p \in Family(f) : p \notin changed) /\ Family(f) \subseteq OneParams
    BY <1>11 DEF Arrived, Unmarked, Family
  <2>2. CASE n.refused = FALSE
    <3>1. m.refused = FALSE /\ Moved(m, n, r, w)
      BY <1>1, <1>2, <1>9, <2>2
    <3>2. Given(f, Before, m, stored, s, q, v)
      BY <1>1, <1>2, <1>5, <3>1, GivenIs
    <3>3. stored'[r] = w /\ \A p \in OneParams \ {r} : stored'[p] = s[p]
      BY <1>6, <2>2
    <3>4. Given(f, m, n, s, stored', r, w)
      BY <1>2, <2>2, <3>1, <3>3, GivenIs
    <3>5. member' = n.member /\ changed' = n.changed
      BY <1>1
    <3>6. QED  BY <1>11, <3>2, <3>4, <3>5, FamilyCalled
  <2>3. CASE n.refused = TRUE
    <3>1. \A p \in Family(f) : n.member[p] = m.member[p] /\ (p \in n.changed => p \in m.changed)
      BY <1>2, <1>8, <1>9, <2>1, <2>3 DEF LeftBut, Left
    <3>2. \A p \in Family(f) : n.member[p] = member[p] /\ stored'[p] = stored[p]
      BY <1>1, <1>6, <1>11, <2>3
    <3>3. \A p \in Family(f) : p \in m.changed => p \in changed
      <4>1. CASE m.refused = TRUE
        BY <1>2, <1>7, <2>1, <4>1 DEF LeftBut, Left
      <4>2. CASE q \notin Family(f)
        <5>1. \A p \in Family(f) : FamilyOf(p) # FamilyOf(q)
          BY <4>2 DEF Family
        <5>2. QED  BY <1>2, <1>7, <2>1, <5>1 DEF Left
      <4>3. CASE m.refused = FALSE /\ q \in Family(f)
        <5>1. m.member[q] = v
          BY <1>1, <4>3, MovedTo
        <5>2. v = Before.member[q]
          BY <1>2, <3>1, <3>2, <4>3, <5>1
        <5>3. Moved(Before, m, q, Before.member[q])
          BY <1>1, <5>2
        <5>4. QED  BY <1>2, <4>3, <5>3, MovedSame
      <4>4. QED  BY <1>2, <4>1, <4>2, <4>3
    <3>4. \A p \in Family(f) : member'[p] = member[p] /\ stored'[p] = stored[p] /\ p \notin changed'
      BY <1>1, <2>1, <3>1, <3>2, <3>3
    <3>5. QED  BY <1>11, <3>4, ArrivedStays
  <2>4. QED  BY <1>2, <2>2, <2>3
<1>12. \A p \in OneParams : member'[p] \in Domain(p) /\ stored'[p] \in Domain(p)
  BY <1>1, <1>2, <1>3, <1>6 DEF Node
<1>13. /\ PubRate \notin {q, r} => member'[PubRate] = member[PubRate] /\ stored'[PubRate] = stored[PubRate]
       /\ PubRate \in {q, r} /\ stored' # stored => Saved(PubRate)'
  <2>1. PubRate \notin {q, r} => member'[PubRate] = member[PubRate] /\ stored'[PubRate] = stored[PubRate]
    BY <1>1, <1>2, <1>3, <1>6, <1>7, <1>8, <1>9
  <2>2. ASSUME PubRate \in {q, r}, stored' # stored PROVE Saved(PubRate)'
    <3>1. n.refused = FALSE /\ m.refused = FALSE
      BY <1>2, <1>6, <1>9, <2>2
    <3>2. stored'[r] = w /\ stored'[q] = v
      BY <1>6, <3>1
    <3>3. QED  BY <1>1, <1>7, <1>8, <2>2, <3>1, <3>2 DEF Saved
  <2>3. QED  BY <2>1, <2>2
<1>14. /\ member' \in [OneParams -> Int] /\ changed' \subseteq Flagged /\ due' \in BOOLEAN
       /\ due' = FALSE => changed' \subseteq changed
  <2>1. n.count = FALSE => n.changed \subseteq changed
    BY <1>2, <1>7, <1>8, <1>9
  <2>2. QED  BY <1>1, <1>2, <2>1 DEF Node
<1>15. QED  BY <1>6, <1>10, <1>11, <1>12, <1>13, <1>14 DEF CalledWith

\* What a client sets.
LEMMA SetBy ==
  ASSUME OneInd, NEW set \in SUBSET OneParams, CalledWith(set),
         UNCHANGED <<one, registered, camera, steps, oneRefusals>>, registered = TRUE, rounds' = 0,
         oneChanges' \in 0..MaxOneChanges,
         \A q \in set : FamilyOf(q) \in Ranged => FamilyOf(q) \in one.ranged,
         disturbed' = disturbed \cup
            AllMates({q \in set : \/ Mates(q) \cap changed # {} \/ Busy(q)
                                  \/ stored' = stored /\ \E r \in Mates(q) : member'[r] # member[r]})
            \cup (IF due' THEN {} ELSE AllMates(changed))
  PROVE  OneInd'
<1>1. PICK lost : lost = {q \in set : \/ Mates(q) \cap changed # {} \/ Busy(q)
                                      \/ stored' = stored /\ \E r \in Mates(q) : member'[r] # member[r]}
  OBVIOUS
<1>2. /\ lost \subseteq OneParams /\ changed \subseteq OneParams
      /\ \A p \in OneParams : Mates(p) = Family(FamilyOf(p)) /\ p \in Family(FamilyOf(p))
           /\ Mates(p) \subseteq OneParams
      /\ due' \in BOOLEAN
  BY <1>1, ParamsAre DEF OneInd, OneTyped, OneSettingsTypeOK, Family, CalledWith
<1>3. disturbed' = disturbed \cup AllMates(lost) \cup (IF due' THEN {} ELSE AllMates(changed))
  BY <1>1
<1>4. /\ disturbed \subseteq disturbed' /\ disturbed' \subseteq OneParams
      /\ \A q \in lost : Mates(q) \subseteq disturbed'
      /\ due' = FALSE => \A q \in changed : Mates(q) \subseteq disturbed'
  <2>1. disturbed \subseteq OneParams
    BY DEF OneInd, OneTyped, OneSettingsTypeOK
  <2>2. AllMates(lost) \subseteq OneParams /\ AllMates(changed) \subseteq OneParams
    BY <1>2 DEF AllMates
  <2>3. (\A q \in lost : Mates(q) \subseteq AllMates(lost)) /\ \A q \in changed : Mates(q) \subseteq AllMates(changed)
    BY DEF AllMates
  <2>4. QED  BY <1>3, <2>1, <2>2, <2>3
<1>5. OneTyped'
  BY <1>4 DEF OneInd, OneTyped, OneSettingsTypeOK, CalledWith
<1>6. Others'
  <2>1. ASSUME PubRate \notin disturbed' PROVE Saved(PubRate)'
    <3>1. PubRate \notin lost /\ PubRate \notin disturbed /\ PubRate \in OneParams
      BY <1>2, <1>4, <2>1, ParamsAre
    <3>2. CASE PubRate \in set
      <4>1. CASE stored' = stored
        <5>1. member'[PubRate] = member[PubRate]
          BY <1>1, <1>2, <3>1, <3>2, <4>1
        <5>2. QED  BY <3>1, <4>1, <5>1 DEF OneInd, Others, Saved
      <4>2. CASE stored' # stored
        BY <3>2, <4>2 DEF CalledWith
      <4>3. QED  BY <4>1, <4>2
    <3>3. CASE PubRate \notin set
      BY <3>1, <3>3 DEF OneInd, Others, Saved, CalledWith
    <3>4. QED  BY <3>2, <3>3
  <2>2. QED  BY <2>1 DEF Others
<1>7. ASSUME NEW f \in Families, set \cap Family(f) = {} PROVE Same(f)
  <2>1. \A p \in Family(f) : member'[p] = member[p] /\ stored'[p] = stored[p] /\ (p \in changed' <=> p \in changed)
    BY <1>7 DEF CalledWith
  <2>2. QED  BY <1>4, <2>1 DEF Same, Sound
<1>8. ASSUME NEW f \in Families, set \cap Family(f) # {}, Sound(f)'
      PROVE  /\ Sound(f) /\ Unmarked(f) /\ (stored' = stored => \A p \in Family(f) : member'[p] = member[p])
             /\ \A j \in DOMAIN steps : ~Concerns(steps[j], f) /\ steps[j].op # "rearm"
  <2>1. PICK q : q \in set \cap Family(f)
    BY <1>8
  <2>2. q \in OneParams /\ FamilyOf(q) = f /\ Mates(q) = Family(f)
    BY <1>2, <2>1 DEF Family
  <2>3. q \notin lost
    BY <1>4, <1>8, <2>2 DEF Sound
  <2>4. /\ Family(f) \cap changed = {} /\ ~Busy(q)
        /\ ~(stored' = stored /\ \E r \in Family(f) : member'[r] # member[r])
    BY <1>1, <2>1, <2>2, <2>3
  <2>5. \A j \in DOMAIN steps : steps[j].op # "rearm" /\ steps[j].at \notin Family(f)
    BY <2>2, <2>4 DEF Busy
  <2>6. \A j \in DOMAIN steps : steps[j].at \in OneParams
    <3>1. steps \in Seq(StepSet)
      BY DEF OneInd, Holds, Leads
    <3>2. QED  BY <3>1 DEF StepSet
  <2>7. Sound(f)
    BY <1>4, <1>8 DEF Sound
  <2>8. QED  BY <2>4, <2>5, <2>6, <2>7 DEF Concerns, Family, Unmarked
<1>9. ASSUME NEW f \in Families PROVE Holds(f)'
  <2>1. PICK x \in Stages : Means(f, x) /\ Leads(steps, f, x, At0("idle"))
    BY DEF OneInd, Holds
  <2>2. Means(f, x)'
    <3>1. CASE set \cap Family(f) = {}
      BY <1>7, <2>1, <3>1, SameStage
    <3>2. CASE set \cap Family(f) # {}
      <4>1. f \in Ranged => f \in one.ranged
        <5>1. PICK q : q \in set \cap Family(f)
          BY <3>2
        <5>2. FamilyOf(q) = f
          BY <5>1 DEF Family
        <5>3. QED  BY <5>1, <5>2
      <4>2. CASE ~Sound(f)'
        <5>1. f \in Ranged => f \in one'.ranged
          BY <4>1
        <5>2. QED  BY <4>2, <5>1, VoidStage
      <4>3. CASE Sound(f)'
        <5>1. /\ Sound(f) /\ Unmarked(f) /\ (stored' = stored => \A p \in Family(f) : member'[p] = member[p])
              /\ \A j \in DOMAIN steps : ~Concerns(steps[j], f)
          BY <1>8, <3>2, <4>3
        <5>2. x = At0("idle")
          BY <2>1, <5>1, LeadsPast
        <5>3. Idle1(f)
          BY <2>1, <4>1, <5>2, InFamily DEF Means, At0
        <5>4. Arrived(f)
          BY <5>1, <5>3 DEF Idle1
        <5>5. Waits(f)' /\ Ready(f)' /\ (Unmarked(f)' => Arrived(f)')
          BY <5>1, <5>4 DEF CalledWith
        <5>6. Idle1(f)'
          BY <5>5 DEF Idle1
        <5>7. (f \in Ranged => RangeStage(f, "idle", 0)') /\ (f = "wb" => WhiteStage("idle")')
          BY DEF RangeStage, WhiteStage
        <5>8. x[1] = "idle" /\ x[2] = 0
          BY <5>2 DEF At0
        <5>9. QED  BY <4>1, <5>6, <5>7, <5>8, InFamily DEF Means
      <4>4. QED  BY <4>2, <4>3
    <3>3. QED  BY <3>1, <3>2
  <2>3. QED  BY <2>1, <2>2 DEF Holds
<1>10. Holds("sensors")'
  <2>1. PICK x \in Stages : Means("sensors", x) /\ Leads(steps, "sensors", x, At0("idle"))
    BY DEF OneInd, Holds
  <2>2. Counted(due)'
    <3>1. ASSUME NEW f \in Families, Sound(f)', ~Unmarked(f)', due' = FALSE PROVE FALSE
      <4>1. PICK p : p \in Family(f) /\ p \in changed'
        BY <3>1 DEF Unmarked
      <4>2. p \in changed /\ FamilyOf(p) = f /\ p \in OneParams
        BY <1>2, <3>1, <4>1 DEF CalledWith, Family
      <4>3. Family(f) \subseteq disturbed'
        BY <1>2, <1>4, <3>1, <4>2
      <4>4. QED  BY <3>1, <4>3 DEF Sound
    <3>2. \A f \in Families : Sound(f)' /\ ~Unmarked(f)' => due'
      BY <1>2, <3>1
    <3>3. QED  BY <3>2 DEF Counted
  <2>3. x[1] = "counted" => Counted(x[2] = 1)'
    <3>1. SUFFICES ASSUME x[1] = "counted" PROVE Counted(x[2] = 1)'
      OBVIOUS
    <3>2. Counted(x[2] = 1)
      BY <2>1, <3>1 DEF Means
    <3>3. steps # <<>> /\ Head(steps).op = "rearm" /\ DOMAIN steps = 1..Len(steps) /\ 1 \in DOMAIN steps
            /\ Head(steps) = steps[1]
      <4>1. x # At0("idle") /\ x # At0("open")
        BY <3>1 DEF At0
      <4>2. ~(\A j \in DOMAIN steps : ~Concerns(steps[j], "sensors"))
        BY <2>1, <4>1, LeadsPast
      <4>3. steps \in Seq(StepSet) /\ steps # <<>>
        <5>1. steps \in Seq(StepSet)
          BY <2>1 DEF Leads
        <5>2. QED  BY <4>2, <5>1
      <4>4. PICK y \in Stages : Turn(Head(steps), "sensors", x, y)
        <5>1. \E y \in Stages : Turn(Head(steps), "sensors", x, y) /\ Leads(Tail(steps), "sensors", y, At0("idle"))
          BY <2>1, <4>3, LeadsOn
        <5>2. QED  BY <5>1
      <4>5. CountTurn(Head(steps).op, Head(steps).v, x, y)
        BY <4>1, <4>4, ParamsAre DEF Turn
      <4>6. Head(steps).op = "rearm"
        BY <4>1, <4>5 DEF CountTurn
      <4>7. QED  BY <4>3, <4>6
    <3>4. ASSUME NEW f \in Families, Sound(f)', ~Unmarked(f)' PROVE x[2] = 1
      <4>1. set \cap Family(f) = {}
        BY <1>8, <3>3, <3>4
      <4>2. \A p \in Family(f) : p \in changed' <=> p \in changed
        BY <4>1 DEF CalledWith
      <4>3. Sound(f) /\ ~Unmarked(f)
        BY <1>4, <3>4, <4>2 DEF Sound, Unmarked
      <4>4. QED  BY <3>2, <4>3 DEF Counted
    <3>5. QED  BY <3>4 DEF Counted
  <2>4. Means("sensors", x)'
    BY <2>2, <2>3 DEF Means
  <2>5. QED  BY <2>1, <2>4 DEF Holds
<1>11. QED  BY <1>5, <1>6, <1>9, <1>10 DEF OneInd

LEMMA BatchIs ==
  ASSUME NEW batch \in OneBatches
  PROVE  \/ \E q \in one.touched : \E v \in Domain(q) : batch = <<<<q, v>>>>
         \/ \E q, r \in one.touched : \E v \in Domain(q), w \in Domain(r) : q # r /\ batch = <<<<q, v>>, <<r, w>>>>
<1>1. PICK single : single = UNION {{<<p, v>> : v \in Domain(p)} : p \in one.touched}
  OBVIOUS
<1>2. \A c \in single : \E q \in one.touched : \E v \in Domain(q) : c = <<q, v>>
  BY <1>1
<1>3. batch \in {<<c>> : c \in single} \/ batch \in {b \in single \X single : b[1][1] # b[2][1]}
  BY <1>1 DEF OneBatches
<1>4. CASE batch \in {<<c>> : c \in single}
  <2>1. PICK c \in single : batch = <<c>>
    BY <1>4
  <2>2. PICK q \in one.touched : \E v \in Domain(q) : c = <<q, v>>
    BY <1>2
  <2>3. PICK v \in Domain(q) : c = <<q, v>>
    BY <2>2
  <2>4. batch = <<<<q, v>>>>
    BY <2>1, <2>3
  <2>5. QED  BY <2>4, Zenon
<1>5. CASE batch \in {b \in single \X single : b[1][1] # b[2][1]}
  <2>1. PICK b \in single, c \in single : batch = <<b, c>> /\ b[1] # c[1]
    BY <1>5
  <2>2. PICK q \in one.touched : \E v \in Domain(q) : b = <<q, v>>
    BY <1>2
  <2>3. PICK v \in Domain(q) : b = <<q, v>>
    BY <2>2
  <2>4. PICK r \in one.touched : \E w \in Domain(r) : c = <<r, w>>
    BY <1>2
  <2>5. PICK w \in Domain(r) : c = <<r, w>>
    BY <2>4
  <2>6. batch = <<<<q, v>>, <<r, w>>>> /\ q # r
    BY <2>1, <2>3, <2>5
  <2>7. QED  BY <2>6, Zenon
<1>6. QED  BY <1>3, <1>4, <1>5

LEMMA TouchedIs ==
  ASSUME OneInd, NEW q \in one.touched
  PROVE  q \in OneParams /\ (FamilyOf(q) \in Ranged => FamilyOf(q) \in one.ranged)
<1>1. one \in OneLaunches /\ one.touched \subseteq OneParams
  BY ZedOneSettingsAssumption DEF OneInd, OneTyped
<1>2. ASSUME FamilyOf(q) \in Ranged PROVE FamilyOf(q) \in one.ranged
  <2>1. PICK g \in Ranged : g = FamilyOf(q)
    BY <1>2
  <2>2. q \in {Automatic(g), Value(g), Low(g), High(g)}
    BY <1>1, <2>1, ParamsAre DEF Family
  <2>3. q \in Ranged \X {"auto", "value", "min", "max"} /\ q[1] = g
    BY <2>2 DEF Automatic, Value, Low, High
  <2>4. QED  BY <1>1, <2>1, <2>3, ZedOneSettingsAssumption
<1>3. QED  BY <1>1, <1>2

LEMMA SetParametersInd == OneInd /\ SetParameters => OneInd'
<1> SUFFICES ASSUME OneInd, SetParameters PROVE OneInd'
  OBVIOUS
<1>1. PICK batch \in OneBatches :
        /\ Callback(batch)
        /\ disturbed' = disturbed \cup
             AllMates({q \in {batch[i][1] : i \in DOMAIN batch} :
                        \/ Mates(q) \cap changed # {} \/ Busy(q)
                        \/ stored' = stored /\ \E r \in Mates(q) : member'[r] # member[r]})
             \cup (IF due' THEN {} ELSE AllMates(changed))
  BY DEF SetParameters
<1>2. /\ UNCHANGED <<one, registered, camera, steps, oneRefusals>> /\ registered = TRUE /\ rounds' = 0
      /\ oneChanges' \in 0..MaxOneChanges /\ camera' = camera
  <2>1. /\ UNCHANGED <<one, registered, camera, steps, oneRefusals>> /\ registered /\ rounds' = 0
        /\ oneChanges < MaxOneChanges /\ oneChanges' = oneChanges + 1
    BY DEF SetParameters
  <2>2. registered \in BOOLEAN /\ oneChanges \in 0..MaxOneChanges /\ MaxOneChanges \in Nat
    BY ZedOneSettingsAssumption DEF OneInd, OneTyped, OneSettingsTypeOK
  <2>3. oneChanges' \in 0..MaxOneChanges
    BY <2>1, <2>2
  <2>4. QED  BY <2>1, <2>2, <2>3
<1>3. PICK set : set = {batch[i][1] : i \in DOMAIN batch}
  OBVIOUS
<1>4. ASSUME CalledWith(set), set \subseteq one.touched PROVE OneInd'
  <2>1. set \in SUBSET OneParams /\ \A q \in set : FamilyOf(q) \in Ranged => FamilyOf(q) \in one.ranged
    BY <1>4, TouchedIs
  <2>2. disturbed' = disturbed \cup
            AllMates({q \in set : \/ Mates(q) \cap changed # {} \/ Busy(q)
                                  \/ stored' = stored /\ \E r \in Mates(q) : member'[r] # member[r]})
            \cup (IF due' THEN {} ELSE AllMates(changed))
    BY <1>1, <1>3
  <2>3. QED  BY <1>2, <1>4, <2>1, <2>2, SetBy
<1>5. CASE \E q \in one.touched : \E v \in Domain(q) : batch = <<<<q, v>>>>
  <2>1. PICK q \in one.touched : \E v \in Domain(q) : batch = <<<<q, v>>>>
    BY <1>5
  <2>2. PICK v \in Domain(q) : batch = <<<<q, v>>>>
    BY <2>1
  <2>3. q \in OneParams /\ v \in Domain(q) /\ Callback(<<<<q, v>>>>)
    BY <1>1, <2>2, TouchedIs
  <2>4. CalledWith({q})
    BY <1>2, <2>3, CalledOne
  <2>5. set = {q}
    BY <1>3, <2>2
  <2>6. QED  BY <1>4, <2>4, <2>5
<1>6. CASE \E q, r \in one.touched : \E v \in Domain(q), w \in Domain(r) : q # r /\ batch = <<<<q, v>>, <<r, w>>>>
  <2>1. PICK q \in one.touched, r \in one.touched :
          \E v \in Domain(q), w \in Domain(r) : q # r /\ batch = <<<<q, v>>, <<r, w>>>>
    BY <1>6
  <2>2. PICK v \in Domain(q), w \in Domain(r) : q # r /\ batch = <<<<q, v>>, <<r, w>>>>
    BY <2>1
  <2>3. /\ q \in OneParams /\ r \in OneParams /\ v \in Domain(q) /\ w \in Domain(r) /\ q # r
        /\ Callback(<<<<q, v>>, <<r, w>>>>)
    BY <1>1, <2>2, TouchedIs
  <2>4. CalledWith({q, r})
    BY <1>2, <2>3, CalledTwo
  <2>5. set = {q, r}
    BY <1>3, <2>2
  <2>6. QED  BY <1>4, <2>4, <2>5
<1>7. QED  BY <1>5, <1>6, BatchIs

\* What has come to rest.
LEMMA AtRest ==
  ASSUME OneInd, steps = <<>>, due = FALSE, NEW f \in Families
  PROVE  /\ f \in Ranged \ one.ranged => Still(f)
         /\ f \notin Ranged \ one.ranged /\ Sound(f) => Arrived(f)
<1>1. \A j \in DOMAIN steps : FALSE
  OBVIOUS
<1>2. Means(f, At0("idle"))
  <2>1. PICK x \in Stages : Means(f, x) /\ Leads(steps, f, x, At0("idle"))
    BY DEF OneInd, Holds
  <2>2. \A j \in DOMAIN steps : ~Concerns(steps[j], f)
    BY <1>1
  <2>3. x = At0("idle")
    BY <2>1, <2>2, LeadsPast
  <2>4. QED  BY <2>1, <2>3
<1>3. Counted(due)
  <2>1. PICK x \in Stages : Means("sensors", x) /\ Leads(steps, "sensors", x, At0("idle"))
    BY DEF OneInd, Holds
  <2>2. \A j \in DOMAIN steps : ~Concerns(steps[j], "sensors")
    BY <1>1
  <2>3. x = At0("idle")
    BY <2>1, <2>2, LeadsPast
  <2>4. QED  BY <2>1, <2>3 DEF Means, At0
<1>4. Sound(f) => Unmarked(f)
  BY <1>3 DEF Counted
<1>5. f \in Ranged \ one.ranged => Still(f)
  BY <1>2, InFamily DEF Means
<1>6. f \notin Ranged \ one.ranged => Idle1(f)
  BY <1>2, InFamily DEF Means, At0
<1>7. QED  BY <1>4, <1>5, <1>6 DEF Idle1

LEMMA Reaches == OneInd => OneSettingsReach
<1> SUFFICES ASSUME OneInd, steps = <<>>, ~due
             PROVE  /\ \A p \in OneParams \ disturbed : p \notin changed /\ Matches(p)
                    /\ \A g \in one.ranged : Automatic(g) \notin disturbed => Agree(g)
  BY DEF OneSettingsReach
<1>1. due = FALSE /\ changed \subseteq Flagged /\ DOMAIN camera = Dials /\ one.ranged \subseteq Ranged
  BY ZedOneSettingsAssumption DEF OneInd, OneTyped, OneSettingsTypeOK
<1>2. ASSUME NEW p \in OneParams \ disturbed PROVE p \notin changed /\ Matches(p)
  <2>1. CASE p = PubRate
    <3>1. p \notin changed /\ p \notin Dials /\ Saved(p)
      BY <1>1, <1>2, <2>1, ParamsAre DEF OneInd, Others
    <3>2. QED  BY <1>1, <3>1 DEF Matches, Saved
  <2>2. CASE p # PubRate
    <3>1. PICK f : f = FamilyOf(p)
      OBVIOUS
    <3>2. f \in Families /\ p \in Family(f) /\ Sound(f)
      <4>1. p \in Family(f) /\ f \in Ranged \cup ImageFamilies \cup {"wb", "sensors"}
        BY <1>2, <3>1, ParamsAre DEF Family
      <4>2. f # "sensors"
        BY <2>2, <4>1, ParamsAre
      <4>3. QED  BY <1>2, <4>1, <4>2 DEF Families, Sound
    <3>3. CASE f \in Ranged \ one.ranged
      <4>1. p \notin changed /\ Saved(p) /\ (p \in Dials => camera[p] = member[p])
        BY <1>1, <3>2, <3>3, AtRest DEF Still
      <4>2. QED  BY <1>1, <4>1 DEF Matches, Saved
    <3>4. CASE f \notin Ranged \ one.ranged
      <4>1. Arrived(f)
        BY <1>1, <3>2, <3>4, AtRest
      <4>2. p \notin changed /\ Waits(f) /\ \A q \in Family(f) : q \notin changed
        BY <3>2, <4>1 DEF Arrived, Unmarked
      <4>3. CASE f \in Ranged
        <5>1. PICK A, V, L, H : A = Automatic(f) /\ V = Value(f) /\ L = Low(f) /\ H = High(f)
          OBVIOUS
        <5>2. /\ p \in {A, V, L, H} /\ {A, V, L, H} = Family(f) /\ A \notin Dials /\ V \notin Dials
              /\ V # Temperature /\ L # Temperature /\ H # Temperature
          BY <3>2, <4>3, <5>1, ParamsAre DEF Automatic, Value, Low, High, Temperature
        <5>3. V[2] = "value" /\ Automatic(V[1]) = A /\ A[2] # "value" /\ L[2] # "value" /\ H[2] # "value"
          BY <5>1 DEF Automatic, Value, Low, High
        <5>4. Saved(A) /\ Saved(L) /\ Saved(H) /\ (member[A] = 0 => Saved(V))
          BY <4>1, <4>3, <5>1 DEF Arrived, SavedRange
        <5>5. camera[L] = member[L] /\ camera[H] = member[H]
          BY <4>2, <4>3, <5>1, <5>2 DEF Waits, WaitsRange
        <5>6. QED  BY <1>1, <4>2, <5>2, <5>3, <5>4, <5>5 DEF Matches, Saved
      <4>4. CASE f = "wb"
        <5>1. p \in {White, Temperature} /\ Family(f) = {White, Temperature} /\ White # Temperature
          BY <3>2, <4>4, ParamsAre DEF White, Automatic, Temperature
        <5>2. WaitsWhite /\ Saved(White)
          BY <4>1, <4>4, ParamsAre DEF Arrived, Waits
        <5>3. camera[White] = member[White] /\ Warm /\ Saved(Temperature)
          BY <4>2, <5>1, <5>2 DEF WaitsWhite, Carried
        <5>4. White[2] # "value" /\ Temperature[2] # "value"
          BY DEF White, Automatic, Temperature
        <5>5. QED  BY <4>2, <5>1, <5>2, <5>3, <5>4 DEF Matches, Saved, Warm
      <4>5. CASE f \in ImageFamilies
        <5>1. p = Picture(f) /\ Family(f) = {p}
          BY <3>2, <4>5, ParamsAre
        <5>2. camera[p] = member[p] /\ Saved(p)
          BY <4>2, <4>5, <5>1 DEF Waits, Carried
        <5>3. p[2] # "value" /\ p # Temperature
          BY <4>5, <5>1 DEF Picture, ImageFamilies, Temperature
        <5>4. QED  BY <4>2, <5>2, <5>3 DEF Matches, Saved
      <4>6. QED  BY <3>2, <4>3, <4>4, <4>5, InFamily
    <3>5. QED  BY <3>3, <3>4
  <2>3. QED  BY <2>1, <2>2
<1>3. ASSUME NEW g \in one.ranged, Automatic(g) \notin disturbed PROVE Agree(g)
  <2>1. g \in Ranged /\ g \in Families /\ Automatic(g) \in Family(g)
    BY <1>1, ParamsAre DEF Families
  <2>2. Sound(g)
    BY <1>3, <2>1 DEF Sound
  <2>3. Arrived(g)
    BY <1>1, <1>3, <2>1, <2>2, AtRest
  <2>4. QED  BY <2>1, <2>3 DEF Arrived
<1>4. QED  BY <1>2, <1>3

LEMMA OneIndImplies == OneInd => OneSettingsInv
<1> SUFFICES ASSUME OneInd PROVE OneSettingsInv
  OBVIOUS
<1>1. OneSettingsTypeOK /\ rounds \in 0..2
  BY DEF OneInd, OneTyped
<1>2. OneSettingsReach
  BY Reaches
<1>3. OneSettingsRest
  BY <1>1 DEF OneSettingsRest
<1>4. QED  BY <1>1, <1>2, <1>3 DEF OneSettingsInv

LEMMA OneIndNext == OneInd /\ [OneSettingsNext]_oneSettingsVars => OneInd'
<1> SUFFICES ASSUME OneInd, [OneSettingsNext]_oneSettingsVars PROVE OneInd'
  OBVIOUS
<1>1. CASE ApplyDynamicSettings
  BY <1>1, ApplyInd
<1>2. CASE SetVideoSetting
  BY <1>2, SetVideoSettingInd
<1>3. CASE ClearMark
  BY <1>3, ClearMarkInd
<1>4. CASE Balance
  BY <1>4, BalanceInd
<1>5. CASE Mode
  BY <1>5, ModeInd
<1>6. CASE ForceRange
  BY <1>6, ForceInd
<1>7. CASE Unmark
  BY <1>7, UnmarkInd
<1>8. CASE SetVideoSettingRange
  BY <1>8, SetVideoSettingRangeInd
<1>9. CASE Settle
  BY <1>9, SettleInd
<1>10. CASE SetParameter
  BY <1>10, SetParameterInd
<1>11. CASE CountMarks
  BY <1>11, CountMarksInd
<1>12. CASE Rearm
  BY <1>12, RearmInd
<1>13. CASE SetParameters
  BY <1>13, SetParametersInd
<1>14. CASE Register
  BY <1>14, RegisterInd
<1>15. CASE UNCHANGED oneSettingsVars
  BY <1>15, SleepInd
<1>16. QED
  BY <1>1, <1>2, <1>3, <1>4, <1>5, <1>6, <1>7, <1>8, <1>9, <1>10, <1>11, <1>12, <1>13, <1>14, <1>15
     DEF OneSettingsNext, OneApply

\* What callback_dynamicParamChange of the ZED One node has accepted arrives,
\* whatever it makes the grab thread set through the same callback: when nothing
\* is being sent and nothing is due, no mark is left, the camera and rclcpp have
\* the node's values and value, range and mode of an exposure or gain agree; and
\* applyDynamicSettings comes to rest within two rounds.
THEOREM OneSettingsInvariant == OneSettingsSpec => []OneSettingsInv
<1>1. OneSettingsInit => OneInd
  BY OneSettingsInitInd
<1>2. OneInd /\ [OneSettingsNext]_oneSettingsVars => OneInd'
  BY OneIndNext
<1>3. OneInd => OneSettingsInv
  BY OneIndImplies
<1>4. QED  BY <1>1, <1>2, <1>3, PTL DEF OneSettingsSpec
=============================================================================
