---------------------------- MODULE ZedPipeline ----------------------------
(***************************************************************************)
(* What the ZED node does with a frame: the grab thread retrieves image and *)
(* depth for the video/depth thread and the cloud for the point cloud      *)
(* thread, each under a mutex it only tries, then turns the pose of the    *)
(* SDK into the transforms map -> odom -> base.  Frames are numbered in    *)
(* place of their timestamps; a pose is a number modulo Poses.  The        *)
(* services that restart tracking are in ZedControl: here they are         *)
(* ResetOdometry and Restart.                                              *)
(***************************************************************************)
EXTENDS Integers, Sequences

CONSTANTS
  MaxFrames,   \* bound on the frames that are grabbed
  MaxResets,   \* bound on the service calls
  Poses,       \* the poses are 0 .. Poses - 1
  Launches,    \* the topics that will have subscribers, and whether it tracks
  None         \* the holder of a free mutex

Topics == {"rgb", "depth", "cloud"}
VideoTopics == {"rgb", "depth"}
W == {"vd", "pc"}     \* threadFunc_videoDepthElab, threadFunc_pointcloudElab
Feeds(w) == IF w = "pc" THEN {"cloud"} ELSE VideoTopics

ASSUME ZedPipelineAssumption ==
  /\ MaxFrames \in Nat \ {0} /\ MaxResets \in Nat /\ Poses \in Nat \ {0, 1}
  /\ Launches \subseteq [topics : SUBSET Topics, tracking : BOOLEAN]
  /\ None \notin W \cup {"grab"}

VARIABLES
  input,      \* "live" or "svo"
  launch,     \* of Launches; its tracking is mPosTrackingStarted
  subs,       \* the topics that have a subscriber
  counts,     \* the video topics whose cached count is positive
  grab,       \* where the grab thread is
  frame,      \* the frame the SDK holds; mFrameTimestamp is its stamp
  rgb,        \* the frame in mMatLeft
  depth,      \* the frame in mMatDepth
  taken,      \* the topics retrieved for the video/depth thread
  sdkTs,      \* mSdkGrabTS
  cloud,      \* the frame in mMatCloud
  lock,       \* the holders of mVdMutex and mPcMutex
  ready,      \* mVdDataReady, mPcDataReady
  at,         \* where the two threads are
  last,       \* mLastTs_grab, mLastTs_pc
  images,     \* published: the frames and the stamp of each pair
  clouds,     \* published: the frame and the stamp of each cloud
  stop,       \* mThreadStop
  odomOk,     \* odometry_status = OK for the frame
  motion,     \* the motion since the frame before
  world,      \* the SDK's pose of the base in the map
  odom,       \* mOdom2BaseTransf
  map2odom,   \* mMap2OdomTransf
  reset,      \* mResetOdomFromSrv
  restart,    \* a service is about to restart tracking
  resets      \* service calls so far

videoVars == <<rgb, depth, taken, sdkTs>>
workVars == <<lock, ready, at, last, images, clouds>>
poseVars == <<odomOk, motion, world, odom, map2odom, reset, restart, resets>>
zpVars == <<input, launch, subs, counts, grab, frame, videoVars, cloud, workVars, stop, poseVars>>

\* A thread that will have nothing to publish has come to its wait.
ZpInit ==
  /\ input \in {"live", "svo"} /\ launch \in Launches
  /\ subs = {} /\ counts = {}
  /\ grab = "top" /\ frame = 0
  /\ rgb = 0 /\ depth = 0 /\ taken = {} /\ sdkTs = 0 /\ cloud = 0
  /\ lock = [w \in W |-> None] /\ ready = [w \in W |-> FALSE]
  /\ at = [w \in W |-> IF launch.topics \cap Feeds(w) = {} THEN "wait" ELSE "start"]
  /\ last = [w \in W |-> 0]
  /\ images = <<>> /\ clouds = <<>> /\ stop = FALSE
  /\ odomOk = FALSE /\ motion = 0 /\ world = 0 /\ odom = 0 /\ map2odom = 0
  /\ reset = FALSE /\ restart = FALSE /\ resets = 0

-----------------------------------------------------------------------------
(* The grab thread; it holds mPtMutex except at "top".                     *)

Go(from, to) == grab = from /\ grab' = to

Top ==
  /\ Go("top", IF stop THEN "end" ELSE "required")
  /\ UNCHANGED <<input, launch, subs, counts, frame, videoVars, cloud, workVars, stop, poseVars>>

\* updateVideoDepthSubscribers, if its last query is 200 ms old: the counts are
\* zero until they have been counted, and the other thread may look.
Refresh(from, counting, to) ==
  /\ \/ Go(from, to) /\ UNCHANGED counts
     \/ Go(from, counting) /\ counts' = {}
     \/ Go(counting, to) /\ counts' = subs \cap VideoTopics
  /\ UNCHANGED <<input, launch, subs, frame, videoVars, cloud, workVars, stop, poseVars>>

\* isDepthRequired, areVideoDepthSubscribed.
Required == Refresh("required", "required counting", "grab")
Subscribed == Refresh("subscribed", "subscribed counting", "video")

\* A frame, the base having moved by 0 or 1, and a correction of the pose when
\* the SDK recognises a place.
Grab ==
  /\ Go("grab", "subscribed") /\ frame < MaxFrames
  /\ frame' = frame + 1
  /\ IF launch.tracking
       THEN /\ odomOk' \in BOOLEAN /\ motion' \in {0, 1}
            /\ \E correction \in {0, 1} : world' = (world + motion' + correction) % Poses
       ELSE UNCHANGED <<odomOk, motion, world>>
  /\ UNCHANGED <<input, launch, subs, counts, videoVars, cloud, workVars, stop, odom, map2odom, reset,
                 restart, resets>>

\* Mutant: the buffers are written whoever holds the mutex.
TryLockAlways(w) == TRUE

\* try_lock
TryLock(w) == lock[w] = None

\* processVideoDepth and the images of retrieveVideoDepth: nothing is done
\* without subscribers or while the other thread publishes.
Video ==
  /\ grab = "video"
  /\ IF counts # {} /\ TryLock("vd")
       THEN /\ lock' = [lock EXCEPT !.vd = "grab"] /\ taken' = counts
            /\ rgb' = IF "rgb" \in counts THEN frame ELSE rgb
            /\ grab' = "depth"
       ELSE grab' = "cloud" /\ UNCHANGED <<lock, taken, rgb>>
  /\ UNCHANGED <<input, launch, subs, counts, frame, depth, sdkTs, cloud, ready, at, last, images, clouds,
                 stop, poseVars>>

\* The measures of retrieveVideoDepth; the frame is handed over.
Depth ==
  /\ Go("depth", "cloud")
  /\ depth' = IF "depth" \in counts THEN frame ELSE depth
  /\ sdkTs' = frame
  /\ ready' = [ready EXCEPT !.vd = TRUE] /\ lock' = [lock EXCEPT !.vd = None]
  /\ UNCHANGED <<input, launch, subs, counts, frame, rgb, taken, cloud, at, last, images, clouds, stop,
                 poseVars>>

\* processPointCloud
Cloud ==
  /\ Go("cloud", IF launch.tracking THEN "odometry" ELSE "top")
  /\ IF "cloud" \in subs /\ TryLock("pc")
       THEN cloud' = frame /\ ready' = [ready EXCEPT !.pc = TRUE]
       ELSE UNCHANGED <<cloud, ready>>
  /\ UNCHANGED <<input, launch, subs, counts, frame, videoVars, lock, at, last, images, clouds, stop,
                 poseVars>>

\* processOdometry
Odometry ==
  /\ Go("odometry", "pose")
  /\ odom' = IF reset THEN 0 ELSE IF odomOk THEN (odom + motion) % Poses ELSE odom
  /\ reset' = FALSE
  /\ UNCHANGED <<input, launch, subs, counts, frame, videoVars, cloud, workVars, stop, odomOk, motion,
                 world, map2odom, restart, resets>>

\* processPose
Pose ==
  /\ Go("pose", "tf")
  /\ map2odom' = IF odomOk THEN (world - odom) % Poses ELSE map2odom
  /\ UNCHANGED <<input, launch, subs, counts, frame, videoVars, cloud, workVars, stop, odomOk, motion,
                 world, odom, reset, restart, resets>>

\* publishTFs: map -> odom and odom -> base, as they are now.
Tf ==
  /\ Go("tf", "top")
  /\ UNCHANGED <<input, launch, subs, counts, frame, videoVars, cloud, workVars, stop, poseVars>>

GrabStep == Top \/ Required \/ Grab \/ Subscribed \/ Video \/ Depth \/ Cloud \/ Odometry \/ Pose \/ Tf

-----------------------------------------------------------------------------
(* The video/depth and the point cloud thread.                             *)

GoW(w, from, to) == at[w] = from /\ at' = [at EXCEPT ![w] = to]
Idle(w) == UNCHANGED <<input, launch, subs, counts, grab, frame, videoVars, cloud, stop, poseVars>>

\* The flag is cleared before the mutex is obtained.
Start(w) ==
  /\ GoW(w, "start", "lock") /\ ready' = [ready EXCEPT ![w] = FALSE]
  /\ Idle(w) /\ UNCHANGED <<lock, last, images, clouds>>

Lock(w) ==
  /\ GoW(w, "lock", "check") /\ lock[w] = None /\ lock' = [lock EXCEPT ![w] = w]
  /\ Idle(w) /\ UNCHANGED <<ready, last, images, clouds>>

\* The head of the loop; a thread that waits has released the mutex.
Check(w) ==
  /\ GoW(w, "check", IF stop THEN "end" ELSE IF ready[w] THEN "publish" ELSE "wait")
  /\ lock' = [lock EXCEPT ![w] = IF ready[w] /\ ~stop THEN w ELSE None]
  /\ Idle(w) /\ UNCHANGED <<ready, last, images, clouds>>

\* The wait ends with data ...
Wake(w) ==
  /\ GoW(w, "wait", "publish") /\ ready[w] /\ lock[w] = None
  /\ lock' = [lock EXCEPT ![w] = w]
  /\ Idle(w) /\ UNCHANGED <<ready, last, images, clouds>>

\* wait_for returns after 500 ms.
Timeout(w) == ~ready[w] /\ lock[w] = None

\* ... or with the end of the thread.
EndWait(w) ==
  /\ GoW(w, "wait", "end") /\ Timeout(w) /\ stop
  /\ Idle(w) /\ UNCHANGED <<lock, ready, last, images, clouds>>

\* Mutant: the stamp of the frame the grab thread is at.
StampOfNow(grabbed) == frame

\* A recorded frame is stamped with mFrameTimestamp.
Stamp(grabbed) == IF input = "svo" THEN frame ELSE grabbed

\* publishImageWithInfo: image and camera_info, with one stamp.
ImageWithInfo ==
  [rgb |-> IF "rgb" \in counts THEN rgb ELSE 0, depth |-> 0,
   stamp |-> Stamp(sdkTs), of |-> sdkTs, taken |-> taken]

\* publishVideoDepth, the images.
PublishRgb ==
  /\ IF sdkTs = last.vd THEN GoW("vd", "publish", "sleep") /\ UNCHANGED <<last, images>>
     ELSE /\ GoW("vd", "publish", "depth")
          /\ last' = IF input = "svo" THEN last ELSE [last EXCEPT !.vd = sdkTs]
          /\ images' = Append(images, ImageWithInfo)
  /\ Idle("vd") /\ UNCHANGED <<lock, ready, clouds>>

\* publishDepthMapWithInfo and its companions: they join the images.
DepthWithInfo == [images EXCEPT ![Len(images)].depth = depth]

\* publishVideoDepth, the measures.
PublishDepth ==
  /\ GoW("vd", "depth", "sleep")
  /\ images' = IF "depth" \in counts THEN DepthWithInfo ELSE images
  /\ Idle("vd") /\ UNCHANGED <<lock, ready, last, clouds>>

\* publishPointCloud
PublishCloud ==
  /\ GoW("pc", "publish", "sleep")
  /\ IF Stamp(cloud) = last.pc THEN UNCHANGED <<last, clouds>>
     ELSE /\ last' = [last EXCEPT !.pc = Stamp(cloud)]
          /\ clouds' = Append(clouds, [of |-> cloud, stamp |-> Stamp(cloud)])
  /\ Idle("pc") /\ UNCHANGED <<lock, ready, images>>

\* Mutant: the mutex is released during the sleep.
SleepUnlocked(w) == [lock EXCEPT ![w] = None]

ReadyCleared(w) == ready' = [ready EXCEPT ![w] = FALSE]

\* The mutex during the sleep that keeps the publishing rate.
Sleeping(w) == lock

Sleep(w) ==
  /\ GoW(w, "sleep", "sleeping") /\ lock' = Sleeping(w)
  /\ Idle(w) /\ UNCHANGED <<ready, last, images, clouds>>

Slept(w) ==
  /\ GoW(w, "sleeping", "check") /\ lock[w] \in {w, None}
  /\ ReadyCleared(w) /\ lock' = [lock EXCEPT ![w] = w]
  /\ Idle(w) /\ UNCHANGED <<last, images, clouds>>

VideoStep == PublishRgb \/ PublishDepth
WorkStep(w) == Start(w) \/ Lock(w) \/ Check(w) \/ Wake(w) \/ EndWait(w) \/ Sleep(w) \/ Slept(w)

-----------------------------------------------------------------------------
(* The executor and the subscribers.                                       *)

\* Mutant: the service resets the odometry itself.
ResetAtOnce == odom' = 0 /\ UNCHANGED reset

\* callback_resetOdometry leaves the reset to the grab thread.
ResetRequest == reset' = TRUE /\ UNCHANGED odom

ResetOdometry ==
  /\ launch.tracking /\ resets < MaxResets /\ ~restart /\ resets' = resets + 1 /\ ResetRequest
  /\ UNCHANGED <<input, launch, subs, counts, grab, frame, videoVars, cloud, workVars, stop, odomOk, motion,
                 world, map2odom, restart>>

\* callback_resetPosTracking, callback_setPose, callback_setSvoFrame: the flag
\* is set first, ...
CallRestart ==
  /\ launch.tracking /\ resets < MaxResets /\ ~restart /\ resets' = resets + 1 /\ reset' = TRUE /\ restart' = TRUE
  /\ UNCHANGED <<input, launch, subs, counts, grab, frame, videoVars, cloud, workVars, stop, odomOk, motion,
                 world, odom, map2odom>>

\* ... and startPosTracking, with mPtMutex, puts the transforms to identity and
\* the SDK to the initial pose.
Restart ==
  /\ restart /\ grab \in {"top", "end"} /\ restart' = FALSE
  /\ odom' = 0 /\ map2odom' = 0 /\ world' \in {0, 1}
  /\ UNCHANGED <<input, launch, subs, counts, grab, frame, videoVars, cloud, workVars, stop, odomOk, motion,
                 reset, resets>>

Join ==
  /\ \E topic \in launch.topics \ subs : subs' = subs \cup {topic}
  /\ UNCHANGED <<input, launch, counts, grab, frame, videoVars, cloud, workVars, stop, poseVars>>

\* deInitNode: mThreadStop = true.
Stop ==
  /\ ~stop /\ stop' = TRUE
  /\ UNCHANGED <<input, launch, subs, counts, grab, frame, videoVars, cloud, workVars, poseVars>>

ZpNext ==
  \/ GrabStep \/ VideoStep \/ PublishCloud \/ (\E w \in W : WorkStep(w))
  \/ ResetOdometry \/ CallRestart \/ Restart \/ Join \/ Stop

\* The threads run; a thread that waits for its mutex gets it when it is free
\* again and again.  Nobody has to stop the node or to call a service.
ZpSpec ==
  /\ ZpInit /\ [][ZpNext]_zpVars
  /\ WF_zpVars(GrabStep) /\ WF_zpVars(VideoStep) /\ WF_zpVars(PublishCloud)
  /\ \A w \in W : SF_zpVars(WorkStep(w))

-----------------------------------------------------------------------------
(* Properties.                                                             *)

Frames == 0..MaxFrames
ImagePairs == [rgb : Frames, depth : Frames, stamp : Frames, of : Frames, taken : SUBSET VideoTopics]
Clouds == [of : Frames, stamp : Frames]

ZpTypeOK ==
  /\ input \in {"live", "svo"} /\ launch \in Launches /\ subs \subseteq Topics
  /\ counts \subseteq VideoTopics /\ taken \subseteq VideoTopics
  /\ frame \in Frames /\ rgb \in Frames /\ depth \in Frames /\ sdkTs \in Frames /\ cloud \in Frames
  /\ lock \in [W -> W \cup {"grab", None}] /\ ready \in [W -> BOOLEAN] /\ last \in [W -> Frames]
  /\ at \in [W -> {"start", "lock", "check", "wait", "publish", "depth", "sleep", "sleeping", "end"}]
  /\ images \in Seq(ImagePairs) /\ clouds \in Seq(Clouds)
  /\ motion \in {0, 1} /\ {odom, map2odom, world} \subseteq 0..(Poses - 1)

\* Who holds the mutexes, and what a thread publishes has been handed over.
Published == {"depth", "sleep", "sleeping"}
Locked ==
  /\ \A w \in W : at[w] \in Published \cup {"check", "publish"} => lock[w] = w
  /\ \A w \in W : at[w] = "publish" => ready[w]
  /\ grab = "depth" => lock["vd"] = "grab"

\* A frame is in the buffers from its retrieval on; until the grab thread comes
\* to them it is newer than theirs.
Grabbed == {"subscribed", "subscribed counting", "video", "depth"}
Retrieved ==
  /\ sdkTs <= frame /\ cloud <= frame
  /\ grab \in Grabbed => sdkTs < frame
  /\ grab \in Grabbed \cup {"cloud"} => cloud < frame
  /\ IF grab = "depth" THEN counts = taken /\ ("rgb" \in taken => rgb = frame)
     ELSE ("rgb" \in taken => rgb = sdkTs) /\ ("depth" \in taken => depth = sdkTs)
  /\ at["vd"] = "depth" =>
       LET p == images[Len(images)] IN images # <<>> /\ p.of = sdkTs /\ p.taken = taken

\* What is handed over and not yet published is newer than what is published.
Fresh(w, out, handed) ==
  /\ \A i \in DOMAIN out : out[i].of <= handed
  /\ ready[w] /\ at[w] \notin Published => \A i \in DOMAIN out : out[i].of < handed

\* "DEPTH/RGB ASYNC: this should never happen": an image and a depth map that
\* were retrieved together and are published together are of one frame, the
\* one in their header, although the grab thread goes on meanwhile.  (A depth
\* map can be old when its first subscriber joins between the two.)
PairsMatch ==
  \A i \in DOMAIN images :
    LET p == images[i] IN
      /\ p.rgb # 0 /\ "rgb" \in p.taken => p.rgb = p.of
      /\ p.depth # 0 /\ "depth" \in p.taken => p.depth = p.of

ZpInv ==
  /\ ZpTypeOK /\ Locked /\ Retrieved /\ PairsMatch
  /\ Fresh("vd", images, sdkTs) /\ Fresh("pc", clouds, cloud)

\* No frame is published twice and none after a later one, also when an SVO is
\* played, where mLastTs_grab is never set; those of a live camera have the stamp
\* of their frame, however late they are published.
StampsMatch ==
  \A out \in {images, clouds} :
    /\ \A i, j \in DOMAIN out : i < j => out[i].of < out[j].of
    /\ input = "live" => \A i \in DOMAIN out : out[i].stamp = out[i].of

\* The transforms that are broadcast compose to the pose of the SDK whenever
\* the odometry of the frame is valid: a reset of the odometry, requested at
\* any time, moves odom in the map and never the base.
ChainMatches == grab = "tf" /\ odomOk => (map2odom + odom) % Poses = world

\* A frame that was handed over is published, or a later one is: it is not
\* lost to the thread that clears the flag.
HandedOver ==
  input = "live" /\ ready.vd /\ at.vd # "start" ~> last.vd = sdkTs \/ at.vd = "end"

=============================================================================
