----------------------------- MODULE ZedControl -----------------------------
(***************************************************************************)
(* The control of the ZED node (zed_camera_component_main.cpp): the grab   *)
(* thread, the executor that runs one service at a time, and the shutdown  *)
(* callback, with the mutexes that order them.  A thread is the sequence   *)
(* of the steps it still has to do; a step that calls a function puts the  *)
(* function's steps in front.  The frames are in ZedPipeline, the SDK is   *)
(* external: a set of enabled modules, and calls that may fail.            *)
(***************************************************************************)
EXTENDS Integers, Sequences

CONSTANTS
  Detectors,   \* of "obj" (object detection) and "body" (body tracking)
  Setups,      \* launches: the input and the modules that parameters enable
  Required,    \* the parameters force positional tracking on
  MaxCalls,    \* bound on the service calls, those that only toggle the pause aside
  None         \* the holder of a free mutex

G == "grab"         \* threadFunc_zedGrab
X == "executor"     \* the callbacks: no callback group is ever made
S == "shutdown"     \* the pre_shutdown callback
Threads == {G, X, S}
Workers == {"sens", "vd", "pc"}
Locks == {"pt", "grab", "map", "rec", "close"} \cup Detectors
Inputs == {"live", "svo", "loop"}     \* "loop": an SVO file with svo_loop
Modules == {"pt", "map", "rec", "stream"} \cup Detectors

ASSUME ZedControlAssumption ==
  /\ Detectors \subseteq {"obj", "body"}
  /\ Setups \subseteq [input : Inputs, enabled : SUBSET ({"map", "stream"} \cup Detectors)]
  /\ Required \in BOOLEAN /\ MaxCalls \in Nat
  /\ None \notin Threads

VARIABLES
  input,    \* the source of the frames
  todo,     \* the steps each thread still has to do
  lock,     \* the holder of each mutex
  camera,   \* mZed: "open" or "closed"
  sdk,      \* the modules the SDK has enabled
  running,  \* mPosTrackingStarted, mObjDetRunning, mRecording, ...
  wanted,   \* mMappingEnabled, mObjDetEnabled, mStreamingServerRequired, ...
  asked,    \* the last request for mapping: a parameter or a service call
  noDepth,  \* mDepthDisabled
  paused,   \* mSvoPause
  once,     \* mGrabOnce
  imuOnce,  \* mGrabImuOnce
  failures, \* pt_err_count
  stop,     \* mThreadStop
  ok,       \* rclcpp::ok()
  deinit,   \* mNodeDeinitialized
  ended,    \* the threads that have returned
  calls,    \* service calls so far
  exited    \* "no", or how the process has ended: "exit" or "crash"

control == <<todo, lock>>
playVars == <<noDepth, paused, once, imuOnce>>
endVars == <<camera, stop, ok, deinit, ended, exited>>
zedVars == <<input, control, sdk, running, wanted, asked, playVars, failures, endVars, calls>>

-----------------------------------------------------------------------------
(* The functions, as the steps they do.                                    *)

\* One step; "-" stands for no argument.
Do(op, arg) == <<[op |-> op, arg |-> arg]>>
Locked(l, steps) == Do("lock", l) \o steps \o Do("unlock", l)
Each(F(_)) == (IF "obj" \in Detectors THEN F("obj") ELSE <<>>)
              \o (IF "body" \in Detectors THEN F("body") ELSE <<>>)

\* startPosTrackingLocked: the caller holds mPtMutex.
StartTrackingLocked ==
  IF noDepth THEN <<>>
  ELSE (IF "pt" \in sdk THEN Locked("grab", Do("disable", "pt")) ELSE <<>>)
       \o Locked("grab", Do("enable", "pt")) \o Do("started", "pt")
StartTracking == Locked("pt", Do("startTracking", "-"))

\* Mutant: the module is enabled without mGrabMutex.
StartDetectorUnguarded(d) ==
  IF noDepth \/ d \notin wanted THEN <<>> ELSE Do("enable", d) \o Do("started", d)

\* startObjDetect, startBodyTracking: the caller holds the module's mutex.
StartDetector(d) ==
  IF noDepth \/ d \notin wanted THEN <<>>
  ELSE Locked("grab", Do("enable", d)) \o Do("started", d)

StartMapping ==
  IF noDepth \/ "map" \in running \/ "map" \notin wanted THEN <<>>
  ELSE Do("enable", "map") \o Do("started", "map")

StartStreaming ==
  (IF "stream" \in sdk THEN Do("disable", "stream") ELSE <<>>)
    \o Do("enable", "stream") \o Do("started", "stream")
StopStreaming ==
  (IF "stream" \in sdk THEN Do("disable", "stream") ELSE <<>>)
    \o Do("stopped", "stream") \o Do("unwanted", "stream")

\* isPosTrackingRequired, subs being the subscribers it counts (not GEN_3).
TrackingRequired(subs) ==
  /\ ~noDepth
  /\ Required \/ wanted \cap (Detectors \cup {"map"}) # {} \/ subs \/ "pt" \in sdk

\* An iteration of the grab thread, from its checks to the end of the grab.
Iteration ==
  Do("tracking", "-") \o Do("modules", "-")
    \o Do("lock", "pt") \o Do("lock", "grab") \o Do("grab", "-")

\* What it does with a frame, mPtMutex still held: its timestamp, streaming
\* server, recording, objects, bodies and region of interest.
Process ==
  Do("use", "-") \o Do("stream", "-") \o Locked("rec", <<>>)
    \o (IF noDepth THEN <<>> ELSE Each(LAMBDA d: Locked(d, <<>>)) \o Do("region", "-"))

\* Mutant: the camera is closed before the threads have returned.
DeInitClosesFirst ==
  Each(LAMBDA d: Do("quit", d)) \o Do("quit", "map") \o Do("stop", "-")
    \o Locked("close", Do("save", "-") \o Do("close", "-")) \o Do("join", "-") \o Do("down", "-")

DeInit ==
  Each(LAMBDA d: Do("quit", d)) \o Do("quit", "map") \o Do("stop", "-") \o Do("join", "-")
    \o Locked("close", Do("save", "-") \o Do("close", "-")) \o Do("down", "-")

\* startCamera, and then initNode's registration of the pre_shutdown callback.
StartCamera == Do("connect", "-") \o Do("configure", "-") \o Do("launch", "-") \o Do("register", "-")

\* Mutant: mRecMutex is held, as in the other SVO services.
SetSvoFrameLocked == Locked("rec", Do("seek", "-"))

\* callback_setSvoFrame.
SetSvoFrame == Do("seek", "-")

\* callback_saveAreaMemory.
SaveAreaMemory == Do("save", "-")

\* startSvoRecording.
StartRecording == Do("enable", "rec") \o Do("started", "rec")

\* callback_pauseSvoInput.
TogglePause == Locked("rec", Do("pause", "-"))

Services ==
  {SetSvoFrame, TogglePause, SaveAreaMemory, Do("reset", "-"), Do("roi", "-"),
   Do("resetRoi", "-"), Locked("close", Do("diagnose", "-"))}
    \cup {Locked(d, Do(IF on THEN "detect" ELSE "halt", d)) : d \in Detectors, on \in BOOLEAN}
    \cup UNION {{Do("depth", on), Locked("map", Do("mapping", on)), Do("streaming", on),
                 Locked("rec", Do("record", on))} : on \in BOOLEAN}

\* The timers that read the camera, until deInitNode has cancelled them: the
\* temperatures, and the fused cloud while there is a map; and the clicked point,
\* whose subscription deInitNode drops first.
Callbacks ==
  (IF deinit /\ \A j \in DOMAIN todo[S] : todo[S][j].op # "stop" THEN {}
   ELSE {Do("temperature", "-")} \cup (IF "map" \in running THEN {Do("fused", "-")} ELSE {}))
    \cup (IF deinit THEN {} ELSE {Do("clicked", "-")})

ZedInit ==
  /\ \E setup \in Setups :
       /\ input = setup.input /\ wanted = setup.enabled /\ asked = ("map" \in setup.enabled)
  /\ todo = [t \in Threads |-> IF t = G THEN Do("top", "-")
                               ELSE IF t = X THEN StartCamera ELSE <<>>]
  /\ lock = [l \in Locks |-> None]
  /\ camera = "closed" /\ sdk = {} /\ running = {}
  /\ noDepth = FALSE /\ paused = FALSE /\ once = FALSE /\ imuOnce = FALSE /\ failures = 0
  /\ stop = FALSE /\ ok = TRUE /\ deinit = FALSE /\ ended = Workers \cup {G}
  /\ calls = 0 /\ exited = "no"

-----------------------------------------------------------------------------
(* Steps of any thread.                                                    *)

\* A mutex and the step that it guards are one step, unless the step is
\* another lock or grab(): a thread that waits holds what it has, and grab() takes
\* its time.
Guarded(t) == Head(todo[t]).op = "lock" /\ todo[t][2].op \notin {"lock", "unlock", "grab"}
Step(t) == todo[t][IF Guarded(t) THEN 2 ELSE 1]
Arg(t) == Step(t).arg
Taken(t) == IF Head(todo[t]).op = "lock" THEN {Head(todo[t]).arg} ELSE {}

At(t, op) ==
  /\ exited = "no" /\ todo[t] # <<>> /\ Step(t).op = op
  /\ \A l \in Taken(t) : lock[l] = None

\* The step is replaced by `steps`; the unlocks that are then at the head, n of
\* them, are part of it.
Continue(t, steps) ==
  \E next \in {steps \o SubSeq(todo[t], IF Guarded(t) THEN 3 ELSE 2, Len(todo[t]))} :
  \E n \in 0..Len(next) :
    /\ \A j \in 1..n : next[j].op = "unlock"
    /\ n < Len(next) => next[n + 1].op # "unlock"
    /\ todo' = [todo EXCEPT ![t] = SubSeq(next, n + 1, Len(next))]
    /\ lock' = [l \in Locks |-> IF \E j \in 1..n : next[j].arg = l THEN None
                                ELSE IF l \in Taken(t) THEN t ELSE lock[l]]

Acquire(t) == At(t, "lock") /\ Continue(t, <<>>)

\* The camera is used, or not: nobody has subscribed, or there is nothing to ask.
Maybe(t, op) == At(t, op) /\ \E used \in BOOLEAN : Continue(t, IF used THEN Do("use", "-") ELSE <<>>)

\* mZed is dereferenced after mZed.reset().
NullCamera(t) ==
  /\ \E op \in {"enable", "disable", "use", "grab"} : At(t, op)
  /\ camera = "closed" /\ exited' = "crash"
  /\ UNCHANGED <<input, control, sdk, running, wanted, asked, playVars, failures, camera, stop,
                 ok, deinit, ended, calls>>

\* Mutant: the flag keeps its value when the module does not start.
AfterRefusalKept(m) == running

\* mPosTrackingStarted = false, mObjDetRunning = false, ...
AfterRefusal(m) == running \ {m}

\* The SDK is asked to enable a module, and may refuse.
Enable(t) ==
  /\ At(t, "enable") /\ camera = "open" /\ Continue(t, <<>>)
  /\ \/ sdk' = sdk \cup {Arg(t)} /\ UNCHANGED running
     \/ running' = AfterRefusal(Arg(t)) /\ UNCHANGED sdk
  /\ UNCHANGED <<input, wanted, asked, playVars, failures, endVars, calls>>

\* The last statements of a start function, reached when the SDK has agreed.
Started(t) ==
  /\ At(t, "started") /\ Continue(t, <<>>)
  /\ running' = running \cup ({Arg(t)} \cap sdk)
  /\ UNCHANGED <<input, sdk, wanted, asked, playVars, failures, endVars, calls>>

Disable(t) ==
  /\ At(t, "disable") /\ camera = "open" /\ Continue(t, <<>>)
  /\ sdk' = sdk \ {Arg(t)}
  /\ UNCHANGED <<input, running, wanted, asked, playVars, failures, endVars, calls>>

\* stopObjDetect, stopBodyTracking and stop3dMapping clear both flags.
Forgotten(m) == {m}

\* A module is stopped: its flags first, the SDK second.
Halt(t) ==
  /\ At(t, "halt")
  /\ IF Arg(t) \in running
       THEN /\ running' = running \ {Arg(t)} /\ wanted' = wanted \ Forgotten(Arg(t))
            /\ Continue(t, IF Arg(t) = "map" THEN Do("disable", "map")
                           ELSE Locked("grab", Do("disable", Arg(t))))
       ELSE Continue(t, <<>>) /\ UNCHANGED <<running, wanted>>
  /\ UNCHANGED <<input, sdk, asked, playVars, failures, endVars, calls>>

\* stopStreamingServer: mStreamingServerRunning = false ...
Stopped(t) ==
  /\ At(t, "stopped") /\ running' = running \ {Arg(t)} /\ Continue(t, <<>>)
  /\ UNCHANGED <<input, sdk, wanted, asked, playVars, failures, endVars, calls>>

\* ... and then mStreamingServerRequired = false.
Unwanted(t) ==
  /\ At(t, "unwanted") /\ wanted' = wanted \ {Arg(t)} /\ Continue(t, <<>>)
  /\ UNCHANGED <<input, sdk, running, asked, playVars, failures, endVars, calls>>

-----------------------------------------------------------------------------
(* The start.                                                              *)

\* The camera, the stream or the SVO is opened, after retries if need be, or the
\* process ends: no camera in time, a bad file, Ctrl-C.
Connect ==
  /\ At(X, "connect") /\ Continue(X, <<>>)
  /\ \/ camera' = "open" /\ UNCHANGED exited
     \/ exited' = "exit" /\ UNCHANGED camera
  /\ UNCHANGED <<input, sdk, running, wanted, asked, playVars, failures, stop, ok, deinit, ended,
                 calls>>

\* The default settings of a live camera are read when its controls are debugged;
\* one that cannot be read ends the process.
DefaultSettings == exited' \in IF input = "live" THEN {"no", "exit"} ELSE {"no"}

\* The publishers, and one grab of a live camera under mPtMutex, which makes the
\* settings take effect.
DummyGrab == IF input = "live" THEN Locked("pt", Do("use", "-")) ELSE <<>>

\* The camera's information, the region of interest and what follows them.
Configure ==
  /\ At(X, "configure") /\ DefaultSettings /\ Continue(X, DummyGrab)
  /\ UNCHANGED <<input, sdk, running, wanted, asked, playVars, failures, camera, stop, ok, deinit,
                 ended, calls>>

\* initThreads: all four, as depth is on and the sensors have a rate of their own.
Launch ==
  /\ At(X, "launch") /\ Continue(X, <<>>) /\ ended' = {}
  /\ UNCHANGED <<input, sdk, running, wanted, asked, playVars, failures, camera, stop, ok, deinit,
                 calls, exited>>

Register == At(X, "register") /\ Continue(X, <<>>)
Hooked == \A j \in DOMAIN todo[X] : todo[X][j].op # "register"

-----------------------------------------------------------------------------
(* The grab thread.                                                        *)

\* The head of the loop; a paused SVO sleeps unless a frame is wanted.
Top ==
  /\ At(G, "top") /\ G \notin ended
  /\ \/ /\ ~ok \/ stop
        /\ stop' = TRUE /\ ended' = ended \cup {G} /\ Continue(G, <<>>) /\ UNCHANGED once
     \/ /\ ok /\ ~stop /\ (paused => once)
        /\ once' = (once /\ ~paused)
        /\ Continue(G, Iteration) /\ UNCHANGED <<stop, ended>>
  /\ UNCHANGED <<input, sdk, running, wanted, asked, noDepth, paused, imuOnce, failures, camera, ok,
                 deinit, calls, exited>>

CheckTracking ==
  /\ At(G, "tracking")
  /\ \E subs \in BOOLEAN :
       Continue(G, IF TrackingRequired(subs) /\ "pt" \notin running
                   THEN Locked("pt", Do("startTracking", "-") \o Do("count", "-")) ELSE <<>>)

\* pt_err_count: the third failure in a row ends the process.
CountFailure ==
  /\ At(G, "count") /\ Continue(G, <<>>)
  /\ failures' = IF "pt" \in running THEN 0 ELSE failures + 1
  /\ exited' = IF failures' = 3 THEN "exit" ELSE "no"
  /\ UNCHANGED <<input, sdk, running, wanted, asked, playVars, camera, stop, ok, deinit, ended,
                 calls>>

CheckModules ==
  /\ At(G, "modules")
  /\ Continue(G, IF noDepth THEN <<>>
                 ELSE Locked("map", Do("startMapping", "-"))
                      \o Each(LAMBDA d: Locked(d, Do("startDetector", d))))

\* `if (mMappingEnabled && !mSpatialMappingRunning)` and its converse.
CheckMapping(t) ==
  /\ At(t, "startMapping")
  /\ Continue(t, IF "map" \in running \ wanted THEN Do("halt", "map") ELSE StartMapping)

CheckDetector(t) ==
  /\ At(t, "startDetector")
  /\ Continue(t, IF Arg(t) \in running THEN <<>> ELSE StartDetector(Arg(t)))

\* The next iteration, or the end of the thread, after mPtMutex.
Again == Do("unlock", "pt") \o Do("top", "-")

\* grab() or read() returns: a frame, an issue that may pass (rebooting, not
\* initialized, failure), the end of the SVO, or a critical error.  An SVO
\* that loops is sent to its start and tracking may be started anew; otherwise
\* the other threads are stopped.
Grabbed ==
  /\ At(G, "grab") /\ camera = "open"
  /\ \E after \in {Process \o Again, Again, Do("kill", "-")}
                    \cup (IF input = "loop" THEN {Again, Do("startTracking", "-") \o Again} ELSE {})
                    \cup (IF input = "svo" THEN {Do("stop", "-") \o Again} ELSE {}) :
       Continue(G, Do("unlock", "grab") \o after)

\* "Critical camera error: NODE KILLED".
Kill ==
  /\ At(G, "kill") /\ camera' = "closed" /\ exited' = "exit"
  /\ UNCHANGED <<input, control, sdk, running, wanted, asked, playVars, failures, stop, ok,
                 deinit, ended, calls>>

CheckStreaming ==
  /\ At(G, "stream")
  /\ Continue(G, IF "stream" \in wanted \ running THEN StartStreaming ELSE <<>>)

\* processRtRoi.
RegionOfInterest == Maybe(G, "region")

-----------------------------------------------------------------------------
(* The services, one at a time.                                            *)

Call ==
  /\ exited = "no" /\ ok /\ todo[X] = <<>> /\ calls < MaxCalls
  /\ \E s \in Services \cup Callbacks :
       /\ todo' = [todo EXCEPT ![X] = s]
       /\ calls' = calls + (IF s = TogglePause THEN 0 ELSE 1)
  /\ UNCHANGED <<input, lock, sdk, running, wanted, asked, playVars, failures, endVars>>

EnableDepth ==
  /\ At(X, "depth") /\ noDepth' = ~Arg(X) /\ Continue(X, <<>>)
  /\ UNCHANGED <<input, sdk, running, wanted, asked, paused, once, imuOnce, failures, endVars,
                 calls>>

\* enableObjDet, enableBodyTrk with data = true; "halt" is data = false.
EnableDetector ==
  /\ At(X, "detect")
  /\ wanted' = wanted \cup {Arg(X)}
  /\ Continue(X, IF Arg(X) \in wanted \cap running THEN <<>> ELSE Do("startDetector", Arg(X)))
  /\ UNCHANGED <<input, sdk, running, asked, playVars, failures, endVars, calls>>

EnableMapping ==
  /\ At(X, "mapping") /\ asked' = Arg(X)
  /\ IF Arg(X)
       THEN /\ wanted' = wanted \cup {"map"}
            /\ Continue(X, IF "map" \in wanted \cap running THEN <<>> ELSE Do("startMapping", "-"))
       ELSE IF "map" \in wanted \cap running
       THEN Continue(X, Do("halt", "map")) /\ UNCHANGED wanted
       ELSE Continue(X, <<>>) /\ wanted' = wanted \ Forgotten("map")
  /\ running' = IF ~Arg(X) /\ "map" \notin wanted THEN running \ {"map"} ELSE running
  /\ UNCHANGED <<input, sdk, playVars, failures, endVars, calls>>

EnableStreaming ==
  /\ At(X, "streaming")
  /\ Continue(X, IF Arg(X) = ("stream" \in running) THEN <<>>
                 ELSE IF Arg(X) THEN StartStreaming ELSE StopStreaming)

\* startSvoRec, stopSvoRec: not while an SVO is played.
Record ==
  /\ At(X, "record")
  /\ running' = IF Arg(X) THEN running ELSE running \ {"rec"}
  /\ Continue(X, IF input # "live" \/ Arg(X) = ("rec" \in running) THEN <<>>
                 ELSE IF Arg(X) THEN StartRecording
                      ELSE Do("disable", "rec"))
  /\ UNCHANGED <<input, sdk, wanted, asked, playVars, failures, endVars, calls>>

\* pauseSvoInput; an SVO that is played in real time cannot be paused.
PauseSvo ==
  /\ At(X, "pause") /\ Continue(X, <<>>)
  /\ paused' \in IF input = "live" THEN {paused} ELSE {~paused, FALSE}
  /\ UNCHANGED <<input, sdk, running, wanted, asked, noDepth, once, imuOnce, failures, endVars,
                 calls>>

\* setSvoFrame: refused when it is called too fast or for a frame the SVO does
\* not have; otherwise the SDK is sent there under mGrabMutex, tracking is
\* started anew and a paused SVO gives one frame and one sample of the sensors.
Seek ==
  /\ At(X, "seek")
  /\ \/ Continue(X, <<>>)
     \/ /\ input # "live"
        /\ Continue(X, Do("use", "-") \o Locked("grab", Do("use", "-")) \o Do("reposition", "-")
                         \o Do("replay", "-"))

Reposition ==
  /\ At(X, "reposition")
  /\ \E subs \in BOOLEAN : Continue(X, IF TrackingRequired(subs) THEN StartTracking ELSE <<>>)

Replay ==
  /\ At(X, "replay") /\ Continue(X, <<>>)
  /\ once' = (once \/ paused) /\ imuOnce' = (imuOnce \/ paused)
  /\ UNCHANGED <<input, sdk, running, wanted, asked, noDepth, paused, failures, endVars, calls>>

\* resetPosTracking, setPose.
ResetTracking == At(X, "reset") /\ Continue(X, IF "pt" \in running THEN StartTracking ELSE <<>>)

\* saveAreaMemoryFile, for the service and for closeCamera.
SaveArea(t) ==
  /\ At(t, "save")
  /\ Continue(t, IF "pt" \in running /\ camera = "open" THEN Do("use", "-") ELSE <<>>)

\* setRoi: a polygon that cannot be read is refused.
SetRoi ==
  /\ At(X, "roi")
  /\ \E polygon \in BOOLEAN : Continue(X, IF polygon /\ ~noDepth THEN Do("use", "-") ELSE <<>>)
ResetRoi == At(X, "resetRoi") /\ Continue(X, IF noDepth THEN <<>> ELSE Do("use", "-"))

PubTemp == Maybe(X, "temperature")
PubFusedPc == Maybe(X, "fused")
ClickedPoint == Maybe(X, "clicked")

\* updateDiagnostic is the one callback that looks whether mZed is there.
Diagnose == At(X, "diagnose") /\ Continue(X, IF camera = "open" THEN Do("use", "-") ELSE <<>>)

-----------------------------------------------------------------------------
(* The end.                                                                *)

\* Ctrl-C: the pre_shutdown callback runs deInitNode while rclcpp is still ok.
\* Before it is registered the context goes down at once, and the destructor runs
\* deInitNode when the executor has returned.
Interrupted(steps) ==
  /\ exited = "no" /\ ~deinit
  /\ deinit' = TRUE /\ ok' = Hooked
  /\ todo' = [todo EXCEPT ![S] = (IF Hooked THEN <<>> ELSE Do("spun", "-")) \o steps]
  /\ UNCHANGED <<input, lock, sdk, running, wanted, asked, playVars, failures, camera, stop, ended,
                 calls, exited>>
Interrupt == Interrupted(DeInit)

Spun == At(S, "spun") /\ todo[X] = <<>> /\ Continue(S, <<>>)

\* `if (mObjDetRunning)`, read without the mutex.
Quit ==
  /\ At(S, "quit")
  /\ Continue(S, IF Arg(S) \in running THEN Locked(Arg(S), Do("halt", Arg(S))) ELSE <<>>)

\* mThreadStop = true, by deInitNode or at the end of the SVO.
StopThreads(t) ==
  /\ At(t, "stop") /\ stop' = TRUE /\ Continue(t, <<>>)
  /\ UNCHANGED <<input, sdk, running, wanted, asked, playVars, failures, camera, ok, deinit, ended,
                 calls, exited>>

\* The joins of the four threads, one after the other.
Join == At(S, "join") /\ Workers \cup {G} \subseteq ended /\ Continue(S, <<>>)

\* closeCamera, after the area memory has been saved.
CloseCamera ==
  /\ At(S, "close") /\ camera' = "closed" /\ Continue(S, <<>>)
  /\ UNCHANGED <<input, sdk, running, wanted, asked, playVars, failures, stop, ok, deinit, ended,
                 calls, exited>>

ContextDown ==
  /\ At(S, "down") /\ ok' = FALSE /\ Continue(S, <<>>)
  /\ UNCHANGED <<input, sdk, running, wanted, asked, playVars, failures, camera, stop, deinit,
                 ended, calls, exited>>

\* publishSensorsData asks the camera for its sensors' data.
ReadSensors == exited' = IF camera = "closed" THEN "crash" ELSE "no"

\* An iteration of the sensors thread.
Sense ==
  /\ exited = "no" /\ "sens" \notin ended /\ ok /\ ~stop
  /\ paused => imuOnce
  /\ imuOnce' = (imuOnce /\ ~paused)
  /\ ReadSensors
  /\ UNCHANGED <<input, control, sdk, running, wanted, asked, noDepth, paused, once, failures, camera,
                 stop, ok, deinit, ended, calls>>

\* The sensors, video/depth and point cloud threads see mThreadStop or !ok().
WorkersEnd ==
  /\ exited = "no" /\ (stop \/ ~ok) /\ ~(Workers \subseteq ended)
  /\ stop' = TRUE /\ ended' = ended \cup Workers
  /\ UNCHANGED <<input, control, sdk, running, wanted, asked, playVars, failures, camera, ok, deinit,
                 calls, exited>>

-----------------------------------------------------------------------------
\* Steps that call a function, or only use the camera.
Calls(t) ==
  /\ \/ Acquire(t)
     \/ At(t, "startTracking") /\ Continue(t, StartTrackingLocked)
     \/ At(t, "use") /\ camera = "open" /\ Continue(t, <<>>)
     \/ CheckMapping(t) \/ CheckDetector(t) \/ SaveArea(t)
     \/ t = G /\ (CheckTracking \/ CheckModules \/ Grabbed \/ CheckStreaming \/ RegionOfInterest)
     \/ t = X /\ (Register \/ EnableStreaming \/ Seek \/ Reposition \/ ResetTracking \/ SetRoi
                  \/ ResetRoi \/ PubTemp \/ PubFusedPc \/ ClickedPoint \/ Diagnose)
     \/ t = S /\ (Quit \/ Join \/ Spun)
  /\ UNCHANGED <<input, sdk, running, wanted, asked, playVars, failures, endVars, calls>>

AnyStep(t) ==
  /\ todo[t] # <<>>
  /\ \/ Calls(t) \/ NullCamera(t) \/ Enable(t) \/ Started(t) \/ Disable(t) \/ Halt(t)
     \/ Stopped(t) \/ Unwanted(t) \/ StopThreads(t)
GrabStep == AnyStep(G) \/ Top \/ CountFailure \/ Kill
ServiceStep ==
  AnyStep(X) \/ Connect \/ Configure \/ Launch \/ EnableDepth \/ EnableDetector \/ EnableMapping \/ Record \/ PauseSvo \/ Replay
ShutdownStep == AnyStep(S) \/ CloseCamera \/ ContextDown

ZedNext ==
  \/ GrabStep \/ Call \/ ServiceStep \/ Interrupt \/ ShutdownStep \/ Sense \/ WorkersEnd
ZedSpec == ZedInit /\ [][ZedNext]_zedVars

-----------------------------------------------------------------------------
(* Properties.                                                             *)

ZedTypeOK ==
  /\ input \in Inputs
  /\ lock \in [Locks -> Threads \cup {None}]
  /\ camera \in {"open", "closed"}
  /\ sdk \subseteq Modules /\ running \subseteq Modules /\ wanted \subseteq Modules
  /\ asked \in BOOLEAN /\ noDepth \in BOOLEAN /\ paused \in BOOLEAN /\ once \in BOOLEAN
  /\ imuOnce \in BOOLEAN
  /\ failures \in 0..3
  /\ stop \in BOOLEAN /\ ok \in BOOLEAN /\ deinit \in BOOLEAN
  /\ ended \subseteq Workers \cup {G}
  /\ calls \in 0..MaxCalls /\ exited \in {"no", "exit", "crash"}

\* The node's flags say what the SDK does: mPosTrackingStarted, mObjDetRunning,
\* mBodyTrkRunning, mSpatialMappingRunning and mRecording agree with the
\* modules that are enabled whenever nobody holds the module's mutex, although
\* three threads start and stop them and any start may fail.
FlagsMatchSdk ==
  exited = "no" =>
    \A m \in Modules \cap Locks : lock[m] = None => (m \in running <=> m \in sdk)

\* Mapping obeys the last request: once enable_mapping(false) has been
\* answered, whatever it answered, the grab thread does not start it again.
MappingObeys == lock["map"] = None /\ ~asked => "map" \notin running

ZedInv == ZedTypeOK /\ FlagsMatchSdk /\ MappingObeys

\* The camera is closed only when every thread that uses it has returned.
CameraOutlivesThreads == camera = "closed" /\ exited = "no" => Workers \cup {G} \subseteq ended

\* "Safe grab": tracking, object detection and body tracking are switched only
\* while no grab() is in progress.
InGrab == todo[G] # <<>> /\ Head(todo[G]).op = "grab"
SafeGrab ==
  [][InGrab /\ InGrab' => \A m \in Detectors \cup {"pt"} : m \in sdk' <=> m \in sdk]_zedVars
=============================================================================
