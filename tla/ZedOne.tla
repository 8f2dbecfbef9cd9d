------------------------------- MODULE ZedOne -------------------------------
(***************************************************************************)
(* The control of the monocular ZED One node (ZedCameraOne), with the      *)
(* steps of ZedControl: it opens the camera while the executor waits,      *)
(* starts a grab and a sensors thread, serves the streaming server, the    *)
(* recording and the playback of an SVO, and closes the camera.  It has    *)
(* one mutex, _recMutex, and nothing but the streaming server and the      *)
(* recording to switch.  `node` says which of the two nodes is run.        *)
(***************************************************************************)
EXTENDS ZedControl

VARIABLE node      \* "zed" or "one"

nodeVars == <<zedVars, node>>

-----------------------------------------------------------------------------
(* The functions, as the steps they do.                                    *)

\* After the grab: the recording status, and the image for its subscribers.
Rest == Locked("rec", Do("status", "-")) \o Do("images", "-") \o Do("oneTop", "-")

\* updateFrameTimestamp, publishSvoClock, handleStreamingServer.
Frame == Do("use", "-") \o Do("stream", "-") \o Rest

\* The end of threadFunc_zedGrab: the diagnostics are forced once more.
Farewell == Do("report", "-") \o Do("end", "-")

OneDeInit == Do("stop", "-") \o Do("join", "-") \o Do("close", "-") \o Do("down", "-")

\* callback_enableStreaming has no mutex; callback_startSvoRec refuses an SVO
\* before it takes _recMutex, callback_stopSvoRec takes it first.
SwitchStreaming(on) == Do("streaming", on)
SwitchRecording(on) == IF on /\ input # "live" THEN <<>> ELSE Locked("rec", Do("record", on))

\* The services of the node, the diagnostics and the temperature timer; those
\* of an SVO exist only when one is played.
OneServices ==
  {Do("report", "-")}
    \cup {SwitchStreaming(on) : on \in BOOLEAN} \cup {SwitchRecording(on) : on \in BOOLEAN}
    \cup (IF input = "live" THEN {} ELSE {TogglePause, Locked("rec", Do("oneSeek", "-"))})
    \cup (IF stop \/ deinit THEN {} ELSE {Do("use", "-")})

OneInit ==
  /\ input \in Inputs /\ wanted \in SUBSET {"stream"} /\ asked = FALSE
  /\ todo = [t \in Threads |-> IF t = G THEN Do("begin", "-")
                               ELSE IF t = X THEN Do("open", "-") \o Do("register", "-") ELSE <<>>]
  /\ lock = [l \in Locks |-> None]
  /\ camera = "closed" /\ sdk = {} /\ running = {}
  /\ noDepth = FALSE /\ paused = FALSE /\ once = FALSE /\ imuOnce = FALSE /\ failures = 0
  /\ stop = FALSE /\ ok = TRUE /\ deinit = FALSE /\ ended = Workers \cup {G}
  /\ calls = 0 /\ exited = "no"

-----------------------------------------------------------------------------
(* The start.                                                              *)

\* openZedCamera tries again and again, up to a timeout.
OpenCamera ==
  \/ camera' = "open" /\ UNCHANGED exited
  \/ exited' = "exit" /\ UNCHANGED camera

\* startCamera: without a camera the process ends; otherwise the threads start,
\* of which this node has two.
Open ==
  /\ At(X, "open") /\ Continue(X, <<>>) /\ OpenCamera
  /\ ended' = IF camera' = "open" THEN {"vd", "pc"} ELSE ended
  /\ UNCHANGED <<input, sdk, running, wanted, asked, playVars, failures, stop, ok, deinit, calls>>

\* initializeGrabThreadStatus: _threadStop = false, by the grab thread itself.
Begin ==
  /\ At(G, "begin") /\ G \notin ended
  /\ stop' = FALSE /\ Continue(G, Do("oneTop", "-"))
  /\ UNCHANGED <<input, sdk, running, wanted, asked, playVars, failures, camera, ok, deinit,
                 ended, calls, exited>>

-----------------------------------------------------------------------------
(* The grab thread.                                                        *)

\* checkGrabThreadInterruption, the pause, and the settings of a live camera.
OneTop ==
  /\ At(G, "oneTop")
  /\ \/ /\ ~ok \/ stop
        /\ stop' = TRUE /\ Continue(G, Farewell) /\ UNCHANGED once
     \/ /\ ok /\ ~stop /\ (paused => once)
        /\ once' = (once /\ ~paused)
        /\ \E settings \in IF input = "live" THEN {Do("use", "-"), <<>>} ELSE {<<>>} :
             Continue(G, settings \o Do("fetch", "-"))
        /\ UNCHANGED stop
  /\ UNCHANGED <<input, sdk, running, wanted, asked, noDepth, paused, imuOnce, failures, camera, ok,
                 deinit, ended, calls, exited>>

\* `if (!_svoPause)`, read again.
Fetch ==
  /\ At(G, "fetch")
  /\ Continue(G, IF paused THEN Rest ELSE Do("use", "-") \o Do("grabbed", "-"))

\* performCameraGrab: after a frame, and after an issue that may pass, the
\* iteration goes on; an SVO that loops is sent to its start; at the end of the
\* others the thread ends at once, or after one more round when the SVO status
\* has subscribers.
OneGrabbed ==
  /\ At(G, "grabbed")
  /\ \E after \in {Frame, Do("kill", "-")}
                    \cup (IF input = "loop" THEN {Do("use", "-") \o Frame} ELSE {})
                    \cup (IF input = "svo"
                          THEN {Do("stop", "-") \o Farewell,
                                Do("stop", "-") \o Do("use", "-") \o Do("report", "-") \o Frame}
                          ELSE {}) :
       Continue(G, after)

\* handleSvoRecordingStatus, under _recMutex.
RecordingStatus ==
  At(G, "status") /\ Continue(G, IF "rec" \in running THEN Do("use", "-") ELSE <<>>)

\* handleImageRetrievalAndPublishing: retrieved only for subscribers.
Images == Maybe(G, "images")

\* callback_updateDiagnostic, by the executor or forced by the grab thread: the
\* SDK is asked about a streaming server only.
Report(t) ==
  At(t, "report") /\ Continue(t, IF "stream" \in running THEN Do("use", "-") ELSE <<>>)

End ==
  /\ At(G, "end") /\ ended' = ended \cup {G} /\ Continue(G, <<>>)
  /\ UNCHANGED <<input, sdk, running, wanted, asked, playVars, failures, camera, stop, ok, deinit,
                 calls, exited>>

-----------------------------------------------------------------------------
(* The executor, the sensors thread and the shutdown.                      *)

OneCall ==
  /\ exited = "no" /\ ok /\ todo[X] = <<>> /\ calls < MaxCalls
  /\ \E s \in OneServices :
       /\ todo' = [todo EXCEPT ![X] = s]
       /\ calls' = calls + (IF s = TogglePause THEN 0 ELSE 1)
  /\ UNCHANGED <<input, lock, sdk, running, wanted, asked, playVars, failures, endVars>>

\* setSvoFrame; a frame that the SVO does not have is refused.
OneSeek ==
  /\ At(X, "oneSeek")
  /\ \E valid \in BOOLEAN :
       Continue(X, Do("use", "-") \o (IF valid THEN Do("use", "-") \o Do("oneReplay", "-") ELSE <<>>))

\* A paused SVO shall give one frame and one IMU sample.
OneReplay ==
  /\ At(X, "oneReplay") /\ Continue(X, <<>>)
  /\ once' = (once \/ paused) /\ imuOnce' = (imuOnce \/ paused)
  /\ UNCHANGED <<input, sdk, running, wanted, asked, noDepth, paused, failures, endVars, calls>>

\* Ctrl-C, and the end of threadFunc_pubSensorsData, as in ZedControl.
OneInterrupt == Interrupted(OneDeInit)
SensorsEnd == WorkersEnd

-----------------------------------------------------------------------------
(* Steps that only call a function. *)
OneCalls(t) ==
  /\ \/ Report(t)
     \/ t = G /\ (Fetch \/ OneGrabbed \/ RecordingStatus \/ Images)
     \/ t = X /\ OneSeek
  /\ UNCHANGED <<input, sdk, running, wanted, asked, playVars, failures, endVars, calls>>

Zed(step) == node = "zed" /\ step /\ UNCHANGED node
One(step) == node = "one" /\ step /\ UNCHANGED node

NodeGrabStep ==
  Zed(GrabStep) \/ One(AnyStep(G) \/ OneCalls(G) \/ Begin \/ OneTop \/ Kill \/ End)
NodeServiceStep ==
  \/ Zed(ServiceStep)
  \/ One(AnyStep(X) \/ OneCalls(X) \/ Open \/ Record \/ PauseSvo \/ OneReplay)
NodeShutdownStep ==
  Zed(ShutdownStep) \/ One(AnyStep(S) \/ OneCalls(S) \/ CloseCamera \/ ContextDown)
NodeWorkersEnd == Zed(WorkersEnd) \/ One(SensorsEnd)

NodesInit == (node = "zed" /\ ZedInit) \/ (node = "one" /\ OneInit)
NodesNext ==
  \/ NodeGrabStep \/ NodeServiceStep \/ NodeShutdownStep \/ NodeWorkersEnd
  \/ Zed(Call) \/ Zed(Interrupt) \/ One(OneCall) \/ One(OneInterrupt)
  \/ Zed(Sense) \/ One(Sense)

\* The threads run, and one that waits for a mutex gets it when it is free
\* again and again: the grab thread lets go of mPtMutex in every iteration.
\* Nobody has to call a service or to interrupt the node.
NodesFairSpec ==
  /\ NodesInit /\ [][NodesNext]_nodeVars
  /\ SF_<<todo[G], exited>>(NodeGrabStep)
  /\ SF_<<todo[X], exited>>(NodeServiceStep)
  /\ SF_<<todo[S], exited>>(NodeShutdownStep)
  /\ WF_ended(NodeWorkersEnd)

-----------------------------------------------------------------------------
\* The grab thread of the ZED One clears _threadStop when it begins, also when
\* deInitNode has set it by then: the join then waits for ever.
Overtaken == node = "one" /\ deinit /\ ~stop /\ todo[S] # <<>> /\ Head(todo[S]).op = "join"

\* Node and calls come to rest.  No service call hangs, and an interrupted node
\* closes its camera, unless the interrupt met a ZED One whose grab thread had
\* not begun: mutexes are never taken against each other, and no join waits for a
\* thread that waits for a mutex of the joining one.
CallsReturn ==
  todo[X] # <<>> \/ deinit
    ~> \/ todo[X] = <<>> /\ (deinit => camera = "closed" \/ Overtaken)
       \/ exited # "no"
=============================================================================
