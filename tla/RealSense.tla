----------------------------- MODULE RealSense -----------------------------
(***************************************************************************)
(* The RealSense wrapper: the query thread of RealSenseNodeFactory and the *)
(* device watcher of librealsense both find the camera and start a         *)
(* BaseRealSenseNode on it; the callbacks of that node publish frames and  *)
(* IMU messages, the IMU held back while a frame is processed.             *)
(*                                                                         *)
(* A connection of the camera is a generation: each time it comes back it  *)
(* is a new device.  Two threads that start the node at once open the same *)
(* device twice, which fails.  Frames and IMU messages are numbered in the *)
(* order in which Pause and SyncedImuPublisher::Publish are entered.       *)
(***************************************************************************)
EXTENDS Integers, Sequences

CONSTANTS
  Video,        \* the sensors that call frame_callback on a thread of their own
  Hold,         \* hold_back_imu_for_frames
  MayReset,     \* the values of initial_reset
  WaitingList,  \* the size of the list of held IMU messages (1000)
  MaxUnplugs,   \* bound on the times the camera is unplugged
  MaxFailures,  \* bound on the backend errors while a node is built
  MaxMessages   \* bound on frames and IMU messages

ASSUME RealSenseAssumption ==
  /\ Hold \in BOOLEAN /\ MayReset \subseteq BOOLEAN
  /\ {WaitingList, MaxUnplugs, MaxFailures, MaxMessages} \subseteq Nat

Starters == {"query", "watcher"}

VARIABLES
  plugged,    \* the camera is connected
  gen,        \* the generation it is, or was last
  unplugs,    \* times it was unplugged
  failures,   \* backend errors so far
  events,     \* removals and arrivals the watcher has not reported yet
  registered, \* set_devices_changed_callback was called
  resetFirst, \* _initial_reset
  device,     \* _device: the generation of the handle, 0 when empty
  node,       \* _realSenseNode: the generation it runs on, 0 for none
  at,         \* where the two threads are
  made,       \* the nodes they have built and not yet assigned
  exited,     \* the process has ended
  started,    \* the generation whose sensors run, 0 for none
  imu,        \* the motion callback: "idle", "locked" or "blocked"
  frame,      \* what each video callback does: 0 idle, else its frame
  sent,       \* it has published its frame
  leaked,     \* m_mutex of imu_callback_sync stays locked
  paused,     \* _pause_mode
  pending,    \* _pending_messages
  messages,   \* frames and IMU messages so far
  published   \* those that have been published

usbVars == <<plugged, gen, unplugs, events>>
hostVars == <<registered, resetFirst, device, node, at, made, failures, exited>>
streamVars == <<started, imu, frame, sent, leaked, paused, pending, messages, published>>
vars == <<usbVars, hostVars, streamVars>>

RsInit ==
  /\ plugged \in BOOLEAN /\ gen = 1
  /\ unplugs = 0 /\ failures = 0 /\ events = <<>>
  /\ registered = FALSE /\ resetFirst \in MayReset
  /\ device = 0 /\ node = 0 /\ exited = FALSE
  /\ at = [p \in Starters |-> IF p = "query" THEN "check" ELSE "idle"]
  /\ made = [p \in Starters |-> 0]
  /\ started = 0 /\ imu = "idle" /\ frame = [v \in Video |-> 0]
  /\ sent = [v \in Video |-> FALSE]
  /\ leaked = FALSE /\ paused = FALSE /\ pending = <<>>
  /\ messages = 0 /\ published = <<>>

----------------------------------------------------------------------------
(* The camera and the watcher's list of devices (librealsense).            *)

\* Mutant: the callback is set before a device is found.
ReportAlways(kind, g) == Append(events, [kind |-> kind, gen |-> g])

Report(kind, g) == IF registered THEN Append(events, [kind |-> kind, gen |-> g]) ELSE events

\* It leaves the bus: unplugged, or reset by hardware_reset.
Leave == plugged' = FALSE /\ events' = Report("removed", gen)

Unplug ==
  /\ plugged /\ unplugs < MaxUnplugs
  /\ Leave /\ unplugs' = unplugs + 1
  /\ UNCHANGED <<gen, hostVars, streamVars>>

Plug ==
  /\ ~plugged
  /\ plugged' = TRUE /\ gen' = gen + 1 /\ events' = Report("added", gen + 1)
  /\ UNCHANGED <<unplugs, hostVars, streamVars>>

----------------------------------------------------------------------------
(* RealSenseNodeFactory.                                                   *)

Go(p, to) == at' = [at EXCEPT ![p] = to]

\* getDevice: rest are the events still to be reported, found is the generation
\* the list holds, 0 for none.  initial_reset resets the first device and
\* forgets it; the reset of one that has gone is an exception, and it stays.
GetDevice(found, rest) ==
  LET chosen == IF device # 0 THEN device ELSE found
      resets == chosen # 0 /\ resetFirst
      gone == resets /\ chosen = gen /\ plugged IN
  /\ resetFirst' = (resetFirst /\ ~resets)
  /\ device' = IF gone THEN 0 ELSE chosen
  /\ plugged' = (plugged /\ ~gone)
  /\ events' = IF gone /\ registered THEN Append(rest, [kind |-> "removed", gen |-> gen]) ELSE rest

\* The query thread looks for the camera while _device is empty.
Check ==
  /\ at["query"] = "check"
  /\ Go("query", IF device = 0 THEN "query" ELSE "done")
  /\ UNCHANGED <<usbVars, registered, resetFirst, device, node, made, failures, exited, streamVars>>

Query ==
  /\ at["query"] = "query"
  /\ GetDevice(IF plugged THEN gen ELSE 0, events)
  /\ Go("query", IF device' = 0 THEN "check" ELSE "register")
  /\ UNCHANGED <<gen, unplugs, registered, node, made, failures, exited, streamVars>>

Register ==
  /\ at["query"] = "register"
  /\ registered' = TRUE /\ Go("query", "start")
  /\ UNCHANGED <<usbVars, resetFirst, device, node, made, failures, exited, streamVars>>

\* changeDeviceCallback: a removal of our device ends the node, an arrival
\* is looked at when there is no device.
Removed ==
  /\ at["watcher"] = "idle" /\ events # <<>> /\ Head(events).kind = "removed"
  /\ events' = Tail(events)
  /\ Go("watcher", IF device = Head(events).gen THEN "drop" ELSE "idle")
  /\ UNCHANGED <<plugged, gen, unplugs, registered, resetFirst, device, node, made,
                 failures, exited, streamVars>>

Added ==
  /\ at["watcher"] = "idle" /\ events # <<>> /\ Head(events).kind = "added"
  /\ IF device # 0
       THEN events' = Tail(events) /\ UNCHANGED <<plugged, device, resetFirst, at>>
       ELSE /\ GetDevice(Head(events).gen, Tail(events))
            /\ Go("watcher", IF device' = 0 THEN "idle" ELSE "start")
  /\ UNCHANGED <<gen, unplugs, registered, node, made, failures, exited, streamVars>>

\* clean: the sensors are stopped once their callbacks have returned, and what
\* is held is published.
Quiet == imu = "idle" /\ \A v \in Video : frame[v] = 0
Running == (node # 0 /\ node = gen) \/ \E p \in Starters : made[p] = gen
Clean(g) ==
  IF g = started /\ g # 0
    THEN /\ Quiet /\ started' = 0 /\ paused' = FALSE
         /\ published' = published \o pending /\ pending' = <<>>
         /\ UNCHANGED <<imu, frame, sent, leaked, messages>>
    ELSE UNCHANGED streamVars

\* Mutant: the handle of the device that has gone is kept.
DropKeepsDevice ==
  /\ at["watcher"] = "drop"
  /\ Clean(node)
  /\ node' = 0 /\ Go("watcher", "idle")
  /\ UNCHANGED <<usbVars, registered, resetFirst, device, made, failures, exited>>

Drop ==
  /\ at["watcher"] = "drop"
  /\ Clean(node)
  /\ node' = 0 /\ device' = 0 /\ Go("watcher", "idle")
  /\ UNCHANGED <<usbVars, registered, resetFirst, made, failures, exited>>

\* startDevice: the old node goes, then a new one is built.
ResetNode(p) ==
  /\ at[p] = "start"
  /\ Clean(node)
  /\ node' = 0 /\ Go(p, "build")
  /\ UNCHANGED <<usbVars, registered, resetFirst, device, made, failures, exited>>

\* The callbacks of a camera that has gone return before another one is built
\* upon, unless they wait for m_mutex.
Built(p) ==
  /\ at[p] = "build" /\ device # 0 /\ plugged /\ device = gen /\ ~Running
  /\ Quiet \/ leaked
  /\ made' = [made EXCEPT ![p] = device] /\ Go(p, "assign")
  /\ started' = device
  /\ UNCHANGED <<usbVars, registered, resetFirst, device, node, failures, exited,
                 imu, frame, sent, leaked, paused, pending, messages, published>>

Assign(p) ==
  /\ at[p] = "assign"
  /\ Clean(node)
  /\ node' = made[p] /\ made' = [made EXCEPT ![p] = 0]
  /\ Go(p, IF p = "query" THEN "check" ELSE "idle")
  /\ UNCHANGED <<usbVars, registered, resetFirst, device, failures, exited>>

\* A backend_error resets the device and forgets it.
BackendError(p) ==
  /\ at[p] = "build" /\ device = gen /\ plugged /\ failures < MaxFailures
  /\ failures' = failures + 1
  /\ Leave /\ device' = 0
  /\ Go(p, IF p = "query" THEN "check" ELSE "idle")
  /\ UNCHANGED <<gen, unplugs, registered, resetFirst, node, made, exited, streamVars>>

\* Any other exception leaves startDevice, as when the device has gone or the
\* other thread has opened it.  It ends the query thread and the process, the
\* watcher of librealsense may survive it.
OtherError(p) ==
  /\ at[p] = "build" /\ (device # gen \/ ~plugged \/ Running)
  /\ \/ exited' = TRUE /\ UNCHANGED at
     \/ p = "watcher" /\ Go(p, "idle") /\ UNCHANGED exited
  /\ UNCHANGED <<usbVars, registered, resetFirst, device, node, made, failures, streamVars>>

----------------------------------------------------------------------------
(* The callbacks of the node.                                              *)

Streaming == started = gen /\ plugged

Number == messages + 1
Count == messages < MaxMessages /\ messages' = Number

\* imu_callback_sync takes m_mutex by hand.
ImuArrives ==
  /\ Streaming /\ imu = "idle" /\ messages < MaxMessages
  /\ imu' = IF leaked THEN "blocked" ELSE "locked"
  /\ UNCHANGED <<usbVars, hostVars, started, frame, sent, leaked, paused, pending, messages,
                 published>>

\* SyncedImuPublisher::Publish throws when its list is full, past m_mutex.unlock.
ImuPublishes ==
  /\ imu = "locked" /\ imu' = "idle"
  /\ messages' = Number
  /\ \/ /\ ~paused
        /\ published' = Append(published, Number) /\ UNCHANGED <<pending, leaked>>
     \/ /\ paused /\ Len(pending) < WaitingList
        /\ pending' = Append(pending, Number) /\ UNCHANGED <<published, leaked>>
     \/ /\ paused /\ Len(pending) >= WaitingList
        /\ leaked' = TRUE /\ UNCHANGED <<pending, published>>
  /\ UNCHANGED <<usbVars, hostVars, started, frame, sent, paused>>

\* Mutant: _is_enabled was left false.
PauseDisabled(v) ==
  /\ Streaming /\ frame[v] = 0
  /\ Count /\ frame' = [frame EXCEPT ![v] = Number]
  /\ sent' = [sent EXCEPT ![v] = FALSE]
  /\ UNCHANGED <<usbVars, hostVars, started, imu, leaked, paused, pending, published>>

\* frame_callback: Pause, the frame or an error, Resume.
Pause(v) ==
  /\ Streaming /\ frame[v] = 0
  /\ Count /\ frame' = [frame EXCEPT ![v] = Number]
  /\ paused' = (paused \/ Hold) /\ sent' = [sent EXCEPT ![v] = FALSE]
  /\ UNCHANGED <<usbVars, hostVars, started, imu, leaked, pending, published>>

\* Mutant: the error leaves frame_callback past Resume.
PublishFrameThrows(v) ==
  /\ frame[v] # 0 /\ ~sent[v]
  /\ \/ sent' = [sent EXCEPT ![v] = TRUE] /\ published' = Append(published, frame[v])
        /\ UNCHANGED frame
     \/ frame' = [frame EXCEPT ![v] = 0] /\ UNCHANGED <<sent, published>>
  /\ UNCHANGED <<usbVars, hostVars, started, imu, leaked, paused, pending, messages>>

\* publishFrame: image and camera_info, for a stream that has subscribers.
Publish(f) == published' \in {Append(published, f), published}

PublishFrame(v) ==
  /\ frame[v] # 0 /\ ~sent[v]
  /\ sent' = [sent EXCEPT ![v] = TRUE] /\ Publish(frame[v])
  /\ UNCHANGED <<usbVars, hostVars, started, imu, frame, leaked, paused, pending, messages>>

Resume(v) ==
  /\ frame[v] # 0 /\ sent[v]
  /\ frame' = [frame EXCEPT ![v] = 0]
  /\ published' = published \o pending /\ pending' = <<>> /\ paused' = FALSE
  /\ UNCHANGED <<usbVars, hostVars, started, imu, sent, leaked, messages>>

\* toggleSensors, called by the service; an executor waits for the callbacks too.
Toggle ==
  /\ node = gen /\ plugged
  /\ IF started = gen THEN Quiet /\ started' = 0 ELSE started' = gen
  /\ UNCHANGED <<usbVars, hostVars, imu, frame, sent, leaked, paused, pending, messages, published>>

----------------------------------------------------------------------------
(* The process.                                                            *)

Alive(A) == ~exited /\ A

RsNext ==
  \/ Alive(Unplug) \/ Alive(Plug)
  \/ Alive(Check) \/ Alive(Query) \/ Alive(Register) \/ Alive(Removed) \/ Alive(Added) \/ Alive(Drop)
  \/ \E p \in Starters : Alive(ResetNode(p)) \/ Alive(Built(p)) \/ Alive(Assign(p))
                            \/ Alive(BackendError(p)) \/ Alive(OtherError(p))
  \/ Alive(ImuArrives) \/ Alive(ImuPublishes) \/ Alive(Toggle)
  \/ \E v \in Video : Alive(Pause(v)) \/ Alive(PublishFrame(v)) \/ Alive(Resume(v))

\* The threads of the process run on, the camera comes back.
RsSpec ==
  /\ RsInit /\ [][RsNext]_vars
  /\ WF_vars(Alive(Plug))
  /\ WF_vars(Alive(Check \/ Query \/ Register)) /\ WF_vars(Alive(Removed \/ Added \/ Drop))
  /\ \A p \in Starters :
       WF_vars(Alive(ResetNode(p) \/ Built(p) \/ Assign(p) \/ BackendError(p) \/ OtherError(p)))
  /\ WF_vars(Alive(ImuPublishes))
  /\ \A v \in Video : WF_vars(Alive(PublishFrame(v) \/ Resume(v)))

----------------------------------------------------------------------------
(* Properties.                                                             *)

\* Types; a handle, a node and its sensors are of a camera that was connected.
MaxGen == MaxUnplugs + MaxFailures + 3
Events == [kind : {"added", "removed"}, gen : 1..MaxGen]
RsTypeOK ==
  /\ plugged \in BOOLEAN /\ registered \in BOOLEAN /\ resetFirst \in BOOLEAN /\ exited \in BOOLEAN
  /\ leaked \in BOOLEAN /\ paused \in BOOLEAN
  /\ gen \in 1..MaxGen /\ {device, node, started} \subseteq 0..gen /\ made \in [Starters -> 0..gen]
  /\ unplugs \in 0..MaxUnplugs /\ failures \in 0..MaxFailures
  /\ events \in Seq(Events) /\ \A i \in DOMAIN events : events[i].gen <= gen
  /\ at["query"] \in {"check", "query", "register", "start", "build", "assign", "done"}
  /\ at["watcher"] \in {"idle", "drop", "start", "build", "assign"} /\ DOMAIN at = Starters
  /\ imu \in {"idle", "locked", "blocked"}
  /\ messages \in Nat /\ frame \in [Video -> 0..messages] /\ sent \in [Video -> BOOLEAN]
  /\ pending \in Seq(Nat) /\ Len(pending) <= WaitingList /\ published \in Seq(Nat)

\* The camera comes once more than it leaves, if it was not there at first;
\* initial_reset makes it leave once.
Connected ==
  gen + (IF plugged THEN 0 ELSE 1) <= 2 + unplugs + failures + (IF resetFirst THEN 0 ELSE 1)

\* With enable_sync there is one thread of frames.
Synced == Hold /\ \A v, w \in Video : v = w
Increasing(s) == \A i, j \in DOMAIN s : i < j => s[i] < s[j]

\* What has left is older than the frame that is processed, and that is older
\* than what is held back for it.
Held ==
  Synced =>
    /\ paused <=> \E v \in Video : frame[v] # 0
    /\ pending # <<>> => paused
    /\ Increasing(published) /\ Increasing(pending)
    /\ \A i \in DOMAIN published :
         /\ published[i] <= messages
         /\ \A j \in DOMAIN pending : published[i] < pending[j]
         /\ \A v \in Video : frame[v] # 0 /\ ~sent[v] => published[i] < frame[v]
    /\ \A j \in DOMAIN pending :
         /\ pending[j] <= messages
         /\ \A v \in Video : frame[v] < pending[j]

\* README.md:191: with the IMU held back, the order of publication is the order
\* of arrival, of one thread of frames (enable_sync) and the IMU.
OrderKept == Synced => Increasing(published)

\* What was held back leaves, whatever becomes of the frame it waited for.
HeldLeave == (pending # <<>>) ~> (pending = <<>> \/ exited)

\* Starting never ends the process: a camera that stays in, or comes late, or is
\* reset first, is never started by two threads.
StartIsSafe == exited => unplugs + failures > 0

\* It is started by the query thread, and the watcher has nothing to report.
Undisturbed ==
  unplugs + failures = 0 =>
    /\ events = <<>> /\ at["watcher"] = "idle" /\ made["watcher"] = 0
    /\ device # 0 => device = gen /\ plugged /\ ~resetFirst /\ at["query"] # "query"
    /\ device = 0 => ~registered /\ at["query"] \in {"check", "query"}
    /\ at["query"] = "build" => node = 0
    /\ at["query"] # "assign" => made["query"] = 0

RsInv == RsTypeOK /\ StartIsSafe /\ Connected /\ Undisturbed /\ Held

\* When the camera stays, a node ends up on it, unless the process has ended, or a
\* full list has left m_mutex locked and the old node waits for a callback, or
\* the query thread, late, has put the node of the device before in its place.
Overtaken == node \in 1 .. gen - 1 /\ at["query"] = "done"
Recovers == <>[]plugged => <>[](node = gen \/ exited \/ leaked \/ Overtaken)

=============================================================================
