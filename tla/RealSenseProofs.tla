--------------------------- MODULE RealSenseProofs ---------------------------
(* The RealSense wrapper: a camera that neither leaves nor fails is started   *)
(* by one thread only, so that nothing ends the process, and the IMU that is  *)
(* held back never overtakes its frame; for any number of connections,        *)
(* errors and messages and any size of the list.                              *)
EXTENDS RealSense, TLAPS

USE RealSenseAssumption DEF RealSenseAssumption

-----------------------------------------------------------------------------
(* Sequences of numbered messages. *)

LEMMA AppendFacts ==
  ASSUME NEW T, NEW s \in Seq(T), NEW x \in T
  PROVE  /\ Append(s, x) \in Seq(T) /\ Len(s) \in Nat /\ Len(Append(s, x)) = Len(s) + 1
         /\ DOMAIN s = 1..Len(s) /\ DOMAIN Append(s, x) = 1..(Len(s) + 1)
         /\ Append(s, x)[Len(s) + 1] = x
         /\ \A i \in 1..Len(s) : Append(s, x)[i] = s[i]
  OBVIOUS

LEMMA ConcatFacts ==
  ASSUME NEW T, NEW s \in Seq(T), NEW t \in Seq(T)
  PROVE  /\ s \o t \in Seq(T) /\ Len(s) \in Nat /\ Len(t) \in Nat
         /\ DOMAIN s = 1..Len(s) /\ DOMAIN t = 1..Len(t) /\ DOMAIN (s \o t) = 1..(Len(s) + Len(t))
         /\ \A i \in 1..Len(s) : (s \o t)[i] = s[i]
         /\ \A i \in (Len(s) + 1)..(Len(s) + Len(t)) :
              i - Len(s) \in 1..Len(t) /\ (s \o t)[i] = t[i - Len(s)]
  OBVIOUS

LEMMA IncreasingAppend ==
  ASSUME NEW s \in Seq(Nat), NEW x \in Nat, Increasing(s), \A i \in DOMAIN s : s[i] < x
  PROVE  Increasing(Append(s, x))
<1> DEFINE r == Append(s, x)
           n == Len(s)
<1>1. /\ n \in Nat /\ DOMAIN s = 1..n /\ DOMAIN r = 1..(n + 1) /\ r[n + 1] = x
      /\ \A i \in 1..n : r[i] = s[i]
  BY AppendFacts
<1> HIDE DEF r, n
<1>2. ASSUME NEW i \in 1..(n + 1), NEW j \in 1..(n + 1), i < j
      PROVE  r[i] < r[j]
  <2>1. i \in 1..n
    BY <1>1, <1>2
  <2>2. CASE j = n + 1
    BY <1>1, <2>1, <2>2
  <2>3. CASE j \in 1..n
    BY <1>1, <1>2, <2>1, <2>3 DEF Increasing
  <2>4. QED  BY <1>1, <2>2, <2>3
<1>3. Increasing(r)
  BY <1>1, <1>2 DEF Increasing
<1>4. QED  BY <1>3 DEF r

LEMMA IncreasingConcat ==
  ASSUME NEW s \in Seq(Nat), NEW t \in Seq(Nat), Increasing(s), Increasing(t),
         \A i \in DOMAIN s, j \in DOMAIN t : s[i] < t[j]
  PROVE  Increasing(s \o t)
<1> DEFINE r == s \o t
           n == Len(s)
           m == Len(t)
<1>1. /\ n \in Nat /\ m \in Nat /\ DOMAIN s = 1..n /\ DOMAIN t = 1..m /\ DOMAIN r = 1..(n + m)
      /\ \A i \in 1..n : r[i] = s[i]
      /\ \A i \in (n + 1)..(n + m) : i - n \in 1..m /\ r[i] = t[i - n]
  BY ConcatFacts
<1> HIDE DEF r, n, m
<1>2. ASSUME NEW i \in 1..(n + m), NEW j \in 1..(n + m), i < j
      PROVE  r[i] < r[j]
  <2>1. CASE j \in 1..n
    <3>1. i \in 1..n
      BY <1>1, <1>2, <2>1
    <3>2. QED  BY <1>1, <1>2, <2>1, <3>1 DEF Increasing
  <2>2. CASE i \in 1..n /\ j \in (n + 1)..(n + m)
    BY <1>1, <2>2
  <2>3. CASE i \in (n + 1)..(n + m) /\ j \in (n + 1)..(n + m)
    <3>1. i - n < j - n
      BY <1>1, <1>2, <2>3
    <3>2. QED  BY <1>1, <2>3, <3>1 DEF Increasing
  <2>4. QED  BY <1>1, <1>2, <2>1, <2>2, <2>3
<1>3. Increasing(r)
  BY <1>1, <1>2 DEF Increasing
<1>4. QED  BY <1>3 DEF r

-----------------------------------------------------------------------------
(* Types. *)

LEMMA EventGens == ASSUME RsTypeOK PROVE \A i \in DOMAIN events : events[i].gen \in Nat
<1>1. events \in Seq(Events)
  BY DEF RsTypeOK
<1>2. \A i \in DOMAIN events : events[i] \in Events
  BY <1>1
<1>3. \A e \in Events : e.gen \in Nat
  BY DEF Events, MaxGen
<1>4. QED  BY <1>2, <1>3

\* What the watcher is to report is of a connection so far.
LEMMA ReportTyped ==
  ASSUME events \in Seq(Events), NEW top \in 1..MaxGen, \A i \in DOMAIN events : events[i].gen <= top,
         NEW kind \in {"added", "removed"}, NEW g \in 1..top
  PROVE  Report(kind, g) \in Seq(Events) /\ \A i \in DOMAIN Report(kind, g) : Report(kind, g)[i].gen <= top
<1> DEFINE e == [kind |-> kind, gen |-> g]
<1>1. e \in Events /\ e.gen <= top
  BY DEF Events, MaxGen
<1> HIDE DEF e
<1>2. CASE Report(kind, g) = events
  BY <1>2
<1>3. CASE Report(kind, g) = Append(events, e)
  BY <1>1, <1>3, AppendFacts
<1>4. QED  BY <1>2, <1>3 DEF Report, e

LEMMA InitInv == RsInit => RsInv
<1> SUFFICES ASSUME RsInit PROVE RsInv
  OBVIOUS
<1> USE DEF RsInit
<1>1. resetFirst \in BOOLEAN /\ plugged \in BOOLEAN
  OBVIOUS
<1>2. RsTypeOK
  <2>1. /\ gen \in 1..MaxGen /\ made \in [Starters -> 0..gen] /\ DOMAIN at = Starters
        /\ unplugs \in 0..MaxUnplugs /\ failures \in 0..MaxFailures
    BY DEF Starters, MaxGen
  <2>2. at["query"] = "check" /\ at["watcher"] = "idle"
    BY DEF Starters
  <2>3. events \in Seq(Events) /\ DOMAIN events = {} /\ pending \in Seq(Nat) /\ Len(pending) = 0
    OBVIOUS
  <2>4. frame \in [Video -> 0..messages] /\ sent \in [Video -> BOOLEAN]
    OBVIOUS
  <2>5. {device, node, started} \subseteq 0..gen /\ messages \in Nat /\ published \in Seq(Nat)
    BY <2>1
  <2>6. registered \in BOOLEAN /\ exited \in BOOLEAN /\ leaked \in BOOLEAN /\ paused \in BOOLEAN
    BY Zenon
  <2>7. imu = "idle"
    OBVIOUS
  <2> HIDE DEF RsInit
  <2>8. QED  BY <1>1, <2>1, <2>2, <2>3, <2>4, <2>5, <2>6, <2>7 DEF RsTypeOK
<1>3. StartIsSafe /\ Connected
  BY <1>1 DEF StartIsSafe, Connected
<1>4. Undisturbed
  BY DEF Undisturbed, Starters
<1>5. Held
  BY DEF Held, Increasing
<1>6. QED  BY <1>2, <1>3, <1>4, <1>5 DEF RsInv

LEMMA TailTyped ==
  ASSUME RsTypeOK, events # <<>>
  PROVE  /\ Tail(events) \in Seq(Events) /\ \A i \in DOMAIN Tail(events) : Tail(events)[i].gen <= gen
         /\ Head(events).gen \in 1..gen
<1>1. events \in Seq(Events) /\ Len(events) \in Nat \ {0} /\ DOMAIN events = 1..Len(events)
  BY DEF RsTypeOK
<1>2. /\ Tail(events) \in Seq(Events) /\ DOMAIN Tail(events) = 1..(Len(events) - 1)
      /\ \A i \in 1..(Len(events) - 1) : Tail(events)[i] = events[i + 1]
  BY <1>1
<1>3. Head(events) = events[1] /\ 1 \in DOMAIN events /\ events[1] \in Events
  BY <1>1
<1>4. Head(events).gen \in 1..gen
  <2>1. events[1].gen \in 1..MaxGen /\ events[1].gen <= gen /\ gen \in 1..MaxGen
    BY <1>3 DEF RsTypeOK, Events
  <2>2. QED  BY <1>3, <2>1 DEF MaxGen
<1>5. \A i \in 1..(Len(events) - 1) : events[i + 1].gen <= gen
  BY <1>1, SMTT(60) DEF RsTypeOK
<1>6. QED  BY <1>2, <1>4, <1>5

\* The list that getDevice leaves, and the device.
LEMMA GetDeviceTyped ==
  ASSUME RsTypeOK, NEW found \in 0..gen, NEW rest \in Seq(Events),
         \A i \in DOMAIN rest : rest[i].gen <= gen, GetDevice(found, rest)
  PROVE  /\ events' \in Seq(Events) /\ \A i \in DOMAIN events' : events'[i].gen <= gen
         /\ device' \in 0..gen /\ resetFirst' \in BOOLEAN /\ plugged' \in BOOLEAN
<1> DEFINE e == [kind |-> "removed", gen |-> gen]
<1>1. e \in Events /\ e.gen <= gen
  BY DEF Events, RsTypeOK
<1>2. events' = rest \/ events' = Append(rest, e)
  BY DEF GetDevice
<1> HIDE DEF e
<1>3. events' \in Seq(Events) /\ \A i \in DOMAIN events' : events'[i].gen <= gen
  <2>1. CASE events' = rest
    BY <2>1
  <2>2. CASE events' = Append(rest, e)
    BY <1>1, <2>2, AppendFacts
  <2>3. QED  BY <1>2, <2>1, <2>2
<1>4. device' \in 0..gen
  BY DEF GetDevice, RsTypeOK
<1>5. resetFirst' \in BOOLEAN /\ plugged' \in BOOLEAN
  BY DEF GetDevice
<1>6. QED  BY <1>3, <1>4, <1>5

\* clean, whatever it is called with.
LEMMA CleanTyped ==
  ASSUME RsTypeOK, NEW g, Clean(g)
  PROVE  /\ started' \in 0..gen /\ imu' = imu /\ messages' = messages /\ frame' = frame /\ sent' = sent
         /\ leaked' = leaked /\ paused' \in BOOLEAN
         /\ pending' \in Seq(Nat) /\ Len(pending') <= WaitingList /\ published' \in Seq(Nat)
<1>1. CASE UNCHANGED streamVars
  BY <1>1 DEF streamVars, RsTypeOK
<1>2. CASE ~UNCHANGED streamVars
  <2>1. published' = published \o pending
    BY <1>2 DEF Clean
  <2>2. published' \in Seq(Nat)
    BY <2>1, ConcatFacts DEF RsTypeOK
  <2>3. /\ started' = 0 /\ paused' = FALSE /\ pending' = <<>>
        /\ UNCHANGED <<imu, frame, sent, leaked, messages>>
    BY <1>2 DEF Clean
  <2>4. pending' \in Seq(Nat) /\ Len(pending') <= WaitingList
    BY <2>3 DEF RsTypeOK
  <2>5. started' \in 0..gen
    BY <2>3 DEF RsTypeOK
  <2>6. paused' \in BOOLEAN
    BY <2>3, Zenon
  <2>7. QED  BY <2>2, <2>3, <2>4, <2>5, <2>6
<1>3. QED  BY <1>1, <1>2

\* The actions that leave the host and the usb alone.
StreamStep ==
  ImuArrives \/ ImuPublishes \/ Toggle \/ \E v \in Video : Pause(v) \/ PublishFrame(v) \/ Resume(v)

LEMMA UsbKeepsTypes ==
  ASSUME RsTypeOK, Connected, Unplug \/ Plug
  PROVE  RsTypeOK' /\ Connected'
<1>1. /\ UNCHANGED hostVars /\ UNCHANGED streamVars /\ gen \in 1..MaxGen
  BY DEF Unplug, Plug, RsTypeOK
<1>2. /\ plugged' \in BOOLEAN /\ unplugs' \in 0..MaxUnplugs /\ gen' \in {gen, gen + 1}
      /\ Connected' /\ gen' \in 1..MaxGen
  <2>1. gen \in 1..MaxGen /\ unplugs \in 0..MaxUnplugs /\ failures \in 0..MaxFailures
    BY DEF RsTypeOK
  <2>2. failures' = failures /\ resetFirst' = resetFirst
    BY <1>1 DEF hostVars
  <2>3. CASE Unplug
    <3>1. plugged = TRUE /\ plugged' = FALSE /\ gen' = gen /\ unplugs' = unplugs + 1 /\ unplugs < MaxUnplugs
      BY <2>3 DEF Unplug, Leave, RsTypeOK
    <3>2. Connected'
      BY <2>1, <2>2, <3>1 DEF Connected
    <3>3. unplugs' \in 0..MaxUnplugs /\ gen' \in 1..MaxGen
      BY <2>1, <3>1
    <3>4. plugged' \in BOOLEAN
      BY <3>1, Zenon
    <3>5. QED  BY <3>1, <3>2, <3>3, <3>4
  <2>4. CASE Plug
    <3>1. plugged = FALSE /\ plugged' = TRUE /\ gen' = gen + 1 /\ unplugs' = unplugs
      BY <2>4 DEF Plug, RsTypeOK
    <3>2. Connected' /\ gen + 1 \in 1..MaxGen
      BY <2>1, <2>2, <3>1 DEF Connected, MaxGen
    <3>3. QED  BY <2>1, <3>1, <3>2
  <2>5. QED  BY <2>3, <2>4
<1>3. events' \in Seq(Events) /\ \A i \in DOMAIN events' : events'[i].gen <= gen'
  <2>1. events \in Seq(Events) /\ \A i \in DOMAIN events : events[i].gen <= gen'
    <3>1. \A i \in DOMAIN events : events[i].gen \in Nat /\ events[i].gen <= gen
      BY EventGens DEF RsTypeOK
    <3>2. gen <= gen' /\ gen \in Nat /\ gen' \in Nat
      BY <1>1, <1>2
    <3>3. \A i \in DOMAIN events : events[i].gen <= gen'
      BY <3>1, <3>2
    <3>4. QED  BY <3>3 DEF RsTypeOK
  <2>2. CASE Unplug
    <3>1. events' = Report("removed", gen) /\ gen' = gen /\ gen \in 1..gen
      BY <1>1, <2>2 DEF Unplug, Leave
    <3>2. QED  BY <1>1, <2>1, <3>1, ReportTyped
  <2>3. CASE Plug
    <3>1. events' = Report("added", gen') /\ gen' \in 1..gen'
      BY <1>1, <1>2, <2>3 DEF Plug
    <3>2. QED  BY <1>2, <2>1, <3>1, ReportTyped
  <2>4. QED  BY <2>2, <2>3
<1>4. {device, node, started} \subseteq 0..gen' /\ made \in [Starters -> 0..gen']
  <2>1. 0..gen \subseteq 0..gen'
    BY <1>1, <1>2
  <2>2. QED  BY <2>1 DEF RsTypeOK
<1>5. RsTypeOK'
  <2>1. UNCHANGED <<registered, resetFirst, exited, leaked, paused, at, failures, imu, messages, frame,
                    sent, pending, published>>
    BY <1>1 DEF hostVars, streamVars
  <2>2. /\ device' = device /\ node' = node /\ started' = started /\ made' = made
    BY <1>1 DEF hostVars, streamVars
  <2>3. QED  BY <1>2, <1>3, <1>4, <2>1, <2>2, SMTT(60) DEF RsTypeOK
<1>6. QED  BY <1>2, <1>5

LEMMA StreamKeepsTypes ==
  ASSUME RsTypeOK, StreamStep
  PROVE  RsTypeOK'
<1>1. UNCHANGED usbVars /\ UNCHANGED hostVars
  BY DEF StreamStep, ImuArrives, ImuPublishes, Toggle, Pause, PublishFrame, Publish, Resume
<1>2. started' \in 0..gen /\ imu' \in {"idle", "locked", "blocked"}
  <2>1. started' \in {started, 0, gen} /\ imu' \in {imu, "idle", "locked", "blocked"}
    BY DEF StreamStep, ImuArrives, ImuPublishes, Toggle, Pause, PublishFrame, Publish, Resume
  <2>2. {started, 0, gen} \subseteq 0..gen
    BY SMTT(60) DEF RsTypeOK
  <2>3. QED  BY <2>1, <2>2 DEF RsTypeOK
<1>3. messages' \in Nat /\ frame' \in [Video -> 0..messages']
  <2>1. messages' \in {messages, messages + 1} /\ messages \in Nat
    BY DEF StreamStep, ImuArrives, ImuPublishes, Toggle, Pause, PublishFrame, Publish, Resume, RsTypeOK, Number, Count
  <2>2. 0..messages \subseteq 0..messages' /\ messages' \in Nat
    BY <2>1
  <2>3. frame \in [Video -> 0..messages']
    BY <2>2 DEF RsTypeOK
  <2>4. \/ frame' = frame
        \/ \E v \in Video : frame' = [frame EXCEPT ![v] = 0]
        \/ messages' = Number /\ \E v \in Video : frame' = [frame EXCEPT ![v] = Number]
    BY DEF StreamStep, ImuArrives, ImuPublishes, Toggle, Pause, PublishFrame, Publish, Resume, Count
  <2>5. CASE \E v \in Video : frame' = [frame EXCEPT ![v] = 0]
    BY <2>2, <2>3, <2>5
  <2>6. CASE messages' = Number /\ \E v \in Video : frame' = [frame EXCEPT ![v] = Number]
    BY <2>2, <2>3, <2>6
  <2>7. QED  BY <2>2, <2>3, <2>4, <2>5, <2>6
<1>4. sent' \in [Video -> BOOLEAN]
  <2>1. \/ sent' = sent
        \/ \E v \in Video, b \in BOOLEAN : sent' = [sent EXCEPT ![v] = b]
    BY DEF StreamStep, ImuArrives, ImuPublishes, Toggle, Pause, PublishFrame, Publish, Resume
  <2>2. QED  BY <2>1, Zenon DEF RsTypeOK
<1>5. leaked' \in BOOLEAN /\ paused' \in BOOLEAN
  BY DEF StreamStep, ImuArrives, ImuPublishes, Toggle, Pause, PublishFrame, Publish, Resume, RsTypeOK
<1>6. published' \in Seq(Nat)
  <2>1. \/ published' = published
        \/ published' = Append(published, Number)
        \/ \E v \in Video : published' = Append(published, frame[v])
        \/ published' = published \o pending
    BY DEF StreamStep, ImuArrives, ImuPublishes, Toggle, Pause, PublishFrame, Publish, Resume
  <2>2. Number \in Nat /\ \A v \in Video : frame[v] \in Nat
    BY DEF RsTypeOK, Number
  <2>3. published \in Seq(Nat) /\ pending \in Seq(Nat)
    BY DEF RsTypeOK
  <2>4. \A x \in Nat : Append(published, x) \in Seq(Nat)
    BY <2>3, AppendFacts
  <2>5. published \o pending \in Seq(Nat)
    BY <2>3, ConcatFacts
  <2>6. QED  BY <2>1, <2>2, <2>3, <2>4, <2>5
<1>7. pending' \in Seq(Nat) /\ Len(pending') <= WaitingList
  <2>1. \/ pending' = pending
        \/ pending' = <<>>
        \/ pending' = Append(pending, Number) /\ Len(pending) < WaitingList
    BY DEF StreamStep, ImuArrives, ImuPublishes, Toggle, Pause, PublishFrame, Publish, Resume
  <2>2. Number \in Nat
    BY SMTT(60) DEF RsTypeOK, Number
  <2>3. CASE pending' = Append(pending, Number) /\ Len(pending) < WaitingList
    BY <2>2, <2>3, AppendFacts, SMTT(60) DEF RsTypeOK
  <2>4. CASE pending' = <<>>
    BY <2>4
  <2>5. QED  BY <2>1, <2>3, <2>4 DEF RsTypeOK
<1>8. QED  BY <1>1, <1>2, <1>3, <1>4, <1>5, <1>6, <1>7, SMTT(60) DEF RsTypeOK, usbVars, hostVars

\* A step of the factory changes neither the connections nor the messages.
HostStep ==
  \/ Check \/ Query \/ Register \/ Removed \/ Added \/ Drop
  \/ \E p \in Starters : ResetNode(p) \/ Built(p) \/ Assign(p) \/ BackendError(p) \/ OtherError(p)

LEMMA HostKeepsThreads ==
  ASSUME RsTypeOK, HostStep
  PROVE  /\ at'["query"] \in {"check", "query", "register", "start", "build", "assign", "done"}
         /\ at'["watcher"] \in {"idle", "drop", "start", "build", "assign"} /\ DOMAIN at' = Starters
<1> USE DEF RsTypeOK, Starters, Go
<1>1. CASE Check  BY <1>1 DEF Check
<1>2. CASE Query  BY <1>2 DEF Query
<1>3. CASE Register  BY <1>3 DEF Register
<1>4. CASE Removed  BY <1>4 DEF Removed
<1>5. CASE Added  BY <1>5, SMTT(60) DEF Added
<1>6. CASE Drop  BY <1>6 DEF Drop
<1>7. ASSUME NEW p \in Starters,
             ResetNode(p) \/ Built(p) \/ Assign(p) \/ BackendError(p) \/ OtherError(p)
      PROVE  /\ at'["query"] \in {"check", "query", "register", "start", "build", "assign", "done"}
             /\ at'["watcher"] \in {"idle", "drop", "start", "build", "assign"} /\ DOMAIN at' = Starters
  <2>1. \/ at' = at
        \/ at' = [at EXCEPT ![p] = "build"] \/ at' = [at EXCEPT ![p] = "assign"]
        \/ at' = [at EXCEPT ![p] = IF p = "query" THEN "check" ELSE "idle"]
    BY <1>7 DEF ResetNode, Built, Assign, BackendError, OtherError
  <2>2. QED  BY <2>1
<1>8. QED  BY <1>1, <1>2, <1>3, <1>4, <1>5, <1>6, <1>7 DEF HostStep

LEMMA HostKeepsUsb ==
  ASSUME RsTypeOK, Connected, HostStep
  PROVE  /\ gen' = gen /\ unplugs' = unplugs /\ failures' \in 0..MaxFailures /\ Connected'
         /\ plugged' \in BOOLEAN /\ resetFirst' \in BOOLEAN /\ registered' \in BOOLEAN /\ exited' \in BOOLEAN
         /\ events' \in Seq(Events) /\ \A i \in DOMAIN events' : events'[i].gen <= gen
         /\ device' \in 0..gen
<1>1. gen' = gen /\ unplugs' = unplugs
  BY DEF HostStep, Check, Query, Register, Removed, Added, Drop, ResetNode, Built, Assign, BackendError,
     OtherError, usbVars
<1>2. registered' \in BOOLEAN /\ exited' \in BOOLEAN
  BY DEF RsTypeOK, HostStep, Check, Query, Register, Removed, Added, Drop, ResetNode, Built, Assign,
     BackendError, OtherError
<1>3. CASE \E found \in 0..gen, rest \in Seq(Events) :
                (\A i \in DOMAIN rest : rest[i].gen <= gen) /\ GetDevice(found, rest) /\ failures' = failures
  <2>1. PICK found \in 0..gen, rest \in Seq(Events) :
          (\A i \in DOMAIN rest : rest[i].gen <= gen) /\ GetDevice(found, rest) /\ failures' = failures
    BY <1>3
  <2>2. /\ events' \in Seq(Events) /\ \A i \in DOMAIN events' : events'[i].gen <= gen
        /\ device' \in 0..gen /\ resetFirst' \in BOOLEAN /\ plugged' \in BOOLEAN
    BY <2>1, GetDeviceTyped
  <2>3. \/ plugged' = plugged /\ (resetFirst' => resetFirst)
        \/ plugged /\ ~plugged' /\ resetFirst /\ ~resetFirst'
    BY <2>1 DEF GetDevice, RsTypeOK
  <2>4. gen \in Nat /\ unplugs \in Nat /\ failures \in Nat
    BY DEF RsTypeOK
  <2>5. Connected'
    BY <1>1, <2>1, <2>3, <2>4 DEF Connected
  <2>6. failures' \in 0..MaxFailures
    BY <2>1 DEF RsTypeOK
  <2>7. QED  BY <1>1, <1>2, <2>2, <2>5, <2>6
<1>4. CASE /\ UNCHANGED <<plugged, failures, resetFirst>> /\ device' \in {device, 0}
           /\ events' \in {events, Tail(events)} /\ (events' # events => events # <<>>)
  <2>1. events' \in Seq(Events) /\ \A i \in DOMAIN events' : events'[i].gen <= gen
    BY <1>4, TailTyped DEF RsTypeOK
  <2>2. device' \in 0..gen /\ Connected'
    BY <1>1, <1>4, SMTT(60) DEF RsTypeOK, Connected
  <2>3. QED  BY <1>1, <1>2, <1>4, <2>1, <2>2 DEF RsTypeOK
<1>5. CASE Query
  <2>1. GetDevice(IF plugged THEN gen ELSE 0, events) /\ failures' = failures
    BY <1>5 DEF Query
  <2>2. (IF plugged THEN gen ELSE 0) \in 0..gen
    BY DEF RsTypeOK
  <2>3. events \in Seq(Events) /\ \A i \in DOMAIN events : events[i].gen <= gen
    BY DEF RsTypeOK
  <2>4. QED  BY <1>3, <2>1, <2>2, <2>3
<1>6. CASE Added
  <2>1. events # <<>> /\ failures' = failures
    BY <1>6 DEF Added
  <2>2. CASE device # 0
    BY <1>4, <1>6, <2>1, <2>2 DEF Added
  <2>3. CASE device = 0
    <3>1. GetDevice(Head(events).gen, Tail(events))
      BY <1>6, <2>3 DEF Added
    <3>2. Head(events).gen \in 0..gen
      BY <2>1, TailTyped, SMTT(60) DEF RsTypeOK
    <3>3. QED  BY <1>3, <2>1, <3>1, <3>2, TailTyped
  <2>4. QED  BY <2>2, <2>3
<1>7. CASE \E p \in Starters : BackendError(p)
  <2>1. /\ plugged = TRUE /\ plugged' = FALSE /\ events' = Report("removed", gen) /\ device' = 0
        /\ failures' = failures + 1 /\ failures < MaxFailures /\ resetFirst' = resetFirst
    BY <1>7 DEF BackendError, Leave, RsTypeOK
  <2>2. events \in Seq(Events) /\ gen \in 1..MaxGen /\ \A i \in DOMAIN events : events[i].gen <= gen
    BY DEF RsTypeOK
  <2>3. gen \in 1..gen
    BY <2>2
  <2>4. events' \in Seq(Events) /\ \A i \in DOMAIN events' : events'[i].gen <= gen
    BY <2>1, <2>2, <2>3, ReportTyped
  <2>5. failures' \in 0..MaxFailures
    BY <2>1 DEF RsTypeOK
  <2>6. Connected'
    <3>1. gen \in Nat /\ unplugs \in Nat /\ failures \in Nat
      BY DEF RsTypeOK
    <3>2. QED  BY <1>1, <2>1, <3>1 DEF Connected
  <2>7. plugged' \in BOOLEAN
    BY <2>1, Zenon
  <2>8. device' \in 0..gen
    BY <2>1, <2>2
  <2>9. resetFirst' \in BOOLEAN
    BY <2>1 DEF RsTypeOK
  <2>10. QED  BY <1>1, <1>2, <2>4, <2>5, <2>6, <2>7, <2>8, <2>9
<1>8. CASE Check \/ Register \/ Removed \/ Drop
  BY <1>4, <1>8 DEF Check, Register, Removed, Drop, usbVars
<1>9. CASE \E p \in Starters : ResetNode(p) \/ Built(p) \/ Assign(p) \/ OtherError(p)
  BY <1>4, <1>9 DEF ResetNode, Built, Assign, OtherError, usbVars
<1>10. QED  BY <1>5, <1>6, <1>7, <1>8, <1>9 DEF HostStep

LEMMA HostKeepsTypes ==
  ASSUME RsTypeOK, Connected, HostStep
  PROVE  RsTypeOK' /\ Connected'
<1>1. node' \in 0..gen /\ made' \in [Starters -> 0..gen]
  <2>1. node \in 0..gen /\ made \in [Starters -> 0..gen] /\ device \in 0..gen /\ 0 \in 0..gen
    BY SMTT(60) DEF RsTypeOK
  <2>2. \/ made' = made
        \/ \E p \in Starters : made' = [made EXCEPT ![p] = device] \/ made' = [made EXCEPT ![p] = 0]
    BY DEF HostStep, Check, Query, Register, Removed, Added, Drop, ResetNode, Built, Assign, BackendError,
       OtherError
  <2>3. node' \in {node, 0} \/ \E p \in Starters : node' = made[p]
    BY DEF HostStep, Check, Query, Register, Removed, Added, Drop, ResetNode, Built, Assign, BackendError,
       OtherError
  <2>4. QED  BY <2>1, <2>2, <2>3
<1>2. /\ started' \in 0..gen /\ imu' = imu /\ messages' = messages /\ frame' = frame /\ sent' = sent
      /\ leaked' = leaked /\ paused' \in BOOLEAN
      /\ pending' \in Seq(Nat) /\ Len(pending') <= WaitingList /\ published' \in Seq(Nat)
  <2>1. CASE UNCHANGED streamVars
    BY <2>1 DEF RsTypeOK, streamVars
  <2>2. CASE \E p \in Starters : Built(p)
    BY <2>2 DEF RsTypeOK, Built
  <2>3. CASE Clean(node)
    BY <2>3, CleanTyped
  <2>4. QED
    BY <2>1, <2>2, <2>3 DEF HostStep, Check, Query, Register, Removed, Added, Drop, ResetNode, Assign,
       BackendError, OtherError
<1>3. RsTypeOK'
  BY <1>1, <1>2, HostKeepsThreads, HostKeepsUsb DEF RsTypeOK
<1>4. QED  BY <1>3, HostKeepsUsb

LEMMA TypesNext ==
  ASSUME RsTypeOK, Connected, [RsNext]_vars
  PROVE  RsTypeOK' /\ Connected'
<1>1. CASE UNCHANGED vars
  BY <1>1, SMTT(60) DEF vars, usbVars, hostVars, streamVars, RsTypeOK, Connected
<1>2. CASE StreamStep
  <2>1. Connected'
    BY <1>2 DEF StreamStep, ImuArrives, ImuPublishes, Toggle, Pause, PublishFrame, Publish, Resume, usbVars, hostVars,
       Connected
  <2>2. QED  BY <1>2, <2>1, StreamKeepsTypes
<1>3. QED
  BY <1>1, <1>2, UsbKeepsTypes, HostKeepsTypes DEF RsNext, Alive, HostStep, StreamStep

-----------------------------------------------------------------------------
(* A camera that nobody unplugs and that does not fail is started once. *)

LEMMA UndisturbedNext ==
  ASSUME RsTypeOK, StartIsSafe, Undisturbed, [RsNext]_vars
  PROVE  StartIsSafe' /\ Undisturbed'
<1>1. unplugs \in Nat /\ failures \in Nat /\ gen \in Nat \ {0} /\ DOMAIN at = Starters /\ DOMAIN made = Starters
  BY SMTT(60) DEF RsTypeOK
<1>2. CASE UNCHANGED vars
  BY <1>2 DEF vars, usbVars, hostVars, StartIsSafe, Undisturbed
<1>3. CASE Unplug \/ \E p \in Starters : BackendError(p)
  <2>1. unplugs' + failures' > 0
    BY <1>1, <1>3 DEF Unplug, BackendError, hostVars, usbVars
  <2>2. QED  BY <1>1, <2>1 DEF StartIsSafe, Undisturbed
<1>4. CASE StreamStep
  BY <1>4 DEF StreamStep, ImuArrives, ImuPublishes, Toggle, Pause, PublishFrame, Publish, Resume, usbVars, hostVars,
     StartIsSafe, Undisturbed
<1>5. CASE RsNext /\ UNCHANGED <<unplugs, failures>> /\ unplugs + failures > 0
  BY <1>5 DEF StartIsSafe, Undisturbed
<1>6. CASE /\ RsNext /\ ~Unplug /\ ~StreamStep /\ (\A p \in Starters : ~BackendError(p))
           /\ UNCHANGED <<unplugs, failures>> /\ unplugs + failures = 0
  <2>1. /\ ~exited /\ events = <<>> /\ at["watcher"] = "idle" /\ made["watcher"] = 0
        /\ device # 0 => device = gen /\ plugged /\ ~resetFirst /\ at["query"] # "query"
        /\ device = 0 => ~registered /\ at["query"] \in {"check", "query"}
        /\ at["query"] = "build" => node = 0
        /\ at["query"] # "assign" => made["query"] = 0
    BY <1>1, <1>6 DEF StartIsSafe, Undisturbed
  <2> USE DEF Go, Starters
  <2>2. CASE Plug
    BY <1>1, <1>6, <2>1, <2>2 DEF Plug, Report, StartIsSafe, Undisturbed, hostVars
  <2>3. CASE Check
    BY <1>1, <1>6, <2>1, <2>3 DEF Check, StartIsSafe, Undisturbed, usbVars
  <2>4. CASE Query
    BY <1>1, <1>6, <2>1, <2>4 DEF Query, GetDevice, StartIsSafe, Undisturbed
  <2>5. CASE Register
    BY <1>1, <1>6, <2>1, <2>5 DEF Register, StartIsSafe, Undisturbed, usbVars
  <2>6. ~(Removed \/ Added \/ Drop)
    BY <2>1 DEF Removed, Added, Drop
  <2>7. ASSUME NEW p \in Starters, ResetNode(p) \/ Built(p) \/ Assign(p)
        PROVE  StartIsSafe' /\ Undisturbed'
    <3>1. p = "query"
      BY <2>1, <2>7 DEF ResetNode, Built, Assign
    <3>2. CASE ResetNode(p)
      BY <1>1, <1>6, <2>1, <3>1, <3>2 DEF ResetNode, StartIsSafe, Undisturbed, usbVars
    <3>3. CASE Built(p)
      BY <1>1, <1>6, <2>1, <3>1, <3>3 DEF Built, StartIsSafe, Undisturbed, usbVars
    <3>4. CASE Assign(p)
      BY <1>1, <1>6, <2>1, <3>1, <3>4 DEF Assign, StartIsSafe, Undisturbed, usbVars
    <3>5. QED  BY <2>7, <3>2, <3>3, <3>4
  <2>8. ~\E p \in Starters : OtherError(p)
    <3> SUFFICES ASSUME NEW p \in Starters, OtherError(p) PROVE FALSE
      OBVIOUS
    <3>1. at[p] = "build" /\ p = "query"
      BY <2>1 DEF OtherError
    <3>2. device = gen /\ plugged /\ ~Running
      BY <1>1, <2>1, <3>1 DEF Running
    <3>3. QED  BY <3>2 DEF OtherError
  <2>9. QED  BY <1>6, <2>2, <2>3, <2>4, <2>5, <2>6, <2>7, <2>8 DEF RsNext, Alive, StreamStep
<1>7. CASE RsNext /\ ~Unplug /\ \A p \in Starters : ~BackendError(p)
  <2>1. UNCHANGED <<unplugs, failures>>
    BY <1>7 DEF RsNext, Alive, Plug, Check, Query, Register, Removed, Added, Drop, ResetNode, Built, Assign,
       OtherError, ImuArrives, ImuPublishes, Toggle, Pause, PublishFrame, Publish, Resume, usbVars, hostVars
  <2>2. QED  BY <1>1, <1>4, <1>5, <1>6, <1>7, <2>1
<1>8. QED  BY <1>2, <1>3, <1>7

-----------------------------------------------------------------------------
(* The IMU and its frame. *)

\* Nothing is held while no frame is processed, so that clean publishes nothing.
LEMMA CleanKeepsHeld ==
  ASSUME RsTypeOK, Held, NEW g, Clean(g)
  PROVE  Held'
<1>1. CASE UNCHANGED streamVars
  BY <1>1 DEF streamVars, Held, Synced, Increasing
<1>2. CASE Synced /\ ~UNCHANGED streamVars
  <2>1. /\ Quiet /\ paused' = FALSE /\ published' = published \o pending /\ pending' = <<>>
        /\ UNCHANGED <<frame, sent, messages>>
    BY <1>2 DEF Clean
  <2>2. pending = <<>>
    BY <1>2, <2>1 DEF Held, Quiet
  <2>3. published' = published
    BY <2>1, <2>2 DEF RsTypeOK
  <2>4. \A v \in Video : frame[v] = 0
    BY <2>1 DEF Quiet
  <2>5. DOMAIN pending' = {}
    BY <2>1
  <2>6. QED  BY <1>2, <2>1, <2>3, <2>4, <2>5 DEF Held, Synced, Increasing
<1>3. QED  BY <1>1, <1>2 DEF Held, Synced

LEMMA StreamKeepsHeld ==
  ASSUME RsTypeOK, Held, Synced, StreamStep
  PROVE  Held'
<1>1. /\ messages \in Nat /\ published \in Seq(Nat) /\ pending \in Seq(Nat) /\ Number = messages + 1
      /\ frame \in [Video -> 0..messages] /\ sent \in [Video -> BOOLEAN]
      /\ \A i \in DOMAIN published : published[i] \in Nat
      /\ \A j \in DOMAIN pending : pending[j] \in Nat
  <2>1. \A x \in Seq(Nat) : \A i \in DOMAIN x : x[i] \in Nat
    OBVIOUS
  <2>2. QED  BY <2>1 DEF RsTypeOK, Number
<1>2. /\ paused <=> \E v \in Video : frame[v] # 0
      /\ pending # <<>> => paused
      /\ Increasing(published) /\ Increasing(pending)
      /\ \A i \in DOMAIN published :
           /\ published[i] <= messages
           /\ \A j \in DOMAIN pending : published[i] < pending[j]
           /\ \A v \in Video : frame[v] # 0 /\ ~sent[v] => published[i] < frame[v]
      /\ \A j \in DOMAIN pending :
           /\ pending[j] <= messages
           /\ \A v \in Video : frame[v] < pending[j]
  BY DEF Held
<1>3. Hold /\ \A v, w \in Video : v = w
  BY DEF Synced
<1>4. CASE ImuArrives \/ Toggle
  BY <1>4 DEF ImuArrives, Toggle, Held, Synced, Increasing
<1>5. CASE ImuPublishes
  <2>1. messages' = Number /\ UNCHANGED <<frame, sent, paused>>
    BY <1>5 DEF ImuPublishes
  <2>2. \A v \in Video : frame[v] \in Nat /\ frame[v] <= messages
    BY <1>1
  <2>3. CASE published' = Append(published, Number) /\ ~paused /\ pending' = pending
    <3>1. pending = <<>> /\ DOMAIN pending = {} /\ \A v \in Video : frame[v] = 0
      BY <1>2, <2>3
    <3>2. \A i \in DOMAIN published : published[i] < Number
      BY <1>1, <1>2
    <3>3. Increasing(published')
      BY <1>1, <1>2, <2>3, <3>2, IncreasingAppend
    <3>4. \A i \in DOMAIN published' : published'[i] <= Number
      BY <1>1, <2>3, <3>2, AppendFacts
    <3>5. QED  BY <1>2, <2>1, <2>3, <3>1, <3>3, <3>4 DEF Held
  <2>4. CASE pending' = Append(pending, Number) /\ paused /\ published' = published
    <3>1. \A j \in DOMAIN pending : pending[j] < Number
      BY <1>1, <1>2
    <3>2. Increasing(pending')
      BY <1>1, <1>2, <2>4, <3>1, IncreasingAppend
    <3>3. \A j \in DOMAIN pending' : /\ pending'[j] <= Number
                                    /\ \/ j \in DOMAIN pending /\ pending'[j] = pending[j]
                                       \/ pending'[j] = Number
      BY <1>1, <2>4, <3>1, AppendFacts
    <3>4. \A j \in DOMAIN pending', v \in Video : frame[v] < pending'[j]
      <4>1. ASSUME NEW v \in Video PROVE frame[v] < Number
        <5>1. messages \in Nat /\ Number = messages + 1
          BY <1>1
        <5>2. frame[v] \in Nat /\ frame[v] <= messages
          BY <2>2
        <5>3. QED  BY <5>1, <5>2
      <4>2. QED  BY <1>2, <3>3, <4>1
    <3>5. \A i \in DOMAIN published : published[i] <= Number /\ published[i] < Number
      <4>1. messages \in Nat /\ Number = messages + 1
        BY <1>1
      <4>2. ASSUME NEW i \in DOMAIN published PROVE published[i] \in Nat /\ published[i] <= messages
        BY <1>1, <1>2
      <4>3. QED  BY <4>1, <4>2
    <3>6. \A i \in DOMAIN published, j \in DOMAIN pending' : published[i] < pending'[j]
      BY <1>1, <1>2, <3>3, <3>5
    <3>7. QED  BY <1>2, <2>1, <2>4, <3>2, <3>3, <3>4, <3>5, <3>6 DEF Held
  <2>5. CASE UNCHANGED <<published, pending>>
    <3>1. /\ \A i \in DOMAIN published : published[i] <= Number
          /\ \A j \in DOMAIN pending : pending[j] <= Number
      BY <1>1, <1>2, SMTT(60)
    <3>2. QED  BY <1>2, <2>1, <2>5, <3>1 DEF Held
  <2>6. QED  BY <1>5, <2>3, <2>4, <2>5 DEF ImuPublishes
<1>6. ASSUME NEW v \in Video, Pause(v) PROVE Held'
  <2>1. /\ frame[v] = 0 /\ messages' = Number /\ frame' = [frame EXCEPT ![v] = Number] /\ paused'
        /\ sent' = [sent EXCEPT ![v] = FALSE] /\ UNCHANGED <<pending, published>>
    BY <1>3, <1>6 DEF Pause, Count
  <2>2. \A w \in Video : w = v
    BY <1>3
  <2>3. pending = <<>> /\ DOMAIN pending = {}
    BY <1>2, <2>1, <2>2
  <2>4. frame'[v] = Number /\ Number # 0
    BY <1>1, <2>1
  <2>5. \A i \in DOMAIN published : published[i] < Number /\ published[i] <= Number
    BY <1>1, <1>2, SMTT(60)
  <2>6. QED  BY <1>2, <2>1, <2>2, <2>3, <2>4, <2>5 DEF Held
<1>7. ASSUME NEW v \in Video, PublishFrame(v) PROVE Held'
  <2>1. /\ frame[v] # 0 /\ ~sent[v] /\ sent' = [sent EXCEPT ![v] = TRUE]
        /\ published' = Append(published, frame[v]) \/ published' = published
        /\ UNCHANGED <<frame, paused, pending, messages>>
    BY <1>7 DEF PublishFrame, Publish
  <2>2. sent'[v] /\ \A w \in Video : w = v
    BY <1>1, <1>3, <2>1
  <2>3. CASE published' = published
    BY <1>2, <2>1, <2>2, <2>3 DEF Held
  <2>4. CASE published' = Append(published, frame[v])
    <3>1. frame[v] \in Nat /\ frame[v] <= messages
      BY <1>1
    <3>2. Increasing(published')
      BY <1>1, <1>2, <2>1, <2>4, <3>1, IncreasingAppend
    <3>3. \A i \in DOMAIN published' :
            (i \in DOMAIN published /\ published'[i] = published[i]) \/ published'[i] = frame[v]
      BY <1>1, <2>4, <3>1, AppendFacts
    <3>4. \A i \in DOMAIN published' : published'[i] <= messages
                                       /\ \A j \in DOMAIN pending : published'[i] < pending[j]
      BY <1>2, <3>1, <3>3
    <3>5. QED  BY <1>2, <2>1, <2>2, <3>2, <3>4 DEF Held
  <2>5. QED  BY <2>1, <2>3, <2>4
<1>8. ASSUME NEW v \in Video, Resume(v) PROVE Held'
  <2>1. /\ frame' = [frame EXCEPT ![v] = 0] /\ published' = published \o pending /\ pending' = <<>>
        /\ paused' = FALSE /\ UNCHANGED <<sent, messages>>
    BY <1>8 DEF Resume
  <2>2. \A w \in Video : frame'[w] = 0
    BY <1>1, <1>3, <2>1
  <2>3. DOMAIN pending' = {}
    BY <2>1
  <2>4. Increasing(published')
    BY <1>1, <1>2, <2>1, IncreasingConcat
  <2>5. \A i \in DOMAIN published' : \/ i \in DOMAIN published /\ published'[i] = published[i]
                                     \/ \E j \in DOMAIN pending : published'[i] = pending[j]
    <3>1. /\ Len(published) \in Nat /\ Len(pending) \in Nat
          /\ DOMAIN published = 1..Len(published) /\ DOMAIN pending = 1..Len(pending)
          /\ DOMAIN published' = 1..(Len(published) + Len(pending))
          /\ \A i \in 1..Len(published) : published'[i] = published[i]
          /\ \A i \in (Len(published) + 1)..(Len(published) + Len(pending)) :
               i - Len(published) \in 1..Len(pending) /\ published'[i] = pending[i - Len(published)]
      BY <1>1, <2>1, ConcatFacts
    <3>2. QED  BY <3>1, SMTT(60)
  <2>6. \A i \in DOMAIN published' : published'[i] <= messages
    BY <1>2, <2>5
  <2>7. QED  BY <2>1, <2>2, <2>3, <2>4, <2>6 DEF Held, Increasing
<1>9. QED  BY <1>4, <1>5, <1>6, <1>7, <1>8 DEF StreamStep

LEMMA HeldNext ==
  ASSUME RsTypeOK, Held, [RsNext]_vars
  PROVE  Held'
<1>1. CASE UNCHANGED streamVars
  BY <1>1 DEF streamVars, Held, Synced, Increasing
<1>2. CASE StreamStep
  BY <1>2, StreamKeepsHeld DEF Held, Synced
<1>3. CASE \E p \in Starters : Built(p)
  BY <1>3 DEF Built, Held, Synced, Increasing
<1>4. CASE Drop \/ \E p \in Starters : ResetNode(p) \/ Assign(p)
  <2>1. Clean(node)
    BY <1>4 DEF Drop, ResetNode, Assign
  <2>2. QED  BY <2>1, CleanKeepsHeld
<1>5. QED
  BY <1>1, <1>2, <1>3, <1>4 DEF RsNext, Alive, StreamStep, Unplug, Plug, Check, Query, Register, Removed, Added,
     BackendError, OtherError, vars

-----------------------------------------------------------------------------
(* As long as the camera stays plugged in and nothing fails, the process is   *)
(* never ended by two threads that start the same device: with the initial    *)
(* reset or without, and whenever the camera comes.                           *)
THEOREM RsInvariant == RsSpec => []RsInv
<1>1. RsInv /\ [RsNext]_vars => RsInv'
  BY TypesNext, UndisturbedNext, HeldNext DEF RsInv
<1>2. QED  BY InitInv, <1>1, PTL DEF RsSpec

(* With the IMU held back and the sensors synchronised, messages are          *)
(* published in the order they came in, however many the camera sends, when a *)
(* frame is dropped and when the node is replaced meanwhile.                  *)
THEOREM RsOrder == RsSpec => []OrderKept
<1>1. RsInv => OrderKept
  BY DEF RsInv, Held, OrderKept
<1>2. QED  BY <1>1, RsInvariant, PTL
=============================================================================
