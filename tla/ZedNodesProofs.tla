--------------------------- MODULE ZedNodesProofs ---------------------------
(***************************************************************************)
(* Proofs about the control of the two ZED nodes: no module is switched    *)
(* during a grab, the camera is closed behind the threads, and the flags   *)
(* of the node agree with the SDK.  They rest on the shape of the          *)
(* sequences in `todo`, and on what those lead to.                         *)
(***************************************************************************)
EXTENDS ZedOne, TLAPS

\* The steps that switch, guard or grab, those of the start and of the end, which
\* no function calls, and all others.
Plain == {"enable", "disable", "use"}
Special == {"connect", "launch", "register", "open", "spun", "join", "close"}
Common ==
  {"use", "started", "stopped", "unwanted", "startTracking", "startMapping", "startDetector", "count",
   "tracking", "modules", "top", "stream", "region", "kill", "stop", "down", "save", "diagnose",
   "reset", "roi", "resetRoi", "depth", "mapping", "streaming", "record", "detect", "halt",
   "temperature", "fused", "clicked", "seek", "pause", "reposition", "replay", "configure",
   "begin", "oneTop", "fetch", "grabbed", "status", "images", "report", "end", "oneSeek", "oneReplay"}
Args == {"-", "pt", "grab", "map", "rec", "close", "stream", "obj", "body"} \cup BOOLEAN
StepSet ==
  [op : Common \cup Special \cup {"lock", "unlock", "enable", "disable", "grab", "quit"}, arg : Args]

\* The modules whose switching must not meet a grab, and what guards it.
Safe == Detectors \cup {"pt"}
L == [op |-> "lock", arg |-> "grab"]
U == [op |-> "unlock", arg |-> "grab"]

\* mGrabMutex is held for one call of the SDK, and every call that switches a
\* safe module has it; no lock is the last step; a module that is quit has a
\* mutex of its own.
Nested(s) ==
  /\ s \in Seq(StepSet)
  /\ \A j \in DOMAIN s :
       /\ s[j].op \in {"enable", "disable"} /\ s[j].arg \in Safe => j > 1 /\ s[j - 1] = L
       /\ s[j] = U => j > 2 /\ s[j - 2] = L /\ s[j - 1].op \in Plain
       /\ s[j].op = "lock" => j < Len(s)
       /\ s[j].op = "quit" => s[j].arg # "grab"

\* A grab follows its mutex, or is at the head of what the thread has to do.
Ready(s) ==
  Nested(s) /\ \A j \in DOMAIN s : s[j].op = "grab" => j = 1 \/ (j > 1 /\ s[j - 1] = L)
Good(s) == Nested(s) /\ \A j \in DOMAIN s : s[j].op = "grab" => j > 1 /\ s[j - 1] = L

\* The steps that a function puts in front.
Called(s) == Good(s) /\ \A j \in DOMAIN s : s[j].op \notin Special

-----------------------------------------------------------------------------
(* Sequences of steps that may be called.                                  *)

LEMMA ConcatFacts ==
  ASSUME NEW T, NEW a \in Seq(T), NEW b \in Seq(T)
  PROVE  /\ a \o b \in Seq(T) /\ Len(a \o b) = Len(a) + Len(b)
         /\ Len(a) \in Nat /\ Len(b) \in Nat
         /\ DOMAIN a = 1..Len(a) /\ DOMAIN b = 1..Len(b) /\ DOMAIN (a \o b) = 1..(Len(a) + Len(b))
         /\ \A j \in 1..(Len(a) + Len(b)) :
              (a \o b)[j] = IF j <= Len(a) THEN a[j] ELSE b[j - Len(a)]
  OBVIOUS

LEMMA NestedConcat ==
  ASSUME NEW a, NEW b, Nested(a), Nested(b)
  PROVE  Nested(a \o b)
<1> DEFINE s == a \o b
<1>1. /\ a \in Seq(StepSet) /\ b \in Seq(StepSet)
      /\ s \in Seq(StepSet) /\ Len(s) = Len(a) + Len(b)
      /\ Len(a) \in Nat /\ Len(b) \in Nat
      /\ DOMAIN a = 1..Len(a) /\ DOMAIN b = 1..Len(b) /\ DOMAIN s = 1..(Len(a) + Len(b))
      /\ \A j \in 1..(Len(a) + Len(b)) : s[j] = IF j <= Len(a) THEN a[j] ELSE b[j - Len(a)]
  BY ConcatFacts DEF Nested
<1> HIDE DEF s
<1> SUFFICES ASSUME NEW j \in DOMAIN s
             PROVE  /\ s[j].op \in {"enable", "disable"} /\ s[j].arg \in Safe => j > 1 /\ s[j - 1] = L
                    /\ s[j] = U => j > 2 /\ s[j - 2] = L /\ s[j - 1].op \in Plain
                    /\ s[j].op = "lock" => j < Len(s)
                    /\ s[j].op = "quit" => s[j].arg # "grab"
  BY <1>1 DEF Nested, s
<1>2. CASE j <= Len(a)
  <2>1. j \in DOMAIN a /\ s[j] = a[j] /\ (j > 1 => s[j - 1] = a[j - 1]) /\ (j > 2 => s[j - 2] = a[j - 2])
    BY <1>1, <1>2
  <2>2. QED  BY <1>1, <2>1 DEF Nested
<1>3. CASE j > Len(a)
  <2> DEFINE k == j - Len(a)
  <2>1. k \in DOMAIN b /\ s[j] = b[k] /\ (k > 1 => s[j - 1] = b[k - 1]) /\ (k > 2 => s[j - 2] = b[k - 2])
    BY SMTT(60), <1>1, <1>3
  <2>2. /\ k > 1 => j > 1
        /\ k > 2 => j > 2
        /\ k < Len(b) => j < Len(s)
    BY SMTT(60), <1>1, <1>3
  <2> HIDE DEF k
  <2>3. QED  BY SMTT(60), <1>1, <2>1, <2>2 DEF Nested
<1>4. QED  BY <1>1, <1>2, <1>3

LEMMA GoodConcat ==
  ASSUME NEW a, NEW b, Good(a), Good(b)
  PROVE  Good(a \o b)
<1> DEFINE s == a \o b
<1>1. /\ a \in Seq(StepSet) /\ b \in Seq(StepSet)
      /\ Len(a) \in Nat /\ Len(b) \in Nat
      /\ DOMAIN a = 1..Len(a) /\ DOMAIN b = 1..Len(b) /\ DOMAIN s = 1..(Len(a) + Len(b))
      /\ \A j \in 1..(Len(a) + Len(b)) : s[j] = IF j <= Len(a) THEN a[j] ELSE b[j - Len(a)]
  BY ConcatFacts DEF Good, Nested
<1>2. Nested(s)
  BY NestedConcat DEF Good
<1> HIDE DEF s
<1>3. ASSUME NEW j \in DOMAIN s, s[j].op = "grab" PROVE j > 1 /\ s[j - 1] = L
  <2>1. CASE j <= Len(a)
    BY <1>1, <1>3, <2>1 DEF Good
  <2>2. CASE j > Len(a)
    <3> DEFINE k == j - Len(a)
    <3>1. k \in DOMAIN b /\ s[j] = b[k] /\ (k > 1 => j > 1 /\ s[j - 1] = b[k - 1])
      BY <1>1, <2>2
    <3> HIDE DEF k
    <3>2. QED  BY <1>3, <3>1 DEF Good
  <2>3. QED  BY <1>1, <2>1, <2>2
<1>4. QED  BY <1>2, <1>3 DEF Good, s

LEMMA CalledConcat ==
  ASSUME NEW a, NEW b, Called(a), Called(b)
  PROVE  Called(a \o b)
<1>1. Good(a \o b)
  BY GoodConcat DEF Called
<1>2. a \in Seq(StepSet) /\ b \in Seq(StepSet)
  BY DEF Called, Good, Nested
<1>3. ASSUME NEW j \in DOMAIN (a \o b) PROVE (a \o b)[j].op \notin Special
  <2>1. CASE j <= Len(a)
    BY <1>2, <2>1, ConcatFacts DEF Called
  <2>2. CASE j > Len(a)
    <3>1. j - Len(a) \in DOMAIN b /\ (a \o b)[j] = b[j - Len(a)]
      BY <1>2, <2>2, ConcatFacts
    <3>2. QED  BY <3>1 DEF Called
  <2>3. QED  BY <1>2, <2>1, <2>2, ConcatFacts
<1>4. QED  BY <1>1, <1>3 DEF Called

LEMMA DoFacts ==
  ASSUME NEW op, NEW arg, [op |-> op, arg |-> arg] \in StepSet
  PROVE  /\ Do(op, arg) \in Seq(StepSet) /\ Len(Do(op, arg)) = 1 /\ DOMAIN Do(op, arg) = {1}
         /\ Do(op, arg)[1] = [op |-> op, arg |-> arg]
         /\ Do(op, arg)[1].op = op /\ Do(op, arg)[1].arg = arg
  BY DEF Do

LEMMA CalledEmpty == Called(<<>>)
  BY DEF Called, Good, Nested

LEMMA GoodDo ==
  ASSUME NEW op \in Common \cup Special, NEW arg \in Args
  PROVE  Good(Do(op, arg))
<1> DEFINE s == Do(op, arg)
<1>1. s \in Seq(StepSet) /\ DOMAIN s = {1} /\ s[1].op = op
  <2>1. [op |-> op, arg |-> arg] \in StepSet
    BY DEF StepSet
  <2>2. QED  BY <2>1, DoFacts
<1>2. op \notin {"lock", "unlock", "enable", "disable", "grab", "quit"}
  BY DEF Common, Special
<1> HIDE DEF s
<1>3. Good(s)
  BY <1>1, <1>2 DEF Good, Nested, U
<1>4. QED  BY <1>3 DEF s

LEMMA CalledDo ==
  ASSUME NEW op \in Common, NEW arg \in Args
  PROVE  Called(Do(op, arg))
<1>1. Good(Do(op, arg))
  BY GoodDo
<1>2. DOMAIN Do(op, arg) = {1} /\ Do(op, arg)[1].op = op
  <2>1. [op |-> op, arg |-> arg] \in StepSet
    BY DEF StepSet
  <2>2. QED  BY <2>1, DoFacts
<1>3. op \notin Special
  BY DEF Common, Special
<1>4. QED  BY <1>1, <1>2, <1>3 DEF Called

LEMMA GoodQuit ==
  ASSUME NEW arg \in Args, arg # "grab"
  PROVE  Good(Do("quit", arg))
<1> DEFINE s == Do("quit", arg)
<1>1. s \in Seq(StepSet) /\ DOMAIN s = {1} /\ s[1].op = "quit" /\ s[1].arg = arg
  <2>1. [op |-> "quit", arg |-> arg] \in StepSet
    BY DEF StepSet
  <2>2. QED  BY <2>1, DoFacts
<1> HIDE DEF s
<1>2. Good(s)
  BY <1>1 DEF Good, Nested, U
<1>3. QED  BY <1>2 DEF s

LEMMA CalledQuit ==
  ASSUME NEW arg \in Args, arg # "grab"
  PROVE  Called(Do("quit", arg))
<1>1. Good(Do("quit", arg))
  BY GoodQuit
<1>2. DOMAIN Do("quit", arg) = {1} /\ Do("quit", arg)[1].op = "quit"
  <2>1. [op |-> "quit", arg |-> arg] \in StepSet
    BY DEF StepSet
  <2>2. QED  BY <2>1, DoFacts
<1>3. QED  BY <1>1, <1>2 DEF Called, Special

\* Mapping, streaming and recording are switched without mGrabMutex.
LEMMA CalledSwitch ==
  ASSUME NEW op \in {"enable", "disable"}, NEW arg \in Args, arg \notin Safe
  PROVE  Called(Do(op, arg))
<1> DEFINE s == Do(op, arg)
<1> [op |-> op, arg |-> arg] \in StepSet
  BY DEF StepSet
<1>1. s \in Seq(StepSet) /\ DOMAIN s = {1} /\ s[1].op = op /\ s[1].arg = arg
  BY DoFacts
<1> HIDE DEF s
<1>2. Called(s)
  BY <1>1 DEF Called, Good, Nested, U, Special
<1>3. QED  BY <1>2 DEF s

LEMMA LockedFacts ==
  ASSUME NEW l \in Args, NEW b \in Seq(StepSet)
  PROVE  /\ Locked(l, b) \in Seq(StepSet) /\ Len(Locked(l, b)) = Len(b) + 2
         /\ Len(b) \in Nat /\ DOMAIN b = 1..Len(b) /\ DOMAIN Locked(l, b) = 1..(Len(b) + 2)
         /\ \A j \in 1..(Len(b) + 2) :
              Locked(l, b)[j] = IF j = 1 THEN [op |-> "lock", arg |-> l]
                                ELSE IF j = Len(b) + 2 THEN [op |-> "unlock", arg |-> l]
                                ELSE b[j - 1]
<1> DEFINE x == Do("lock", l)
           y == Do("unlock", l)
<1>1. [op |-> "lock", arg |-> l] \in StepSet /\ [op |-> "unlock", arg |-> l] \in StepSet
  BY DEF StepSet
<1>2. /\ x \in Seq(StepSet) /\ Len(x) = 1 /\ x[1] = [op |-> "lock", arg |-> l]
      /\ y \in Seq(StepSet) /\ Len(y) = 1 /\ y[1] = [op |-> "unlock", arg |-> l]
  BY <1>1, DoFacts
<1>3. Locked(l, b) = x \o b \o y
  BY DEF Locked
<1> HIDE DEF x, y
<1> DEFINE z == x \o b
<1>4. /\ z \in Seq(StepSet) /\ Len(z) = Len(b) + 1 /\ Len(b) \in Nat /\ DOMAIN b = 1..Len(b)
      /\ \A j \in 1..(Len(b) + 1) : z[j] = IF j = 1 THEN x[1] ELSE b[j - 1]
  <2>1. /\ z \in Seq(StepSet) /\ Len(z) = Len(x) + Len(b) /\ Len(b) \in Nat /\ DOMAIN b = 1..Len(b)
        /\ \A j \in 1..(Len(x) + Len(b)) : z[j] = IF j <= Len(x) THEN x[j] ELSE b[j - Len(x)]
    BY <1>2, ConcatFacts
  <2> HIDE DEF z
  <2>2. QED  BY <1>2, <2>1
<1> HIDE DEF z
<1>5. /\ z \o y \in Seq(StepSet) /\ Len(z \o y) = Len(b) + 2 /\ DOMAIN (z \o y) = 1..(Len(b) + 2)
      /\ \A j \in 1..(Len(b) + 2) : (z \o y)[j] = IF j = Len(b) + 2 THEN y[1] ELSE z[j]
  <2> DEFINE s == z \o y
  <2>0. z \in Seq(StepSet) /\ y \in Seq(StepSet)
    BY <1>2, <1>4
  <2>1. /\ s \in Seq(StepSet) /\ Len(s) = Len(z) + Len(y) /\ DOMAIN s = 1..(Len(z) + Len(y))
        /\ \A j \in 1..(Len(z) + Len(y)) : s[j] = IF j <= Len(z) THEN z[j] ELSE y[j - Len(z)]
    BY <2>0, ConcatFacts
  <2> HIDE DEF s
  <2>2. s \in Seq(StepSet) /\ Len(s) = Len(b) + 2 /\ DOMAIN s = 1..(Len(b) + 2)
    BY <1>2, <1>4, <2>1
  <2>3. \A j \in 1..(Len(b) + 2) : s[j] = IF j = Len(b) + 2 THEN y[1] ELSE z[j]
    BY <1>2, <1>4, <2>1
  <2>4. QED  BY <2>2, <2>3 DEF s
<1>6. Locked(l, b) = z \o y
  BY <1>3 DEF z
<1>7. \A j \in 1..(Len(b) + 2) :
         Locked(l, b)[j] = IF j = 1 THEN [op |-> "lock", arg |-> l]
                           ELSE IF j = Len(b) + 2 THEN [op |-> "unlock", arg |-> l]
                           ELSE b[j - 1]
  BY <1>2, <1>4, <1>5, <1>6
<1>8. QED  BY <1>4, <1>5, <1>6, <1>7

\* Another mutex than mGrabMutex around steps that may be called.
LEMMA GoodLocked ==
  ASSUME NEW l \in Args, l # "grab", NEW b, Good(b)
  PROVE  Good(Locked(l, b))
<1> DEFINE s == Locked(l, b)
           n == Len(b)
<1>1. /\ s \in Seq(StepSet) /\ Len(s) = n + 2 /\ n \in Nat /\ DOMAIN b = 1..n /\ DOMAIN s = 1..(n + 2)
      /\ \A j \in 1..(n + 2) : s[j] = IF j = 1 THEN [op |-> "lock", arg |-> l]
                                      ELSE IF j = n + 2 THEN [op |-> "unlock", arg |-> l]
                                      ELSE b[j - 1]
  BY LockedFacts DEF Good, Nested
<1>2. n = Len(b)
  OBVIOUS
<1> HIDE DEF s, n
<1> SUFFICES ASSUME NEW j \in DOMAIN s
             PROVE  /\ s[j].op \in {"enable", "disable"} /\ s[j].arg \in Safe => j > 1 /\ s[j - 1] = L
                    /\ s[j] = U => j > 2 /\ s[j - 2] = L /\ s[j - 1].op \in Plain
                    /\ s[j].op = "lock" => j < Len(s)
                    /\ s[j].op = "quit" => s[j].arg # "grab"
                    /\ s[j].op = "grab" => j > 1 /\ s[j - 1] = L
  BY <1>1 DEF Good, Nested, s
<1>3. CASE j = 1
  <2>1. s[j] = [op |-> "lock", arg |-> l] /\ j < Len(s)
    BY <1>1, <1>3
  <2>2. QED  BY <2>1 DEF U
<1>4. CASE j = n + 2
  <2>1. s[j] = [op |-> "unlock", arg |-> l]
    BY <1>1, <1>4
  <2>2. QED  BY <2>1 DEF U
<1>5. CASE j # 1 /\ j # n + 2
  <2> DEFINE k == j - 1
  <2>1. /\ k \in DOMAIN b /\ s[j] = b[k]
        /\ k > 1 => j > 1 /\ s[j - 1] = b[k - 1]
        /\ k > 2 => j > 2 /\ s[j - 2] = b[k - 2]
        /\ k < Len(b) => j < Len(s)
    BY <1>1, <1>2, <1>5
  <2> HIDE DEF k
  <2>2. k > 2 => s[j - 1] = b[k - 1]
    BY <1>1, <2>1
  <2>3. QED  BY SMTT(60), <1>1, <2>1, <2>2 DEF Good, Nested
<1>6. QED  BY <1>3, <1>4, <1>5

LEMMA CalledLocked ==
  ASSUME NEW l \in Args, l # "grab", NEW b, Called(b)
  PROVE  Called(Locked(l, b))
<1> DEFINE s == Locked(l, b)
           n == Len(b)
<1>1. /\ n \in Nat /\ DOMAIN b = 1..n /\ DOMAIN s = 1..(n + 2)
      /\ \A j \in 1..(n + 2) : s[j] = IF j = 1 THEN [op |-> "lock", arg |-> l]
                                      ELSE IF j = n + 2 THEN [op |-> "unlock", arg |-> l]
                                      ELSE b[j - 1]
  BY LockedFacts DEF Called, Good, Nested
<1>2. Good(s)
  BY GoodLocked DEF Called
<1> HIDE DEF s, n
<1>3. ASSUME NEW j \in DOMAIN s PROVE s[j].op \notin Special
  <2>1. CASE j = 1 \/ j = n + 2
    <3>1. s[j].op \in {"lock", "unlock"}
      BY <1>1, <2>1
    <3>2. QED  BY <3>1 DEF Special
  <2>2. CASE j # 1 /\ j # n + 2
    <3>1. j - 1 \in DOMAIN b /\ s[j] = b[j - 1]
      BY <1>1, <2>2
    <3>2. QED  BY <3>1 DEF Called
  <2>3. QED  BY <2>1, <2>2
<1>4. QED  BY <1>2, <1>3 DEF Called, s

\* One call of the SDK under mGrabMutex.
LEMMA CalledGuarded ==
  ASSUME NEW op \in Plain, NEW arg \in Args
  PROVE  Called(Locked("grab", Do(op, arg)))
<1> DEFINE s == Locked("grab", Do(op, arg))
<1>1. [op |-> op, arg |-> arg] \in StepSet
  BY DEF StepSet, Plain, Common
<1>2. Do(op, arg) \in Seq(StepSet) /\ Len(Do(op, arg)) = 1 /\ Do(op, arg)[1] = [op |-> op, arg |-> arg]
  BY <1>1, DoFacts
<1>3. "grab" \in Args
  BY DEF Args
<1>4. /\ s \in Seq(StepSet) /\ Len(s) = 3 /\ DOMAIN s = 1..3
      /\ s[1] = L /\ s[2] = [op |-> op, arg |-> arg] /\ s[3] = U
  <2> DEFINE b == Do(op, arg)
  <2>1. b \in Seq(StepSet) /\ Len(b) = 1 /\ b[1] = [op |-> op, arg |-> arg]
    BY <1>2
  <2> HIDE DEF b
  <2>2. /\ Locked("grab", b) \in Seq(StepSet) /\ Len(Locked("grab", b)) = 3
        /\ DOMAIN Locked("grab", b) = 1..3
        /\ Locked("grab", b)[1] = L /\ Locked("grab", b)[2] = b[1] /\ Locked("grab", b)[3] = U
    <3> DEFINE c == Locked("grab", b)
    <3>1. /\ c \in Seq(StepSet) /\ Len(c) = Len(b) + 2 /\ DOMAIN c = 1..(Len(b) + 2)
          /\ \A j \in 1..(Len(b) + 2) : c[j] = IF j = 1 THEN [op |-> "lock", arg |-> "grab"]
                                                ELSE IF j = Len(b) + 2 THEN [op |-> "unlock", arg |-> "grab"]
                                                ELSE b[j - 1]
      BY <1>3, <2>1, LockedFacts
    <3> HIDE DEF c
    <3>2. Len(c) = 3 /\ DOMAIN c = 1..3 /\ c[1] = L /\ c[2] = b[1] /\ c[3] = U
      BY <2>1, <3>1 DEF L, U
    <3>3. QED  BY <3>1, <3>2 DEF c
  <2>3. QED  BY <2>1, <2>2 DEF b
<1>5. op \notin {"lock", "unlock", "quit", "grab"} \cup Special
  BY DEF Plain, Special
<1> HIDE DEF s
<1>6. s[1].op = "lock" /\ s[2].op = op /\ s[3].op = "unlock" /\ s[1] # U /\ s[2] # U
  BY <1>4, <1>5 DEF L, U
<1>7. \A j \in DOMAIN s : j = 1 \/ j = 2 \/ j = 3
  BY <1>4
<1>8. Nested(s)
  BY <1>4, <1>5, <1>6, <1>7 DEF Nested, Plain
<1>9. QED  BY <1>5, <1>6, <1>7, <1>8 DEF Called, Good, Special, s

\* mGrabMutex and the grab behind it.
LEMMA CalledPair ==
  ASSUME NEW s \in Seq(StepSet), Len(s) = 2, s[1] = L, s[2] = [op |-> "grab", arg |-> "-"]
  PROVE  Called(s)
<1>1. s[1].op = "lock" /\ s[2].op = "grab" /\ s[1] # U /\ s[2] # U
  BY DEF L, U
<1>2. DOMAIN s = 1..2 /\ \A j \in DOMAIN s : j = 1 \/ j = 2
  OBVIOUS
<1>3. QED  BY <1>1, <1>2 DEF Called, Good, Nested, Special

LEMMA CalledGrab == Called(Do("lock", "grab") \o Do("grab", "-"))
<1>1. [op |-> "lock", arg |-> "grab"] \in StepSet /\ [op |-> "grab", arg |-> "-"] \in StepSet
  BY DEF StepSet, Args
<1>2. ASSUME NEW a \in Seq(StepSet), NEW b \in Seq(StepSet), Len(a) = 1, Len(b) = 1
      PROVE  /\ a \o b \in Seq(StepSet) /\ Len(a \o b) = 2
             /\ (a \o b)[1] = a[1] /\ (a \o b)[2] = b[1]
  <2> DEFINE s == a \o b
  <2>1. /\ s \in Seq(StepSet) /\ Len(s) = Len(a) + Len(b) /\ DOMAIN s = 1..(Len(a) + Len(b))
        /\ \A j \in 1..(Len(a) + Len(b)) : s[j] = IF j <= Len(a) THEN a[j] ELSE b[j - Len(a)]
    BY ConcatFacts
  <2> HIDE DEF s
  <2>2. s \in Seq(StepSet) /\ Len(s) = 2 /\ s[1] = a[1] /\ s[2] = b[1]
    BY <1>2, <2>1
  <2>3. QED  BY <2>2 DEF s
<1>3. /\ Do("lock", "grab") \in Seq(StepSet) /\ Len(Do("lock", "grab")) = 1
      /\ Do("lock", "grab")[1] = L
  BY <1>1, DoFacts DEF L
<1>4. /\ Do("grab", "-") \in Seq(StepSet) /\ Len(Do("grab", "-")) = 1
      /\ Do("grab", "-")[1] = [op |-> "grab", arg |-> "-"]
  BY <1>1, DoFacts
<1>5. QED  BY <1>2, <1>3, <1>4, CalledPair

\* A mutex that is taken and kept, with something behind it.
LEMMA CalledTake ==
  ASSUME NEW l \in Args, NEW b, Called(b), b # <<>>
  PROVE  Called(Do("lock", l) \o b)
<1> DEFINE a == Do("lock", l)
           s == a \o b
           n == Len(b)
<1>1. [op |-> "lock", arg |-> l] \in StepSet
  BY DEF StepSet
<1>2. a \in Seq(StepSet) /\ Len(a) = 1 /\ a[1] = [op |-> "lock", arg |-> l] /\ b \in Seq(StepSet)
  BY <1>1, DoFacts DEF Called, Good, Nested
<1> HIDE DEF a
<1>3. n \in Nat /\ n > 0 /\ DOMAIN b = 1..n
  BY <1>2 DEF Called, Good, Nested
<1>4. /\ s \in Seq(StepSet) /\ Len(s) = n + 1 /\ DOMAIN s = 1..(n + 1)
      /\ \A j \in 1..(n + 1) : s[j] = IF j = 1 THEN [op |-> "lock", arg |-> l] ELSE b[j - 1]
  <2>1. a \in Seq(StepSet) /\ b \in Seq(StepSet)
    BY <1>2
  <2>2. /\ s \in Seq(StepSet) /\ Len(s) = Len(a) + Len(b) /\ DOMAIN s = 1..(Len(a) + Len(b))
        /\ \A j \in 1..(Len(a) + Len(b)) : s[j] = IF j <= Len(a) THEN a[j] ELSE b[j - Len(a)]
    BY <2>1, ConcatFacts
  <2> HIDE DEF s
  <2>3. QED  BY <1>2, <1>3, <2>2
<1>5. n = Len(b)
  OBVIOUS
<1> HIDE DEF s, n
<1> SUFFICES ASSUME NEW j \in DOMAIN s
             PROVE  /\ s[j].op \in {"enable", "disable"} /\ s[j].arg \in Safe => j > 1 /\ s[j - 1] = L
                    /\ s[j] = U => j > 2 /\ s[j - 2] = L /\ s[j - 1].op \in Plain
                    /\ s[j].op = "lock" => j < Len(s)
                    /\ s[j].op = "quit" => s[j].arg # "grab"
                    /\ s[j].op = "grab" => j > 1 /\ s[j - 1] = L
                    /\ s[j].op \notin Special
  BY <1>4 DEF Called, Good, Nested, s, a
<1>6. CASE j = 1
  <2>1. s[j] = [op |-> "lock", arg |-> l] /\ j < Len(s)
    BY <1>3, <1>4, <1>6
  <2>2. QED  BY <2>1 DEF U, Special
<1>7. CASE j # 1
  <2> DEFINE k == j - 1
  <2>1. /\ k \in DOMAIN b /\ s[j] = b[k]
        /\ k > 1 => j > 1 /\ s[j - 1] = b[k - 1]
        /\ k > 2 => j > 2 /\ s[j - 2] = b[k - 2]
        /\ k < Len(b) => j < Len(s)
    BY <1>3, <1>4, <1>5, <1>7
  <2> HIDE DEF k
  <2>2. k > 2 => s[j - 1] = b[k - 1]
    BY <2>1
  <2>3. QED  BY <1>3, <2>1, <2>2 DEF Called, Good, Nested
<1>8. QED  BY <1>6, <1>7

LEMMA CalledUnlock ==
  ASSUME NEW l \in Args, l # "grab"
  PROVE  Called(Do("unlock", l))
<1> DEFINE s == Do("unlock", l)
<1> [op |-> "unlock", arg |-> l] \in StepSet
  BY DEF StepSet
<1>1. s \in Seq(StepSet) /\ DOMAIN s = {1} /\ s[1].op = "unlock" /\ s[1].arg = l
  BY DoFacts
<1> HIDE DEF s
<1>2. Called(s)
  BY <1>1 DEF Called, Good, Nested, U, Special
<1>3. QED  BY <1>2 DEF s

LEMMA ConcatAssoc ==
  ASSUME NEW T, NEW a \in Seq(T), NEW b \in Seq(T), NEW c \in Seq(T)
  PROVE  (a \o b) \o c = a \o (b \o c)
  OBVIOUS

\* An iteration ends with the two mutexes and the grab.
LEMMA CalledIteration == Called(Iteration)
<1> DEFINE x == Do("tracking", "-") \o Do("modules", "-")
           p == Do("lock", "pt")
           l == Do("lock", "grab")
           g == Do("grab", "-")
<1>1. Called(x)
  BY CalledDo, CalledConcat DEF Common, Args
<1>2. Called(l \o g)
  BY CalledGrab
<1>3. p \in Seq(StepSet) /\ l \in Seq(StepSet) /\ g \in Seq(StepSet) /\ x \in Seq(StepSet)
  <2>1. /\ [op |-> "lock", arg |-> "pt"] \in StepSet /\ [op |-> "lock", arg |-> "grab"] \in StepSet
        /\ [op |-> "grab", arg |-> "-"] \in StepSet
    BY DEF StepSet, Args
  <2>2. QED  BY <1>1, <2>1, DoFacts DEF Called, Good, Nested
<1>4. Iteration = x \o (p \o (l \o g))
  <2>1. Iteration = ((x \o p) \o l) \o g
    BY DEF Iteration
  <2> HIDE DEF x, p, l, g
  <2>2. x \o p \in Seq(StepSet) /\ l \o g \in Seq(StepSet)
    BY <1>3, ConcatFacts
  <2>3. ((x \o p) \o l) \o g = (x \o p) \o (l \o g)
    BY SMTT(60), <1>3, <2>2, ConcatAssoc
  <2>4. (x \o p) \o (l \o g) = x \o (p \o (l \o g))
    <3>1. ASSUME NEW y \in Seq(StepSet) PROVE (x \o p) \o y = x \o (p \o y)
      BY SMTT(60), <1>3, ConcatAssoc
    <3>2. QED  BY <2>2, <3>1
  <2>5. QED  BY <2>1, <2>3, <2>4
<1>5. l \o g # <<>>
  <2>1. l # <<>>
    BY DEF Do
  <2> HIDE DEF l, g
  <2>2. QED  BY <1>3, <2>1
<1>6. Called(p \o (l \o g))
  <2> HIDE DEF l, g
  <2>1. QED  BY <1>2, <1>5, CalledTake DEF Args
<1>7. QED
  <2> HIDE DEF x, p, l, g
  <2>1. QED  BY <1>1, <1>4, <1>6, CalledConcat

-----------------------------------------------------------------------------
(* The functions of the two nodes.                                         *)

LEMMA Names == "obj" \in Args /\ "body" \in Args /\ Detectors \subseteq {"obj", "body"}
  BY ZedControlAssumption DEF Args, ZedControlAssumption

LEMMA CalledTracking == Called(StartTrackingLocked) /\ Called(StartTracking)
<1>1. \A op \in Plain : Called(Locked("grab", Do(op, "pt")))
  BY CalledGuarded DEF Args
<1>2. Called(Do("started", "pt")) /\ Called(Do("startTracking", "-"))
  BY CalledDo DEF Common, Args
<1>3. Called(StartTrackingLocked)
  <2>1. Called(Locked("grab", Do("disable", "pt"))) /\ Called(Locked("grab", Do("enable", "pt")))
    BY <1>1 DEF Plain
  <2>2. Called(IF "pt" \in sdk THEN Locked("grab", Do("disable", "pt")) ELSE <<>>)
    BY <2>1, CalledEmpty
  <2>3. QED  BY <1>2, <2>1, <2>2, CalledEmpty, CalledConcat DEF StartTrackingLocked
<1>4. Called(StartTracking)
  BY <1>2, CalledLocked DEF StartTracking, Args
<1>5. QED  BY <1>3, <1>4

LEMMA CalledStarts ==
  /\ \A d \in Args : Called(StartDetector(d))
  /\ Called(StartMapping) /\ Called(StartStreaming) /\ Called(StopStreaming)
<1>1. ASSUME NEW d \in Args PROVE Called(StartDetector(d))
  <2>1. Called(Locked("grab", Do("enable", d))) /\ Called(Do("started", d))
    BY CalledGuarded, CalledDo DEF Plain, Common
  <2>2. QED  BY <2>1, CalledEmpty, CalledConcat DEF StartDetector
<1>2. ASSUME NEW m \in {"map", "stream", "rec"}, NEW op \in {"enable", "disable"} PROVE Called(Do(op, m))
  BY CalledSwitch, Names DEF Safe, Args
<1>3. Called(StartMapping)
  <2>1. Called(Do("started", "map"))
    BY CalledDo DEF Common, Args
  <2>2. QED  BY <1>2, <2>1, CalledEmpty, CalledConcat DEF StartMapping
<1>4. Called(StartStreaming) /\ Called(StopStreaming)
  <2>1. Called(Do("started", "stream")) /\ Called(Do("stopped", "stream")) /\ Called(Do("unwanted", "stream"))
    BY CalledDo DEF Common, Args
  <2>2. Called(IF "stream" \in sdk THEN Do("disable", "stream") ELSE <<>>)
    BY <1>2, CalledEmpty
  <2>3. QED  BY <1>2, <2>1, <2>2, CalledConcat DEF StartStreaming, StopStreaming
<1>5. QED  BY <1>1, <1>3, <1>4

LEMMA CalledProcess == Called(Process)
<1>1. Called(Do("use", "-") \o Do("stream", "-")) /\ Called(Do("region", "-"))
  BY CalledDo, CalledConcat DEF Common, Args
<1>2. \A l \in {"rec", "obj", "body"} : Called(Locked(l, <<>>))
  BY CalledLocked, CalledEmpty DEF Args
<1>3. Called(Each(LAMBDA d: Locked(d, <<>>)))
  BY <1>2, CalledEmpty, CalledConcat DEF Each
<1>4. QED  BY <1>1, <1>2, <1>3, CalledEmpty, CalledConcat DEF Process

\* checkObjDetect, checkBodyTrk and the mapping, each under its mutex.
LEMMA CalledModules ==
  Called(Locked("map", Do("startMapping", "-")) \o Each(LAMBDA d: Locked(d, Do("startDetector", d))))
<1>1. Called(Locked("map", Do("startMapping", "-")))
  <2>1. Called(Do("startMapping", "-"))
    BY CalledDo DEF Common, Args
  <2>2. QED  BY <2>1, CalledLocked DEF Args
<1>2. ASSUME NEW d \in {"obj", "body"} PROVE Called(Locked(d, Do("startDetector", d)))
  <2>1. Called(Do("startDetector", d))
    BY CalledDo DEF Common, Args
  <2>2. QED  BY <2>1, CalledLocked DEF Args
<1>3. Called(Each(LAMBDA d: Locked(d, Do("startDetector", d))))
  BY <1>2, CalledEmpty, CalledConcat DEF Each
<1>4. QED  BY <1>1, <1>3, CalledConcat

LEMMA CalledAgain == Called(Again)
  BY CalledUnlock, CalledDo, CalledConcat DEF Again, Common, Args

\* What grab() may be followed by, in the two nodes.
LEMMA CalledAfterGrab ==
  ASSUME NEW after \in {Process \o Again, Again, Do("kill", "-")}
                    \cup (IF input = "loop" THEN {Again, Do("startTracking", "-") \o Again} ELSE {})
                    \cup (IF input = "svo" THEN {Do("stop", "-") \o Again} ELSE {})
  PROVE  Called(after)
<1>1. Called(Do("kill", "-")) /\ Called(Do("startTracking", "-")) /\ Called(Do("stop", "-"))
  BY CalledDo DEF Common, Args
<1>2. Called(Process \o Again) /\ Called(Do("startTracking", "-") \o Again) /\ Called(Do("stop", "-") \o Again)
  BY <1>1, CalledProcess, CalledAgain, CalledConcat
<1>3. QED  BY <1>1, <1>2, CalledAgain

LEMMA CalledOne == Called(Rest) /\ Called(Frame) /\ Called(Farewell)
<1>1. /\ Called(Do("status", "-")) /\ Called(Do("images", "-")) /\ Called(Do("oneTop", "-"))
      /\ Called(Do("use", "-")) /\ Called(Do("stream", "-"))
      /\ Called(Do("report", "-")) /\ Called(Do("end", "-"))
  BY CalledDo DEF Common, Args
<1>2. Called(Locked("rec", Do("status", "-")))
  BY <1>1, CalledLocked DEF Args
<1>3. Called(Rest)
  BY <1>1, <1>2, CalledConcat DEF Rest
<1>4. QED  BY <1>1, <1>3, CalledConcat DEF Frame, Farewell

LEMMA CalledAfterOneGrab ==
  ASSUME NEW after \in {Frame, Do("kill", "-")}
                    \cup (IF input = "loop" THEN {Do("use", "-") \o Frame} ELSE {})
                    \cup (IF input = "svo"
                          THEN {Do("stop", "-") \o Farewell,
                                Do("stop", "-") \o Do("use", "-") \o Do("report", "-") \o Frame}
                          ELSE {})
  PROVE  Called(after)
<1>1. /\ Called(Do("kill", "-")) /\ Called(Do("use", "-")) /\ Called(Do("stop", "-"))
      /\ Called(Do("report", "-"))
  BY CalledDo DEF Common, Args
<1>2. /\ Called(Do("use", "-") \o Frame) /\ Called(Do("stop", "-") \o Farewell)
      /\ Called(Do("stop", "-") \o Do("use", "-") \o Do("report", "-") \o Frame)
  BY <1>1, CalledOne, CalledConcat
<1>3. QED  BY <1>1, <1>2, CalledOne

\* The services and the timers.
LEMMA CalledServices == \A s \in Services \cup Callbacks : Called(s)
<1>1. \A op \in Common, arg \in Args : Called(Do(op, arg))
  BY CalledDo
<1>2. \A op \in Common, arg \in Args, l \in Args \ {"grab"} : Called(Locked(l, Do(op, arg)))
  BY <1>1, CalledLocked
<1>3. ASSUME NEW s \in {SetSvoFrame, TogglePause, SaveAreaMemory, Do("reset", "-"), Do("roi", "-"),
                        Do("resetRoi", "-"), Locked("close", Do("diagnose", "-"))}
      PROVE  Called(s)
  BY <1>1, <1>2 DEF SetSvoFrame, TogglePause, SaveAreaMemory, Common, Args
<1>4. ASSUME NEW on \in BOOLEAN,
             NEW s \in {Do("depth", on), Locked("map", Do("mapping", on)), Do("streaming", on),
                        Locked("rec", Do("record", on))}
      PROVE  Called(s)
  BY <1>1, <1>2 DEF Common, Args
<1>5. ASSUME NEW d \in Detectors, NEW on \in BOOLEAN
      PROVE  Called(Locked(d, Do(IF on THEN "detect" ELSE "halt", d)))
  BY <1>2, Names DEF Common, Args
<1>6. ASSUME NEW s \in Callbacks PROVE Called(s)
  BY <1>1 DEF Callbacks, Common, Args
<1>7. ASSUME NEW s \in Services PROVE Called(s)
  <2> DEFINE A == {SetSvoFrame, TogglePause, SaveAreaMemory, Do("reset", "-"), Do("roi", "-"),
                   Do("resetRoi", "-"), Locked("close", Do("diagnose", "-"))}
             B(on) == {Do("depth", on), Locked("map", Do("mapping", on)), Do("streaming", on),
                       Locked("rec", Do("record", on))}
             D == UNION {B(on) : on \in BOOLEAN}
             C == {Locked(d, Do(IF on THEN "detect" ELSE "halt", d)) : d \in Detectors, on \in BOOLEAN}
  <2>1. s \in A \cup C \cup D
    BY DEF Services
  <2>2. CASE s \in A
    BY <1>3, <2>2
  <2>3. CASE s \in C
    BY <1>5, <2>3
  <2>4. CASE s \in D
    <3> HIDE DEF B
    <3>1. PICK on \in BOOLEAN : s \in B(on)
      BY <2>4
    <3>2. QED  BY <1>4, <3>1 DEF B
  <2> HIDE DEF A, C, D
  <2>5. QED  BY <2>1, <2>2, <2>3, <2>4
<1>8. QED  BY <1>6, <1>7

LEMMA CalledOneServices == \A s \in OneServices : Called(s)
<1>1. \A op \in Common, arg \in Args : Called(Do(op, arg))
  BY CalledDo
<1>2. \A op \in Common, arg \in Args, l \in Args \ {"grab"} : Called(Locked(l, Do(op, arg)))
  BY <1>1, CalledLocked
<1>3. \A on \in BOOLEAN : Called(Do("streaming", on)) /\ Called(Locked("rec", Do("record", on)))
  BY <1>1, <1>2 DEF Common, Args
<1>4. Called(Do("report", "-")) /\ Called(Do("use", "-")) /\ Called(Locked("rec", Do("oneSeek", "-")))
  BY <1>1, <1>2 DEF Common, Args
<1>5. Called(TogglePause)
  BY <1>2 DEF TogglePause, Common, Args
<1>6. \A on \in BOOLEAN : Called(SwitchStreaming(on)) /\ Called(SwitchRecording(on))
  BY <1>3, CalledEmpty DEF SwitchStreaming, SwitchRecording
<1>7. QED  BY <1>4, <1>5, <1>6 DEF OneServices

-----------------------------------------------------------------------------
(* A thread does its step: the sequence behind it, with the steps of a     *)
(* function in front, less the unlocks at the head.                        *)

IsGuarded(s) == s[1].op = "lock" /\ s[2].op \notin {"lock", "unlock", "grab"}
After(s) == IF IsGuarded(s) THEN 3 ELSE 2
Behind(s) == SubSeq(s, After(s), Len(s))

\* As Ready, but an unlock may be left at the head.
Half(s) ==
  /\ s \in Seq(StepSet)
  /\ \A j \in DOMAIN s :
       /\ s[j].op \in {"enable", "disable"} /\ s[j].arg \in Safe => j > 1 /\ s[j - 1] = L
       /\ s[j] = U => j = 1 \/ (j > 2 /\ s[j - 2] = L /\ s[j - 1].op \in Plain)
       /\ s[j].op = "lock" => j < Len(s)
       /\ s[j].op = "quit" => s[j].arg # "grab"
       /\ s[j].op = "grab" => j = 1 \/ (j > 1 /\ s[j - 1] = L)

LEMMA BehindFacts ==
  ASSUME NEW s, Ready(s), s # <<>>
  PROVE  /\ After(s) \in {2, 3} /\ After(s) <= Len(s) + 1 /\ Len(s) \in Nat
         /\ Behind(s) \in Seq(StepSet)
         /\ Len(Behind(s)) = Len(s) - After(s) + 1
         /\ DOMAIN Behind(s) = 1..(Len(s) - After(s) + 1) /\ DOMAIN s = 1..Len(s)
         /\ \A j \in 1..(Len(s) - After(s) + 1) : Behind(s)[j] = s[j + After(s) - 1]
         /\ s[1] \in StepSet /\ (IsGuarded(s) => s[2] \in StepSet)
<1> DEFINE k == After(s)
<1>1. s \in Seq(StepSet) /\ Len(s) \in Nat /\ Len(s) >= 1 /\ DOMAIN s = 1..Len(s)
  BY DEF Ready, Nested
<1>2. s[1].op = "lock" => 1 < Len(s)
  BY <1>1 DEF Ready, Nested
<1>3. k \in {2, 3} /\ k <= Len(s) + 1
  BY <1>1, <1>2 DEF After, IsGuarded
<1>4. Behind(s) = SubSeq(s, k, Len(s))
  BY DEF Behind
<1>5. s[1] \in StepSet /\ (IsGuarded(s) => s[2] \in StepSet)
  BY <1>1, <1>2 DEF IsGuarded
<1> HIDE DEF k
<1>6. /\ SubSeq(s, k, Len(s)) \in Seq(StepSet) /\ Len(SubSeq(s, k, Len(s))) = Len(s) - k + 1
      /\ DOMAIN SubSeq(s, k, Len(s)) = 1..(Len(s) - k + 1)
      /\ \A j \in 1..(Len(s) - k + 1) : SubSeq(s, k, Len(s))[j] = s[j + k - 1]
  BY <1>1, <1>3
<1>7. QED  BY <1>1, <1>3, <1>4, <1>5, <1>6 DEF k

LEMMA BehindHalf ==
  ASSUME NEW s, Ready(s), s # <<>>
  PROVE  /\ Half(Behind(s))
         /\ Behind(s) # <<>> /\ Behind(s)[1] = U => IsGuarded(s) /\ s[1] = L /\ s[2].op \in Plain
         /\ Behind(s) # <<>> /\ Behind(s)[1].op = "grab" => ~IsGuarded(s) /\ s[1] = L
<1> DEFINE k == After(s)
           b == Behind(s)
           m == Len(s) - k + 1
<1>1. /\ k \in {2, 3} /\ k <= Len(s) + 1 /\ Len(s) \in Nat
      /\ b \in Seq(StepSet) /\ Len(b) = m /\ DOMAIN b = 1..m /\ DOMAIN s = 1..Len(s) /\ m \in Nat
      /\ \A j \in 1..m : b[j] = s[j + k - 1] /\ j + k - 1 \in 1..Len(s)
  BY BehindFacts
<1>2. /\ k = 3 => s[1].op = "lock" /\ s[2].op \notin {"lock", "unlock", "grab"} /\ IsGuarded(s)
      /\ k = 2 => ~IsGuarded(s)
      /\ k = 2 /\ s[1].op = "lock" => s[2].op \in {"lock", "unlock", "grab"}
  BY DEF After, IsGuarded
<1>3. m = Len(s) - k + 1
  OBVIOUS
<1> HIDE DEF k, b, m
<1>4. ASSUME NEW j \in 1..m
      PROVE  /\ b[j].op \in {"enable", "disable"} /\ b[j].arg \in Safe => j > 1 /\ b[j - 1] = L
             /\ b[j] = U => \/ j = 1 /\ k = 3 /\ s[1] = L /\ s[2].op \in Plain
                            \/ j > 2 /\ b[j - 2] = L /\ b[j - 1].op \in Plain
             /\ b[j].op = "lock" => j < Len(b)
             /\ b[j].op = "quit" => b[j].arg # "grab"
             /\ b[j].op = "grab" => (j = 1 /\ k = 2 /\ s[1] = L) \/ (j > 1 /\ b[j - 1] = L)
  <2> DEFINE i == j + k - 1
  <2>1. /\ i \in DOMAIN s /\ b[j] = s[i]
        /\ j > 1 => b[j - 1] = s[i - 1]
        /\ j > 2 => b[j - 2] = s[i - 2]
        /\ i < Len(s) => j < Len(b)
    BY <1>1, <1>3
  <2>2. /\ s[i].op \in {"enable", "disable"} /\ s[i].arg \in Safe => i > 1 /\ s[i - 1] = L
        /\ s[i] = U => i > 2 /\ s[i - 2] = L /\ s[i - 1].op \in Plain
        /\ s[i].op = "lock" => i < Len(s)
        /\ s[i].op = "quit" => s[i].arg # "grab"
        /\ s[i].op = "grab" => i = 1 \/ (i > 1 /\ s[i - 1] = L)
    BY <2>1 DEF Ready, Nested
  <2>3. L.op = "lock" /\ "lock" \notin Plain
    BY DEF L, Plain
  <2>4. CASE j = 1
    <3>1. i = k
      BY <1>1, <2>4
    <3>2. CASE k = 2
      <4>1. s[2].op \in {"enable", "disable"} => s[2].op \notin {"lock", "unlock", "grab"}
        OBVIOUS
      <4>2. QED  BY <1>2, <2>1, <2>2, <2>3, <2>4, <3>1, <3>2, <4>1
    <3>3. CASE k = 3
      BY <1>2, <2>1, <2>2, <2>3, <2>4, <3>1, <3>3
    <3>4. QED  BY <1>1, <3>2, <3>3
  <2>5. CASE j = 2
    <3>1. i = k + 1 /\ j > 1
      BY <1>1, <2>5
    <3>2. CASE k = 2
      <4>1. s[2].op \in Plain => s[2].op \notin {"lock", "unlock", "grab"}
        BY DEF Plain
      <4>2. QED  BY <1>2, <2>1, <2>2, <2>3, <2>5, <3>1, <3>2, <4>1
    <3>3. CASE k = 3
      BY <1>2, <2>1, <2>2, <2>3, <2>5, <3>1, <3>3
    <3>4. QED  BY <1>1, <3>2, <3>3
  <2>6. CASE j > 2
    <3>1. i > 2 /\ j > 1 /\ b[j - 1] = s[i - 1] /\ b[j - 2] = s[i - 2]
      BY <1>1, <2>1, <2>6
    <3> HIDE DEF i
    <3>2. QED  BY <2>1, <2>2, <2>6, <3>1
  <2>7. QED  BY <1>1, <2>4, <2>5, <2>6
<1>5. Half(b)
  BY <1>1, <1>4 DEF Half
<1>6. b # <<>> => 1 \in 1..m
  BY <1>1
<1>7. QED  BY <1>2, <1>4, <1>5, <1>6 DEF b

LEMMA HalfGood ==
  ASSUME NEW b, Half(b), b # <<>> => b[1] # U /\ b[1].op # "grab"
  PROVE  Good(b)
<1>1. b \in Seq(StepSet) /\ DOMAIN b = 1..Len(b) /\ Len(b) \in Nat
  BY DEF Half
<1>2. \A j \in DOMAIN b : (b[j] = U \/ b[j].op = "grab") => j # 1
  BY <1>1
<1>3. QED  BY <1>1, <1>2 DEF Half, Good, Nested

LEMMA GoodHalf ==
  ASSUME NEW s, Good(s)
  PROVE  Half(s) /\ (s # <<>> => s[1] # U /\ s[1].op # "grab")
<1>1. s \in Seq(StepSet) /\ DOMAIN s = 1..Len(s) /\ Len(s) \in Nat
  BY DEF Good, Nested
<1>2. Half(s)
  BY <1>1 DEF Half, Good, Nested
<1>3. s # <<>> => 1 \in DOMAIN s
  BY <1>1
<1>4. QED  BY <1>2, <1>3 DEF Good, Nested

\* grab() is over: its mutex is given back.
LEMMA UnlockHalf ==
  ASSUME NEW g, Good(g)
  PROVE  /\ Half(Do("unlock", "grab") \o g)
         /\ Do("unlock", "grab") \o g # <<>> /\ (Do("unlock", "grab") \o g)[1] = U
<1> DEFINE a == Do("unlock", "grab")
           s == a \o g
           n == Len(g)
<1>1. [op |-> "unlock", arg |-> "grab"] \in StepSet
  BY DEF StepSet, Args
<1>2. a \in Seq(StepSet) /\ Len(a) = 1 /\ a[1] = U /\ g \in Seq(StepSet)
  BY <1>1, DoFacts DEF Good, Nested, U
<1> HIDE DEF a
<1>3. /\ s \in Seq(StepSet) /\ Len(s) = n + 1 /\ DOMAIN s = 1..(n + 1) /\ n \in Nat /\ DOMAIN g = 1..n
      /\ \A j \in 1..(n + 1) : s[j] = IF j = 1 THEN U ELSE g[j - 1]
  <2>1. a \in Seq(StepSet) /\ g \in Seq(StepSet)
    BY <1>2
  <2>2. /\ s \in Seq(StepSet) /\ Len(s) = Len(a) + Len(g) /\ DOMAIN s = 1..(Len(a) + Len(g))
        /\ Len(g) \in Nat /\ DOMAIN g = 1..Len(g)
        /\ \A j \in 1..(Len(a) + Len(g)) : s[j] = IF j <= Len(a) THEN a[j] ELSE g[j - Len(a)]
    BY <2>1, ConcatFacts
  <2> HIDE DEF s
  <2>3. QED  BY <1>2, <2>2
<1>4. n = Len(g)
  OBVIOUS
<1> HIDE DEF s, n
<1>5. ASSUME NEW j \in DOMAIN s
      PROVE  /\ s[j].op \in {"enable", "disable"} /\ s[j].arg \in Safe => j > 1 /\ s[j - 1] = L
             /\ s[j] = U => j = 1 \/ (j > 2 /\ s[j - 2] = L /\ s[j - 1].op \in Plain)
             /\ s[j].op = "lock" => j < Len(s)
             /\ s[j].op = "quit" => s[j].arg # "grab"
             /\ s[j].op = "grab" => j = 1 \/ (j > 1 /\ s[j - 1] = L)
  <2>1. CASE j = 1
    BY <1>3, <2>1 DEF U
  <2>2. CASE j # 1
    <3> DEFINE k == j - 1
    <3>1. /\ k \in DOMAIN g /\ s[j] = g[k]
          /\ k > 1 => j > 1 /\ s[j - 1] = g[k - 1]
          /\ k > 2 => j > 2 /\ s[j - 2] = g[k - 2]
          /\ k < Len(g) => j < Len(s)
      BY <1>3, <1>4, <2>2
    <3> HIDE DEF k
    <3>2. k \in Nat /\ k = j - 1
      BY <1>3, <3>1 DEF k
    <3>3. QED  BY <3>1, <3>2 DEF Good, Nested
  <2>3. QED  BY <2>1, <2>2
<1>6. Half(s) /\ s[1] = U /\ s # <<>>
  BY <1>3, <1>5 DEF Half
<1>7. QED  BY <1>6 DEF s, a

\* The unlocks at the head are done.
LEMMA StripFacts ==
  ASSUME NEW s \in Seq(StepSet), NEW n \in 0..Len(s)
  PROVE  LET r == SubSeq(s, n + 1, Len(s)) IN
         /\ r \in Seq(StepSet) /\ Len(r) = Len(s) - n /\ Len(s) \in Nat /\ n \in Nat
         /\ DOMAIN r = 1..(Len(s) - n) /\ DOMAIN s = 1..Len(s)
         /\ \A j \in 1..(Len(s) - n) : r[j] = s[n + j]
  OBVIOUS

LEMMA Stripped ==
  ASSUME NEW s, Half(s), NEW n \in Nat, n <= Len(s), \A j \in 1..n : s[j].op = "unlock",
         n < Len(s) => s[n + 1].op # "unlock",
         NEW r \in Seq(StepSet), Len(r) = Len(s) - n,
         \A j \in 1..(Len(s) - n) : r[j] = s[n + j]
  PROVE  /\ Ready(r)
         /\ r # <<>> /\ r[1].op = "grab" => n = 0 /\ s # <<>> /\ s[1].op = "grab"
         /\ \A j \in 1..n : s[j] = U => j = 1
<1>1. /\ s \in Seq(StepSet) /\ Len(s) \in Nat
      /\ DOMAIN r = 1..(Len(s) - n) /\ DOMAIN s = 1..Len(s)
      /\ \A j \in 1..(Len(s) - n) : r[j] = s[n + j]
  BY DEF Half
<1>2. L.op = "lock" /\ U.op = "unlock" /\ "unlock" \notin Plain
  BY DEF L, U, Plain
<1>3. ASSUME NEW j \in DOMAIN r
      PROVE  /\ r[j].op \in {"enable", "disable"} /\ r[j].arg \in Safe => j > 1 /\ r[j - 1] = L
             /\ r[j] = U => j > 2 /\ r[j - 2] = L /\ r[j - 1].op \in Plain
             /\ r[j].op = "lock" => j < Len(r)
             /\ r[j].op = "quit" => r[j].arg # "grab"
             /\ r[j].op = "grab" => (j = 1 /\ n = 0) \/ (j > 1 /\ r[j - 1] = L)
  <2> DEFINE i == n + j
  <2>0. j \in Nat /\ j >= 1 /\ j <= Len(s) - n
    BY <1>1
  <2>1. /\ i \in DOMAIN s /\ r[j] = s[i]
        /\ j > 1 => i > 1 /\ r[j - 1] = s[i - 1]
        /\ j > 2 => i > 2 /\ r[j - 2] = s[i - 2]
        /\ i < Len(s) => j < Len(r)
    <3>1. i \in DOMAIN s /\ r[j] = s[i] /\ (i < Len(s) => j < Len(r))
      BY <1>1, <2>0
    <3>2. j > 1 => i > 1 /\ j - 1 \in 1..(Len(s) - n) /\ n + (j - 1) = i - 1
      BY <1>1, <2>0
    <3>3. j > 2 => i > 2 /\ j - 2 \in 1..(Len(s) - n) /\ n + (j - 2) = i - 2
      BY <1>1, <2>0
    <3> HIDE DEF i
    <3>4. QED  BY <1>1, <3>1, <3>2, <3>3
  <2>2. /\ j = 1 => s[i].op # "unlock" /\ (i > 1 => s[i - 1].op = "unlock") /\ (i = 1 => n = 0)
        /\ j = 2 /\ i > 2 => s[i - 2].op = "unlock"
    <3>1. j = 1 => s[i].op # "unlock" /\ (i = 1 => n = 0)
      BY SMTT(60), <1>1, <2>0
    <3>2. j = 1 /\ i > 1 => i - 1 \in 1..n
      BY SMTT(60), <1>1, <2>0
    <3>3. j = 2 /\ i > 2 => i - 2 \in 1..n
      BY SMTT(60), <1>1, <2>0
    <3>4. QED  BY <1>1, <3>1, <3>2, <3>3
  <2>3. j = 1 \/ j = 2 \/ j > 2
    BY <1>1
  <2>4. /\ s[i].op \in {"enable", "disable"} /\ s[i].arg \in Safe => i > 1 /\ s[i - 1] = L
        /\ s[i] = U => i = 1 \/ (i > 2 /\ s[i - 2] = L /\ s[i - 1].op \in Plain)
        /\ s[i].op = "lock" => i < Len(s)
        /\ s[i].op = "quit" => s[i].arg # "grab"
        /\ s[i].op = "grab" => i = 1 \/ (i > 1 /\ s[i - 1] = L)
    BY <2>1 DEF Half
  <2>5. (i = 1 => j = 1) /\ i \in Nat
    BY <1>1
  <2> HIDE DEF i
  <2>6. CASE j = 1
    BY <1>2, <2>1, <2>2, <2>4, <2>5, <2>6
  <2>7. CASE j = 2
    BY <1>2, <2>1, <2>2, <2>4, <2>5, <2>7
  <2>8. CASE j > 2
    <3>1. j > 1 => r[j - 1] = s[i - 1]
      BY <2>1, <2>8
    <3>2. j > 2 /\ i > 2 /\ r[j - 2] = s[i - 2]
      BY <2>1, <2>8
    <3>3. r[j] = s[i] /\ (i < Len(s) => j < Len(r)) /\ j > 1
      BY <2>1, <2>8
    <3>4. i # 1
      BY <3>2
    <3>5. QED  BY <2>4, <3>1, <3>2, <3>3, <3>4
  <2>9. QED  BY <2>3, <2>6, <2>7, <2>8
<1>4. Ready(r)
  BY <1>1, <1>3 DEF Ready, Nested
<1>5. r # <<>> /\ r[1].op = "grab" => n = 0 /\ s # <<>> /\ s[1].op = "grab"
  <2>1. r # <<>> => 1 \in DOMAIN r /\ r[1] = s[n + 1] /\ s # <<>>
    BY <1>1
  <2>2. r # <<>> /\ r[1].op = "grab" => n = 0
    BY <1>3, <2>1
  <2>3. QED  BY <1>1, <2>1, <2>2
<1>6. ASSUME NEW j \in 1..n, s[j] = U PROVE j = 1
  <2>1. j \in DOMAIN s /\ (j > 2 => j - 2 \in 1..n)
    BY <1>1
  <2>2. j > 2 => s[j - 2].op = "unlock"
    BY <2>1
  <2>3. QED  BY <1>2, <1>6, <2>1, <2>2 DEF Half
<1>7. QED  BY <1>4, <1>5, <1>6

-----------------------------------------------------------------------------
(* What any step does to `todo` and `lock`.                                *)

\* The steps that a step of the kind op may put in front.
Fits(t, op, steps) ==
  \/ steps = <<>>
  \/ Called(steps) /\ op \notin Plain \cup {"lock", "grab"}
  \/ t = G /\ op = "grab" /\ \E c : Called(c) /\ steps = Do("unlock", "grab") \o c
Move(t) ==
  t \in Threads /\ \E op : At(t, op) /\ \E steps : Fits(t, op, steps) /\ Continue(t, steps)

Goes(t, next, n) ==
  /\ n \in Nat /\ n <= Len(next)
  /\ \A j \in 1..n : next[j].op = "unlock"
  /\ n < Len(next) => next[n + 1].op # "unlock"
  /\ todo' = [todo EXCEPT ![t] = SubSeq(next, n + 1, Len(next))]
  /\ lock' = [l \in Locks |-> IF \E j \in 1..n : next[j].arg = l THEN None
                              ELSE IF l \in Taken(t) THEN t ELSE lock[l]]

Shaped == todo \in [Threads -> Seq(StepSet)] /\ \A t \in Threads : Ready(todo[t])

LEMMA StepFacts ==
  ASSUME NEW t \in Threads, NEW op, At(t, op), Shaped
  PROVE  /\ exited = "no" /\ todo[t] # <<>> /\ Ready(todo[t]) /\ Step(t).op = op
         /\ Guarded(t) <=> IsGuarded(todo[t])
         /\ Step(t) = todo[t][IF IsGuarded(todo[t]) THEN 2 ELSE 1]
         /\ Step(t) \in StepSet /\ Arg(t) \in Args
         /\ op = "quit" => Arg(t) # "grab"
         /\ \A l \in Taken(t) : lock[l] = None
         /\ todo[t][1].op = "lock" => Taken(t) = {todo[t][1].arg}
         /\ todo[t][1].op # "lock" => Taken(t) = {}
<1> DEFINE s == todo[t]
<1>1. s \in Seq(StepSet) /\ s # <<>> /\ Ready(s) /\ Head(s) = s[1] /\ DOMAIN s = 1..Len(s)
  BY DEF At, Shaped
<1>2. Guarded(t) <=> IsGuarded(s)
  BY <1>1 DEF Guarded, IsGuarded
<1>3. Step(t) = s[IF IsGuarded(s) THEN 2 ELSE 1]
  BY <1>2 DEF Step
<1>4. Step(t) \in StepSet
  BY <1>1, <1>3, BehindFacts
<1>5. Arg(t) \in Args
  BY <1>4 DEF Arg, StepSet
<1>6. op = "quit" => Arg(t) # "grab"
  <2>1. (IF IsGuarded(s) THEN 2 ELSE 1) \in DOMAIN s
    BY <1>1, BehindFacts DEF After
  <2>2. QED  BY <1>1, <1>3, <2>1 DEF Ready, Nested, Arg, At
<1>7. QED  BY <1>1, <1>2, <1>3, <1>4, <1>5, <1>6 DEF At, Taken

LEMMA ContinueNext ==
  ASSUME NEW t \in Threads, NEW op, At(t, op), Shaped, NEW steps \in Seq(StepSet), Continue(t, steps)
  PROVE  \E n : Goes(t, steps \o Behind(todo[t]), n)
<1>1. PICK next \in {steps \o SubSeq(todo[t], IF Guarded(t) THEN 3 ELSE 2, Len(todo[t]))} :
        \E n \in 0..Len(next) :
          /\ \A j \in 1..n : next[j].op = "unlock"
          /\ n < Len(next) => next[n + 1].op # "unlock"
          /\ todo' = [todo EXCEPT ![t] = SubSeq(next, n + 1, Len(next))]
          /\ lock' = [l \in Locks |-> IF \E j \in 1..n : next[j].arg = l THEN None
                                      ELSE IF l \in Taken(t) THEN t ELSE lock[l]]
  BY Zenon DEF Continue
<1>2. next = steps \o Behind(todo[t])
  BY StepFacts DEF Behind, After
<1>3. Behind(todo[t]) \in Seq(StepSet)
  BY StepFacts, BehindFacts
<1>4. Len(next) \in Nat
  BY <1>2, <1>3
<1>5. \E n : Goes(t, next, n)
  <2>1. PICK n \in 0..Len(next) :
          /\ \A j \in 1..n : next[j].op = "unlock"
          /\ n < Len(next) => next[n + 1].op # "unlock"
          /\ todo' = [todo EXCEPT ![t] = SubSeq(next, n + 1, Len(next))]
          /\ lock' = [l \in Locks |-> IF \E j \in 1..n : next[j].arg = l THEN None
                                      ELSE IF l \in Taken(t) THEN t ELSE lock[l]]
    BY <1>1
  <2>2. n \in Nat /\ n <= Len(next)
    BY <1>4
  <2>3. Goes(t, next, n)
    BY <2>1, <2>2 DEF Goes
  <2>4. QED  BY <2>3
<1>6. QED  BY <1>2, <1>5

LEMMA NextHalf ==
  ASSUME NEW t \in Threads, NEW op, At(t, op), Shaped, NEW steps, Fits(t, op, steps),
         NEW next, next = steps \o Behind(todo[t])
  PROVE  /\ steps \in Seq(StepSet) /\ Half(next)
         /\ next # <<>> /\ next[1] = U => todo[t][1] = L \/ t = G
         /\ next # <<>> /\ next[1].op = "grab" => todo[t][1] = L
<1> DEFINE s == todo[t]
           b == Behind(todo[t])
<1>1. /\ s # <<>> /\ Ready(s) /\ op = s[IF IsGuarded(s) THEN 2 ELSE 1].op
      /\ Half(b)
      /\ b # <<>> /\ b[1] = U => IsGuarded(s) /\ s[1] = L /\ s[2].op \in Plain
      /\ b # <<>> /\ b[1].op = "grab" => ~IsGuarded(s) /\ s[1] = L
  BY StepFacts, BehindHalf
<1>2. b \in Seq(StepSet) /\ L.op = "lock"
  BY <1>1 DEF Half, L
<1>3. op \notin Plain \cup {"lock"} => Good(b)
  <2>1. op \notin Plain \cup {"lock"} => (b # <<>> => b[1] # U /\ b[1].op # "grab")
    BY <1>1, <1>2
  <2>2. QED  BY <1>1, <2>1, HalfGood
<1> HIDE DEF b, s
<1>4. CASE steps = <<>>
  <2>1. next = b /\ steps \in Seq(StepSet)
    BY <1>2, <1>4 DEF b
  <2>2. QED  BY <1>1, <2>1 DEF s
<1>5. CASE Called(steps) /\ op \notin Plain \cup {"lock", "grab"}
  <2>1. Good(next)
    BY <1>3, <1>5, GoodConcat DEF Called, b
  <2>2. steps \in Seq(StepSet)
    BY <1>5 DEF Called, Good, Nested
  <2>3. QED  BY <2>1, <2>2, GoodHalf
<1>6. CASE t = G /\ op = "grab" /\ \E c : Called(c) /\ steps = Do("unlock", "grab") \o c
  <2>1. PICK c : Called(c) /\ steps = Do("unlock", "grab") \o c
    BY <1>6
  <2>2. Good(c) /\ Good(b) /\ Good(c \o b)
    BY <1>3, <1>6, <2>1, GoodConcat DEF Called, Plain
  <2>3. c \in Seq(StepSet)
    BY <2>2 DEF Good, Nested
  <2>4. Do("unlock", "grab") \in Seq(StepSet)
    <3>1. [op |-> "unlock", arg |-> "grab"] \in StepSet
      BY DEF StepSet, Args
    <3>2. QED  BY <3>1, DoFacts
  <2>5. steps \in Seq(StepSet)
    BY <2>1, <2>3, <2>4, ConcatFacts
  <2>6. next = Do("unlock", "grab") \o (c \o b)
    BY <1>2, <2>1, <2>3, <2>4, ConcatAssoc DEF b
  <2>7. Half(next) /\ next # <<>> /\ next[1] = U
    BY <2>2, <2>6, UnlockHalf
  <2>8. next[1].op # "grab"
    BY <2>7 DEF U
  <2>9. QED  BY <1>6, <2>5, <2>7, <2>8
<1>7. QED  BY <1>4, <1>5, <1>6 DEF Fits

LEMMA MoveReady ==
  ASSUME NEW t, Move(t), Shaped, NEW x \in [Locks -> Threads \cup {None}], lock = x
  PROVE  /\ Shaped' /\ todo' = [todo EXCEPT ![t] = todo'[t]]
         /\ todo'[t] # <<>> /\ todo'[t][1].op = "grab" => lock'["grab"] = t
         /\ lock["grab"] \notin {t, None} /\ t # G => lock'["grab"] = lock["grab"]
         /\ lock' \in [Locks -> Threads \cup {None}]
<1>1. PICK op, steps : t \in Threads /\ At(t, op) /\ Fits(t, op, steps) /\ Continue(t, steps)
  BY DEF Move
<1> DEFINE s == todo[t]
<1>0. PICK next : next = steps \o Behind(todo[t])
  OBVIOUS
<1>2. /\ steps \in Seq(StepSet) /\ Half(next)
      /\ next # <<>> /\ next[1] = U => s[1] = L \/ t = G
      /\ next # <<>> /\ next[1].op = "grab" => s[1] = L
  <2>1. t \in Threads /\ At(t, op) /\ Fits(t, op, steps)
    BY <1>1
  <2>3. Half(next)
    BY <1>0, <2>1, NextHalf
  <2>4. next # <<>> /\ next[1].op = "grab" => s[1] = L
    BY <1>0, <2>1, NextHalf
  <2>5. next # <<>> /\ next[1] = U => s[1] = L \/ t = G
    BY <1>0, <2>1, NextHalf
  <2>6. steps \in Seq(StepSet)
    BY <1>0, <2>1, NextHalf
  <2>2. QED  BY <2>3, <2>4, <2>5, <2>6
<1>3. PICK n : Goes(t, next, n)
  BY <1>0, <1>1, <1>2, ContinueNext
<1>4. next \in Seq(StepSet) /\ Len(next) \in Nat
  BY <1>2 DEF Half
<1> DEFINE r == SubSeq(next, n + 1, Len(next))
<1>5. /\ n \in Nat /\ n <= Len(next) /\ \A j \in 1..n : next[j].op = "unlock"
      /\ n < Len(next) => next[n + 1].op # "unlock"
      /\ todo' = [todo EXCEPT ![t] = r]
      /\ lock' = [l \in Locks |-> IF \E j \in 1..n : next[j].arg = l THEN None
                                  ELSE IF l \in Taken(t) THEN t ELSE lock[l]]
  BY <1>3 DEF Goes
<1>6. r \in Seq(StepSet) /\ Len(r) = Len(next) - n /\ \A j \in 1..(Len(next) - n) : r[j] = next[n + j]
  <2>1. n \in 0..Len(next)
    BY <1>4, <1>5
  <2>2. QED  BY <1>4, <2>1, StripFacts
<1> HIDE DEF r
<1>7. /\ Ready(r)
      /\ r # <<>> /\ r[1].op = "grab" => n = 0 /\ next # <<>> /\ next[1].op = "grab"
      /\ \A j \in 1..n : next[j] = U => j = 1
  BY <1>2, <1>5, <1>6, Stripped
<1>8. todo \in [Threads -> Seq(StepSet)] /\ \A u \in Threads : Ready(todo[u])
  BY DEF Shaped
<1>9. todo'[t] = r /\ todo' = [todo EXCEPT ![t] = todo'[t]]
  BY <1>1, <1>5, <1>8
<1>10. Shaped'
  <2>1. todo' \in [Threads -> Seq(StepSet)]
    BY <1>1, <1>5, <1>6, <1>8
  <2>2. \A u \in Threads : Ready(todo'[u])
    BY <1>1, <1>5, <1>7, <1>8
  <2>3. QED  BY <2>1, <2>2 DEF Shaped
<1>11. "grab" \in Locks
  BY DEF Locks
<1>12. s[1] = L => Taken(t) = {"grab"} /\ lock["grab"] = None
  <2>1. L.op = "lock" /\ L.arg = "grab"
    BY DEF L
  <2>2. QED  BY <1>1, <2>1, StepFacts
<1>13. r # <<>> /\ r[1].op = "grab" => lock'["grab"] = t
  BY <1>2, <1>5, <1>7, <1>11, <1>12
<1>14. ASSUME lock["grab"] \notin {t, None}, t # G PROVE lock'["grab"] = lock["grab"]
  <2>1. \A j \in 1..n : next[j].arg # "grab"
    <3> SUFFICES ASSUME NEW j \in 1..n, next[j].arg = "grab" PROVE FALSE
      OBVIOUS
    <3>1. next[j] = U
      <4>1. next[j] \in StepSet /\ next[j].op = "unlock"
        BY <1>4, <1>5
      <4>2. QED  BY <4>1 DEF StepSet, U
    <3>2. j = 1 /\ next # <<>>
      BY <1>4, <1>5, <1>7, <3>1
    <3>3. QED  BY <1>2, <1>12, <1>14, <3>1, <3>2
  <2>2. "grab" \notin Taken(t)
    BY <1>1, <1>14, StepFacts
  <2>3. QED  BY <1>5, <1>11, <2>1, <2>2
<1>15. lock' \in [Locks -> Threads \cup {None}]
  BY <1>1, <1>5
<1>16. QED  BY <1>9, <1>10, <1>13, <1>14, <1>15

-----------------------------------------------------------------------------
(* What each step does to the camera, the threads and the safe modules.    *)

All == Workers \cup {G}
Effect(t) ==
  /\ deinit' = deinit
  /\ camera' # camera => \/ Step(t).op \in {"connect", "open"} /\ camera' = "open"
                         \/ Step(t).op = "close"
  /\ Step(t).op = "connect" => camera' = "open" \/ exited' # "no"
  /\ Step(t).op = "launch" => camera' = camera
  /\ ended \subseteq ended' \/ Step(t).op = "launch" \/ (Step(t).op = "open" /\ camera' = "open")
  /\ Step(t).op \in {"connect", "launch", "open"} => t = X
  /\ Step(t).op \in {"spun", "join", "close"} => t = S
  /\ Step(t).op = "join" => All \subseteq ended
  /\ Step(t).op = "spun" => todo[X] = <<>>
  /\ \A m \in Safe : (m \in sdk' <=> m \in sdk) \/ (Step(t).op \in {"enable", "disable"} /\ Arg(t) = m)

\* The steps of the process that leave `todo` alone, or end it.
Rests ==
  /\ exited = "no" /\ UNCHANGED <<todo, lock, sdk, deinit>> /\ ended \subseteq ended'
  /\ camera' = camera \/ exited' # "no"

\* A service or a timer is called; the node is interrupted.
Calling ==
  /\ exited = "no" /\ todo[X] = <<>> /\ UNCHANGED <<lock, sdk, camera, ended, deinit>>
  /\ \E c : Called(c) /\ todo' = [todo EXCEPT ![X] = c]
Interrupting ==
  /\ exited = "no" /\ ~deinit /\ deinit' /\ UNCHANGED <<lock, sdk, camera, ended>>
  /\ \E steps \in {DeInit, OneDeInit} :
       todo' = [todo EXCEPT ![S] = (IF Hooked THEN <<>> ELSE Do("spun", "-")) \o steps]

LEMMA MoveCalled ==
  ASSUME NEW t \in Threads, NEW op, At(t, op), op \notin Plain \cup {"lock", "grab"},
         NEW steps, Called(steps), Continue(t, steps)
  PROVE  Move(t)
<1>1. Fits(t, op, steps)
  BY DEF Fits
<1>2. QED  BY <1>1 DEF Move

LEMMA MoveOn ==
  ASSUME NEW t \in Threads, NEW op, At(t, op), Continue(t, <<>>)
  PROVE  Move(t)
<1>1. Fits(t, op, <<>>)
  BY DEF Fits
<1>2. QED  BY <1>1 DEF Move

LEMMA Quietly ==
  ASSUME NEW t \in Threads, NEW op, At(t, op), op \notin Special,
         UNCHANGED <<camera, ended, deinit>>, sdk' = sdk
  PROVE  Effect(t)
  BY DEF Effect, At, Special

LEMMA MaybeMoves ==
  ASSUME NEW t \in Threads, NEW op \in Common \ Plain, Maybe(t, op), sdk' = sdk,
         UNCHANGED <<camera, ended, deinit>>
  PROVE  Move(t) /\ Effect(t)
<1>1. PICK used \in BOOLEAN : At(t, op) /\ Continue(t, IF used THEN Do("use", "-") ELSE <<>>)
  BY DEF Maybe
<1>2. Called(IF used THEN Do("use", "-") ELSE <<>>)
  BY CalledDo, CalledEmpty DEF Common, Args
<1>3. op \notin Plain \cup {"lock", "grab"} \cup Special
  BY DEF Common, Special
<1>4. QED  BY <1>1, <1>2, <1>3, MoveCalled, Quietly

LEMMA CallsMove ==
  ASSUME NEW t \in Threads, Shaped, Calls(t)
  PROVE  Move(t) /\ Effect(t)
<1> USE DEF Plain
<1>1. UNCHANGED <<camera, ended, deinit>> /\ sdk' = sdk
  BY DEF Calls, endVars
<1>2. Called(<<>>) /\ \A op \in Common, arg \in Args : Called(Do(op, arg))
  BY CalledEmpty, CalledDo
<1>3. ASSUME NEW op, At(t, op), NEW steps, Called(steps), Continue(t, steps), op \in Common \ Plain
      PROVE  Move(t) /\ Effect(t)
  <2>1. op \notin Plain \cup {"lock", "grab"} \cup Special
    BY <1>3 DEF Common, Special
  <2>2. QED  BY <1>1, <1>3, <2>1, MoveCalled, Quietly
<1>4. CASE Acquire(t)
  <2>1. At(t, "lock") /\ Continue(t, <<>>)
    BY <1>4 DEF Acquire
  <2>2. QED  BY <1>1, <2>1, MoveOn, Quietly DEF Special
<1>5. CASE At(t, "startTracking") /\ Continue(t, StartTrackingLocked)
  BY <1>3, <1>5, CalledTracking DEF Common
<1>6. CASE At(t, "use") /\ camera = "open" /\ Continue(t, <<>>)
  BY <1>1, <1>6, MoveOn, Quietly DEF Special
<1>7. CASE CheckMapping(t)
  <2>1. Called(IF "map" \in running \ wanted THEN Do("halt", "map") ELSE StartMapping)
    BY <1>2, CalledStarts DEF Common, Args
  <2>2. QED  BY <1>3, <1>7, <2>1 DEF CheckMapping, Common
<1>8. CASE CheckDetector(t)
  <2>1. At(t, "startDetector") /\ Continue(t, IF Arg(t) \in running THEN <<>> ELSE StartDetector(Arg(t)))
    BY <1>8 DEF CheckDetector
  <2>2. Arg(t) \in Args
    BY <2>1, StepFacts
  <2>3. Called(IF Arg(t) \in running THEN <<>> ELSE StartDetector(Arg(t)))
    BY <1>2, <2>2, CalledStarts
  <2>4. QED  BY <1>3, <2>1, <2>3 DEF Common
<1>9. CASE SaveArea(t)
  <2>1. Called(IF "pt" \in running /\ camera = "open" THEN Do("use", "-") ELSE <<>>)
    BY <1>2 DEF Common, Args
  <2>2. QED  BY <1>3, <1>9, <2>1 DEF SaveArea, Common
<1>10. CASE t = G /\ CheckTracking
  <2>1. PICK subs \in BOOLEAN :
          /\ At(t, "tracking")
          /\ Continue(t, IF TrackingRequired(subs) /\ "pt" \notin running
                         THEN Locked("pt", Do("startTracking", "-") \o Do("count", "-")) ELSE <<>>)
    BY <1>10 DEF CheckTracking
  <2>2. Called(Do("startTracking", "-") \o Do("count", "-"))
    BY <1>2, CalledConcat DEF Common, Args
  <2>3. Called(IF TrackingRequired(subs) /\ "pt" \notin running
               THEN Locked("pt", Do("startTracking", "-") \o Do("count", "-")) ELSE <<>>)
    BY <1>2, <2>2, CalledLocked DEF Args
  <2>4. QED  BY <1>3, <2>1, <2>3 DEF Common
<1>11. CASE t = G /\ CheckModules
  <2>1. /\ At(t, "modules")
        /\ Continue(t, IF noDepth THEN <<>>
                       ELSE Locked("map", Do("startMapping", "-"))
                            \o Each(LAMBDA d: Locked(d, Do("startDetector", d))))
    BY <1>11 DEF CheckModules
  <2>2. Called(IF noDepth THEN <<>>
               ELSE Locked("map", Do("startMapping", "-"))
                    \o Each(LAMBDA d: Locked(d, Do("startDetector", d))))
    BY <1>2, CalledModules
  <2>3. QED  BY <1>3, <2>1, <2>2 DEF Common
<1>12. CASE t = G /\ Grabbed
  <2>1. PICK after \in {Process \o Again, Again, Do("kill", "-")}
                    \cup (IF input = "loop" THEN {Again, Do("startTracking", "-") \o Again} ELSE {})
                    \cup (IF input = "svo" THEN {Do("stop", "-") \o Again} ELSE {}) :
          At(t, "grab") /\ camera = "open" /\ Continue(t, Do("unlock", "grab") \o after)
    BY <1>12 DEF Grabbed
  <2>2. Called(after)
    BY <2>1, CalledAfterGrab
  <2>3. Fits(t, "grab", Do("unlock", "grab") \o after)
    BY <1>12, <2>2 DEF Fits
  <2>4. Move(t)
    BY <2>1, <2>3 DEF Move
  <2>5. QED  BY <1>1, <2>1, <2>4, Quietly DEF Special
<1>13. CASE t = G /\ CheckStreaming
  <2>1. Called(IF "stream" \in wanted \ running THEN StartStreaming ELSE <<>>)
    BY <1>2, CalledStarts
  <2>2. QED  BY <1>3, <1>13, <2>1 DEF CheckStreaming, Common
<1>14. CASE t = G /\ RegionOfInterest
  BY <1>1, <1>14, MaybeMoves DEF RegionOfInterest, Common
<1>15. CASE t = X /\ (PubTemp \/ PubFusedPc \/ ClickedPoint)
  <2>1. Maybe(t, "temperature") \/ Maybe(t, "fused") \/ Maybe(t, "clicked")
    BY <1>15 DEF PubTemp, PubFusedPc, ClickedPoint
  <2>2. QED  BY <1>1, <2>1, MaybeMoves DEF Common
<1>16. CASE t = X /\ Register
  <2>1. At(t, "register") /\ Continue(t, <<>>)
    BY <1>16 DEF Register
  <2>2. Move(t)
    BY <2>1, MoveOn
  <2>3. Effect(t)
    BY <1>1, <2>1 DEF Effect, At
  <2>4. QED  BY <2>2, <2>3
<1>17. CASE t = X /\ EnableStreaming
  <2>1. Called(IF Arg(X) = ("stream" \in running) THEN <<>>
               ELSE IF Arg(X) THEN StartStreaming ELSE StopStreaming)
    BY <1>2, CalledStarts
  <2>2. QED  BY <1>3, <1>17, <2>1 DEF EnableStreaming, Common
<1>18. CASE t = X /\ Seek
  <2>1. Called(Do("use", "-") \o Locked("grab", Do("use", "-")) \o Do("reposition", "-") \o Do("replay", "-"))
    <3>1. Called(Locked("grab", Do("use", "-")))
      BY CalledGuarded DEF Args
    <3>2. Called(Do("use", "-") \o Locked("grab", Do("use", "-")))
      BY <1>2, <3>1, CalledConcat DEF Common, Args
    <3>3. QED  BY <1>2, <3>2, CalledConcat DEF Common, Args
  <2>2. QED  BY <1>2, <1>3, <1>18, <2>1 DEF Seek, Common
<1>19. CASE t = X /\ Reposition
  <2>1. PICK subs \in BOOLEAN :
          At(t, "reposition") /\ Continue(t, IF TrackingRequired(subs) THEN StartTracking ELSE <<>>)
    BY <1>19 DEF Reposition
  <2>2. Called(IF TrackingRequired(subs) THEN StartTracking ELSE <<>>)
    BY <1>2, CalledTracking
  <2>3. QED  BY <1>3, <2>1, <2>2 DEF Common
<1>20. CASE t = X /\ ResetTracking
  <2>1. Called(IF "pt" \in running THEN StartTracking ELSE <<>>)
    BY <1>2, CalledTracking
  <2>2. QED  BY <1>3, <1>20, <2>1 DEF ResetTracking, Common
<1>21. CASE t = X /\ (SetRoi \/ ResetRoi \/ Diagnose)
  <2>1. \E op \in {"roi", "resetRoi", "diagnose"}, yes \in BOOLEAN :
          At(t, op) /\ Continue(t, IF yes THEN Do("use", "-") ELSE <<>>)
    <3>1. CASE SetRoi
      <4>1. PICK polygon \in BOOLEAN :
              At(t, "roi") /\ Continue(t, IF polygon /\ ~noDepth THEN Do("use", "-") ELSE <<>>)
        BY <1>21, <3>1 DEF SetRoi
      <4>2. CASE polygon /\ ~noDepth
        BY <4>1, <4>2
      <4>3. CASE ~(polygon /\ ~noDepth)
        BY <4>1, <4>3
      <4>4. QED  BY <4>2, <4>3
    <3>2. CASE ResetRoi
      <4>1. At(t, "resetRoi") /\ Continue(t, IF noDepth THEN <<>> ELSE Do("use", "-"))
        BY <1>21, <3>2 DEF ResetRoi
      <4>2. CASE noDepth
        BY <4>1, <4>2
      <4>3. CASE ~noDepth
        BY <4>1, <4>3
      <4>4. QED  BY <4>2, <4>3
    <3>3. CASE Diagnose
      <4>1. At(t, "diagnose") /\ Continue(t, IF camera = "open" THEN Do("use", "-") ELSE <<>>)
        BY <1>21, <3>3 DEF Diagnose
      <4>2. CASE camera = "open"
        BY <4>1, <4>2
      <4>3. CASE camera # "open"
        BY <4>1, <4>3
      <4>4. QED  BY <4>2, <4>3
    <3>4. QED  BY <1>21, <3>1, <3>2, <3>3
  <2>2. Called(Do("use", "-"))
    BY <1>2 DEF Common, Args
  <2>3. QED  BY <1>2, <1>3, <2>1, <2>2 DEF Common
<1>22. CASE t = S /\ Quit
  <2>1. At(t, "quit") /\ Continue(t, IF Arg(t) \in running THEN Locked(Arg(t), Do("halt", Arg(t))) ELSE <<>>)
    BY <1>22 DEF Quit
  <2>2. Arg(t) \in Args /\ Arg(t) # "grab"
    BY <2>1, StepFacts
  <2>3. Called(IF Arg(t) \in running THEN Locked(Arg(t), Do("halt", Arg(t))) ELSE <<>>)
    BY <1>2, <2>2, CalledLocked DEF Common
  <2>4. Move(t)
    BY <2>1, <2>3, MoveCalled
  <2>5. QED  BY <1>1, <2>1, <2>4, Quietly DEF Special
<1>23. CASE t = S /\ Join
  <2>1. At(t, "join") /\ All \subseteq ended /\ Continue(t, <<>>)
    BY <1>23 DEF Join, All
  <2>2. Move(t)
    BY <2>1, MoveOn
  <2>3. Effect(t)
    BY <1>1, <1>23, <2>1 DEF Effect, At
  <2>4. QED  BY <2>2, <2>3
<1>24. CASE t = S /\ Spun
  <2>1. At(t, "spun") /\ todo[X] = <<>> /\ Continue(t, <<>>)
    BY <1>24 DEF Spun
  <2>2. Move(t)
    BY <2>1, MoveOn
  <2>3. Effect(t)
    BY <1>1, <1>24, <2>1 DEF Effect, At
  <2>4. QED  BY <2>2, <2>3
<1>25. QED
  <2>1. \/ Acquire(t)
        \/ At(t, "startTracking") /\ Continue(t, StartTrackingLocked)
        \/ At(t, "use") /\ camera = "open" /\ Continue(t, <<>>)
        \/ CheckMapping(t) \/ CheckDetector(t) \/ SaveArea(t)
        \/ t = G /\ (CheckTracking \/ CheckModules \/ Grabbed \/ CheckStreaming \/ RegionOfInterest)
        \/ t = X /\ (Register \/ EnableStreaming \/ Seek \/ Reposition \/ ResetTracking \/ SetRoi
                     \/ ResetRoi \/ PubTemp \/ PubFusedPc \/ ClickedPoint \/ Diagnose)
        \/ t = S /\ (Quit \/ Join \/ Spun)
    BY DEF Calls
  <2>2. QED
    BY <1>4, <1>5, <1>6, <1>7, <1>8, <1>9, <1>10, <1>11, <1>12, <1>13, <1>14, <1>15, <1>16, <1>17,
       <1>18, <1>19, <1>20, <1>21, <1>22, <1>23, <1>24, <2>1

LEMMA AnyStepMoves ==
  ASSUME NEW t \in Threads, Shaped, AnyStep(t)
  PROVE  (Move(t) /\ Effect(t)) \/ Rests
<1>1. CASE Calls(t)
  BY <1>1, CallsMove
<1>2. CASE NullCamera(t)
  BY <1>2 DEF NullCamera, Rests, At, control
<1>3. CASE Enable(t)
  <2>1. /\ At(t, "enable") /\ Continue(t, <<>>) /\ UNCHANGED <<camera, ended, deinit>>
        /\ sdk' = sdk \cup {Arg(t)} \/ sdk' = sdk
    BY <1>3 DEF Enable, endVars
  <2>2. Effect(t)
    BY <2>1 DEF Effect, At
  <2>3. QED  BY <2>1, <2>2, MoveOn
<1>4. CASE Disable(t)
  <2>1. /\ At(t, "disable") /\ Continue(t, <<>>) /\ UNCHANGED <<camera, ended, deinit>>
        /\ sdk' = sdk \ {Arg(t)}
    BY <1>4 DEF Disable, endVars
  <2>2. Effect(t)
    BY <2>1 DEF Effect, At
  <2>3. QED  BY <2>1, <2>2, MoveOn
<1>5. CASE Started(t) \/ Stopped(t) \/ Unwanted(t) \/ StopThreads(t)
  <2>1. \E op \in {"started", "stopped", "unwanted", "stop"} :
          /\ At(t, op) /\ Continue(t, <<>>) /\ UNCHANGED <<camera, ended, deinit>> /\ sdk' = sdk
    BY <1>5 DEF Started, Stopped, Unwanted, StopThreads, endVars
  <2>2. QED  BY <2>1, MoveOn, Quietly DEF Special
<1>6. CASE Halt(t)
  <2>1. At(t, "halt") /\ UNCHANGED <<camera, ended, deinit>> /\ sdk' = sdk
    BY <1>6 DEF Halt, endVars
  <2>2. Arg(t) \in Args
    BY <2>1, StepFacts
  <2>3. Called(IF Arg(t) = "map" THEN Do("disable", "map") ELSE Locked("grab", Do("disable", Arg(t))))
    <3>1. Called(Do("disable", "map"))
      BY CalledSwitch, Names DEF Safe, Args
    <3>2. Called(Locked("grab", Do("disable", Arg(t))))
      BY <2>2, CalledGuarded DEF Plain
    <3>3. QED  BY <3>1, <3>2
  <2>4. \/ Continue(t, IF Arg(t) = "map" THEN Do("disable", "map") ELSE Locked("grab", Do("disable", Arg(t))))
        \/ Continue(t, <<>>)
    BY <1>6 DEF Halt
  <2>5. Move(t)
    BY <2>1, <2>3, <2>4, MoveOn, MoveCalled DEF Plain
  <2>6. QED  BY <2>1, <2>5, Quietly DEF Special
<1>7. QED  BY <1>1, <1>2, <1>3, <1>4, <1>5, <1>6 DEF AnyStep

LEMMA GrabMoves ==
  ASSUME Shaped, Top \/ CountFailure \/ Kill \/ Begin \/ OneTop \/ End
  PROVE  (Move(G) /\ Effect(G)) \/ Rests
<1> G \in Threads
  BY DEF Threads
<1>1. CASE Top
  <2>1. /\ At(G, "top") /\ UNCHANGED <<camera, deinit>> /\ sdk' = sdk /\ ended \subseteq ended'
        /\ Continue(G, <<>>) \/ Continue(G, Iteration)
    BY <1>1 DEF Top
  <2>2. Effect(G)
    BY <2>1 DEF Effect, At
  <2>3. QED  BY <2>1, <2>2, MoveOn, MoveCalled, CalledIteration DEF Plain
<1>2. CASE CountFailure
  <2>1. At(G, "count") /\ Continue(G, <<>>) /\ UNCHANGED <<camera, ended, deinit>> /\ sdk' = sdk
    BY <1>2 DEF CountFailure
  <2>2. QED  BY <2>1, MoveOn, Quietly DEF Special
<1>3. CASE Kill
  BY <1>3 DEF Kill, Rests, At, control
<1>4. CASE Begin
  <2>1. /\ At(G, "begin") /\ Continue(G, Do("oneTop", "-")) /\ UNCHANGED <<camera, ended, deinit>>
        /\ sdk' = sdk
    BY <1>4 DEF Begin
  <2>2. Called(Do("oneTop", "-"))
    BY CalledDo DEF Common, Args
  <2>3. QED  BY <2>1, <2>2, MoveCalled, Quietly DEF Special, Plain
<1>5. CASE OneTop
  <2>1. /\ At(G, "oneTop") /\ UNCHANGED <<camera, ended, deinit>> /\ sdk' = sdk
        /\ \/ Continue(G, Farewell)
           \/ \E settings \in {Do("use", "-"), <<>>} : Continue(G, settings \o Do("fetch", "-"))
    BY <1>5 DEF OneTop
  <2>2. Called(Do("use", "-")) /\ Called(Do("fetch", "-"))
    BY CalledDo DEF Common, Args
  <2>3. \A settings \in {Do("use", "-"), <<>>} : Called(settings \o Do("fetch", "-"))
    BY <2>2, CalledEmpty, CalledConcat
  <2>4. Move(G)
    BY <2>1, <2>3, CalledOne, MoveCalled DEF Plain
  <2>5. QED  BY <2>1, <2>4, Quietly DEF Special
<1>6. CASE End
  <2>1. /\ At(G, "end") /\ Continue(G, <<>>) /\ UNCHANGED <<camera, deinit>> /\ sdk' = sdk
        /\ ended \subseteq ended'
    BY <1>6 DEF End
  <2>2. Effect(G)
    BY <2>1 DEF Effect, At
  <2>3. QED  BY <2>1, <2>2, MoveOn
<1>7. QED  BY <1>1, <1>2, <1>3, <1>4, <1>5, <1>6

LEMMA ServiceMoves ==
  ASSUME Shaped,
         \/ Connect \/ Configure \/ Launch \/ EnableDepth \/ EnableDetector \/ EnableMapping
         \/ Record \/ PauseSvo \/ Replay \/ Open \/ OneReplay
  PROVE  Move(X) /\ Effect(X)
<1> X \in Threads
  BY DEF Threads
<1> USE DEF Plain
<1>1. Called(<<>>) /\ \A op \in Common, arg \in Args : Called(Do(op, arg))
  BY CalledEmpty, CalledDo
<1>2. CASE Connect
  <2>1. /\ At(X, "connect") /\ Continue(X, <<>>) /\ UNCHANGED <<ended, deinit>> /\ sdk' = sdk
        /\ camera' = "open" \/ (exited' = "exit" /\ camera' = camera)
    BY <1>2 DEF Connect
  <2>2. Effect(X)
    BY <2>1 DEF Effect, At
  <2>3. QED  BY <2>1, <2>2, MoveOn
<1>3. CASE Configure
  <2>1. /\ At(X, "configure") /\ UNCHANGED <<camera, ended, deinit>> /\ sdk' = sdk
        /\ Continue(X, IF input = "live" THEN Locked("pt", Do("use", "-")) ELSE <<>>)
    BY <1>3 DEF Configure, DefaultSettings, DummyGrab
  <2>2. Called(IF input = "live" THEN Locked("pt", Do("use", "-")) ELSE <<>>)
    BY <1>1, CalledLocked DEF Common, Args
  <2>3. QED  BY <2>1, <2>2, MoveCalled, Quietly DEF Special
<1>4. CASE Launch
  <2>1. /\ At(X, "launch") /\ Continue(X, <<>>) /\ UNCHANGED <<camera, deinit>> /\ sdk' = sdk
    BY <1>4 DEF Launch
  <2>2. Effect(X)
    BY <2>1 DEF Effect, At
  <2>3. QED  BY <2>1, <2>2, MoveOn
<1>5. CASE EnableDepth \/ PauseSvo \/ Replay \/ OneReplay
  <2>1. \E op \in {"depth", "pause", "replay", "oneReplay"} :
          /\ At(X, op) /\ Continue(X, <<>>) /\ UNCHANGED <<camera, ended, deinit>> /\ sdk' = sdk
    BY <1>5 DEF EnableDepth, PauseSvo, Replay, OneReplay, endVars
  <2>2. QED  BY <2>1, MoveOn, Quietly DEF Special
<1>6. CASE EnableDetector
  <2>1. /\ At(X, "detect") /\ UNCHANGED <<camera, ended, deinit>> /\ sdk' = sdk
        /\ Continue(X, IF Arg(X) \in wanted \cap running THEN <<>> ELSE Do("startDetector", Arg(X)))
    BY <1>6 DEF EnableDetector, endVars
  <2>2. Arg(X) \in Args
    BY <2>1, StepFacts
  <2>3. Called(IF Arg(X) \in wanted \cap running THEN <<>> ELSE Do("startDetector", Arg(X)))
    BY <1>1, <2>2 DEF Common
  <2>4. QED  BY <2>1, <2>3, MoveCalled, Quietly DEF Special
<1>7. CASE EnableMapping
  <2>1. /\ At(X, "mapping") /\ UNCHANGED <<camera, ended, deinit>> /\ sdk' = sdk
    BY <1>7 DEF EnableMapping, endVars
  <2>2. \E steps \in {<<>>, Do("startMapping", "-"), Do("halt", "map")} : Continue(X, steps)
    <3>1. CASE Arg(X)
      <4>1. Continue(X, IF "map" \in wanted \cap running THEN <<>> ELSE Do("startMapping", "-"))
        BY <1>7, <3>1 DEF EnableMapping
      <4>2. QED  BY <4>1
    <3>2. CASE ~Arg(X)
      BY <1>7, <3>2 DEF EnableMapping
    <3>3. QED  BY <3>1, <3>2
  <2>3. \A steps \in {<<>>, Do("startMapping", "-"), Do("halt", "map")} : Called(steps)
    BY <1>1 DEF Common, Args
  <2>4. QED  BY <2>1, <2>2, <2>3, MoveCalled, Quietly DEF Special
<1>8. CASE Record
  <2>1. /\ At(X, "record") /\ UNCHANGED <<camera, ended, deinit>> /\ sdk' = sdk
        /\ Continue(X, IF input # "live" \/ Arg(X) = ("rec" \in running) THEN <<>>
                       ELSE IF Arg(X) THEN StartRecording
                            ELSE Do("disable", "rec"))
    BY <1>8 DEF Record, endVars
  <2>2. Called(StartRecording) /\ Called(Do("disable", "rec"))
    <3>1. \A op \in {"enable", "disable"} : Called(Do(op, "rec"))
      BY CalledSwitch, Names DEF Safe, Args
    <3>2. QED  BY <1>1, <3>1, CalledConcat DEF StartRecording, Common, Args
  <2>3. Called(IF input # "live" \/ Arg(X) = ("rec" \in running) THEN <<>>
               ELSE IF Arg(X) THEN StartRecording ELSE Do("disable", "rec"))
    BY <1>1, <2>2
  <2>4. QED  BY <2>1, <2>3, MoveCalled, Quietly DEF Special
<1>9. CASE Open
  <2>1. /\ At(X, "open") /\ Continue(X, <<>>) /\ deinit' = deinit /\ sdk' = sdk
        /\ camera' = "open" \/ UNCHANGED <<camera, ended>>
    BY <1>9 DEF Open, OpenCamera
  <2>2. Effect(X)
    BY <2>1 DEF Effect, At
  <2>3. QED  BY <2>1, <2>2, MoveOn
<1>10. QED  BY <1>2, <1>3, <1>4, <1>5, <1>6, <1>7, <1>8, <1>9

LEMMA ShutdownMoves ==
  ASSUME Shaped, CloseCamera \/ ContextDown
  PROVE  Move(S) /\ Effect(S)
<1> S \in Threads
  BY DEF Threads
<1>1. CASE CloseCamera
  <2>1. At(S, "close") /\ Continue(S, <<>>) /\ UNCHANGED <<ended, deinit>> /\ sdk' = sdk
    BY <1>1 DEF CloseCamera
  <2>2. Effect(S)
    BY <2>1 DEF Effect, At
  <2>3. QED  BY <2>1, <2>2, MoveOn
<1>2. CASE ContextDown
  <2>1. At(S, "down") /\ Continue(S, <<>>) /\ UNCHANGED <<camera, ended, deinit>> /\ sdk' = sdk
    BY <1>2 DEF ContextDown
  <2>2. QED  BY <2>1, MoveOn, Quietly DEF Special
<1>3. QED  BY <1>1, <1>2

LEMMA OneCallsMove ==
  ASSUME NEW t \in Threads, Shaped, OneCalls(t)
  PROVE  Move(t) /\ Effect(t)
<1> USE DEF Plain
<1>1. UNCHANGED <<camera, ended, deinit>> /\ sdk' = sdk
  BY DEF OneCalls, endVars
<1>2. Called(<<>>) /\ \A op \in Common, arg \in Args : Called(Do(op, arg))
  BY CalledEmpty, CalledDo
<1>3. ASSUME NEW op, At(t, op), NEW steps, Called(steps), Continue(t, steps), op \in Common \ Plain
      PROVE  Move(t) /\ Effect(t)
  <2>1. op \notin Plain \cup {"lock", "grab"} \cup Special
    BY <1>3 DEF Common, Special
  <2>2. QED  BY <1>1, <1>3, <2>1, MoveCalled, Quietly
<1>4. CASE Report(t)
  <2>1. Called(IF "stream" \in running THEN Do("use", "-") ELSE <<>>)
    BY <1>2 DEF Common, Args
  <2>2. QED  BY <1>3, <1>4, <2>1 DEF Report, Common
<1>5. CASE t = G /\ Fetch
  <2>1. Called(Do("use", "-") \o Do("grabbed", "-"))
    BY <1>2, CalledConcat DEF Common, Args
  <2>2. Called(IF paused THEN Rest ELSE Do("use", "-") \o Do("grabbed", "-"))
    BY <2>1, CalledOne
  <2>3. QED  BY <1>3, <1>5, <2>2 DEF Fetch, Common
<1>6. CASE t = G /\ OneGrabbed
  <2>1. At(t, "grabbed")
    BY <1>6 DEF OneGrabbed
  <2>2. PICK after \in {Frame, Do("kill", "-")}
                    \cup (IF input = "loop" THEN {Do("use", "-") \o Frame} ELSE {})
                    \cup (IF input = "svo"
                          THEN {Do("stop", "-") \o Farewell,
                                Do("stop", "-") \o Do("use", "-") \o Do("report", "-") \o Frame}
                          ELSE {}) : Continue(t, after)
    BY <1>6 DEF OneGrabbed
  <2>3. Called(after)
    BY <2>2, CalledAfterOneGrab
  <2>4. QED  BY <1>3, <2>1, <2>2, <2>3 DEF Common
<1>7. CASE t = G /\ RecordingStatus
  <2>1. Called(IF "rec" \in running THEN Do("use", "-") ELSE <<>>)
    BY <1>2 DEF Common, Args
  <2>2. QED  BY <1>3, <1>7, <2>1 DEF RecordingStatus, Common
<1>8. CASE t = G /\ Images
  BY <1>1, <1>8, MaybeMoves DEF Images, Common
<1>9. CASE t = X /\ OneSeek
  <2>1. PICK valid \in BOOLEAN :
          /\ At(t, "oneSeek")
          /\ Continue(t, Do("use", "-")
                           \o (IF valid THEN Do("use", "-") \o Do("oneReplay", "-") ELSE <<>>))
    BY <1>9 DEF OneSeek
  <2>2. Called(Do("use", "-")) /\ Called(Do("oneReplay", "-"))
    BY <1>2 DEF Common, Args
  <2>3. Called(IF valid THEN Do("use", "-") \o Do("oneReplay", "-") ELSE <<>>)
    BY <1>2, <2>2, CalledConcat
  <2>4. Called(Do("use", "-") \o (IF valid THEN Do("use", "-") \o Do("oneReplay", "-") ELSE <<>>))
    BY <2>2, <2>3, CalledConcat
  <2>5. QED  BY <1>3, <2>1, <2>4 DEF Common
<1>10. QED  BY <1>4, <1>5, <1>6, <1>7, <1>8, <1>9 DEF OneCalls

\* What a step of either node is.
LEMMA NodesStep ==
  ASSUME Shaped, NodesNext
  PROVE  (\E t \in Threads : Move(t) /\ Effect(t)) \/ Rests \/ Calling \/ Interrupting
<1> G \in Threads /\ X \in Threads /\ S \in Threads
  BY DEF Threads
<1>1. CASE NodeGrabStep
  <2>1. AnyStep(G) \/ OneCalls(G) \/ Top \/ CountFailure \/ Kill \/ Begin \/ OneTop \/ End
    BY <1>1 DEF NodeGrabStep, Zed, One, GrabStep
  <2>2. QED  BY <2>1, AnyStepMoves, OneCallsMove, GrabMoves
<1>2. CASE NodeServiceStep
  <2>1. \/ AnyStep(X) \/ OneCalls(X)
        \/ Connect \/ Configure \/ Launch \/ EnableDepth \/ EnableDetector \/ EnableMapping
        \/ Record \/ PauseSvo \/ Replay \/ Open \/ OneReplay
    BY <1>2 DEF NodeServiceStep, Zed, One, ServiceStep
  <2>2. QED  BY <2>1, AnyStepMoves, OneCallsMove, ServiceMoves
<1>3. CASE NodeShutdownStep
  <2>1. AnyStep(S) \/ OneCalls(S) \/ CloseCamera \/ ContextDown
    BY <1>3 DEF NodeShutdownStep, Zed, One, ShutdownStep
  <2>2. QED  BY <2>1, AnyStepMoves, OneCallsMove, ShutdownMoves
<1>4. CASE NodeWorkersEnd \/ Zed(Sense) \/ One(Sense)
  <2>1. WorkersEnd \/ Sense
    BY <1>4 DEF NodeWorkersEnd, SensorsEnd, Zed, One
  <2>2. Rests
    BY <2>1 DEF WorkersEnd, Sense, ReadSensors, Rests, control
  <2>3. QED  BY <2>2
<1>5. CASE Zed(Call)
  <2>1. /\ exited = "no" /\ todo[X] = <<>> /\ UNCHANGED <<lock, sdk, camera, ended, deinit>>
        /\ \E c \in Services \cup Callbacks : todo' = [todo EXCEPT ![X] = c]
    BY <1>5 DEF Zed, Call, endVars
  <2>2. QED  BY <2>1, CalledServices DEF Calling
<1>6. CASE One(OneCall)
  <2>1. /\ exited = "no" /\ todo[X] = <<>> /\ UNCHANGED <<lock, sdk, camera, ended, deinit>>
        /\ \E c \in OneServices : todo' = [todo EXCEPT ![X] = c]
    BY <1>6 DEF One, OneCall, endVars
  <2>2. QED  BY <2>1, CalledOneServices DEF Calling
<1>7. CASE Zed(Interrupt) \/ One(OneInterrupt)
  BY <1>7 DEF Zed, One, Interrupt, OneInterrupt, Interrupted, Interrupting
<1>8. QED  BY <1>1, <1>2, <1>3, <1>4, <1>5, <1>6, <1>7 DEF NodesNext

-----------------------------------------------------------------------------
(* No module is switched during a grab.                                    *)

LEMMA GoodReady ==
  ASSUME NEW s, Good(s)
  PROVE  Ready(s) /\ s \in Seq(StepSet)
  BY DEF Good, Ready, Nested

LEMMA GoodStart == Good(StartCamera) /\ Good(Do("open", "-") \o Do("register", "-"))
  BY GoodDo, GoodConcat DEF StartCamera, Common, Special, Args

LEMMA GoodDeInit ==
  /\ Good(DeInit) /\ Good(OneDeInit)
  /\ Good(Do("spun", "-") \o DeInit) /\ Good(Do("spun", "-") \o OneDeInit)
<1>1. Good(<<>>) /\ \A op \in Common \cup Special : Good(Do(op, "-"))
  BY CalledEmpty, GoodDo DEF Called, Args
<1>2. Good(Do("quit", "obj")) /\ Good(Do("quit", "body")) /\ Good(Do("quit", "map"))
  BY GoodQuit DEF Args
<1>3. Good(Each(LAMBDA d: Do("quit", d)))
  BY <1>1, <1>2, GoodConcat DEF Each
<1>4. Good(Locked("close", Do("save", "-") \o Do("close", "-")))
  <2>1. Good(Do("save", "-") \o Do("close", "-"))
    BY <1>1, GoodConcat DEF Common, Special
  <2>2. QED  BY <2>1, GoodLocked DEF Args
<1>5. Good(Each(LAMBDA d: Do("quit", d)) \o Do("quit", "map"))
  BY <1>2, <1>3, GoodConcat
<1>6. /\ Good(Do("stop", "-")) /\ Good(Do("join", "-")) /\ Good(Do("close", "-"))
      /\ Good(Do("down", "-")) /\ Good(Do("spun", "-"))
  BY <1>1 DEF Common, Special
<1>7. Good(DeInit) /\ Good(OneDeInit)
  BY <1>4, <1>5, <1>6, GoodConcat DEF DeInit, OneDeInit
<1>8. QED  BY <1>6, <1>7, GoodConcat

\* A thread in grab() holds mGrabMutex.
GrabInv ==
  /\ Shaped /\ lock \in [Locks -> Threads \cup {None}]
  /\ InGrab => lock["grab"] = G

LEMMA GrabInit == NodesInit => GrabInv
<1> SUFFICES ASSUME NodesInit PROVE GrabInv
  OBVIOUS
<1>1. lock = [l \in Locks |-> None]
  BY DEF NodesInit, ZedInit, OneInit
<1>2. /\ todo \in [Threads -> {todo[t] : t \in Threads}]
      /\ \A t \in Threads : \/ t = G /\ (todo[t] = Do("top", "-") \/ todo[t] = Do("begin", "-"))
                            \/ t # G /\ \/ todo[t] = StartCamera
                                        \/ todo[t] = Do("open", "-") \o Do("register", "-")
                                        \/ todo[t] = <<>>
  <2>1. CASE ZedInit
    BY <2>1 DEF ZedInit
  <2>2. CASE OneInit
    BY <2>2 DEF OneInit
  <2>3. QED  BY <2>1, <2>2 DEF NodesInit
<1>3. Good(Do("top", "-")) /\ Good(Do("begin", "-")) /\ Good(<<>>)
  BY GoodDo, CalledEmpty DEF Common, Args, Called
<1>4. \A t \in Threads : Good(todo[t])
  BY <1>2, <1>3, GoodStart
<1>5. Shaped
  BY <1>2, <1>4, GoodReady DEF Shaped
<1>6. ~InGrab
  <2>1. G \in Threads
    BY DEF Threads
  <2>2. Good(todo[G]) /\ (todo[G] # <<>> => Head(todo[G]) = todo[G][1])
    BY <1>4, <2>1, GoodReady
  <2>3. QED  BY <2>2, GoodHalf DEF InGrab
<1>7. QED  BY <1>1, <1>5, <1>6 DEF GrabInv

LEMMA GrabNext == GrabInv /\ [NodesNext]_nodeVars => GrabInv'
<1> SUFFICES ASSUME GrabInv, [NodesNext]_nodeVars PROVE GrabInv'
  OBVIOUS
<1>1. Shaped /\ lock \in [Locks -> Threads \cup {None}] /\ (InGrab => lock["grab"] = G)
  BY DEF GrabInv
<1>2. G \in Threads /\ X \in Threads /\ S \in Threads /\ G # X /\ G # S /\ None \notin Threads
  BY ZedControlAssumption DEF Threads, G, X, S, ZedControlAssumption
<1>3. todo \in [Threads -> Seq(StepSet)] /\ \A t \in Threads : Ready(todo[t])
  BY <1>1 DEF Shaped
<1>4. InGrab <=> todo[G] # <<>> /\ todo[G][1].op = "grab"
  BY <1>2, <1>3 DEF InGrab
<1>5. Shaped' => (InGrab' <=> todo'[G] # <<>> /\ todo'[G][1].op = "grab")
  BY <1>2 DEF InGrab, Shaped
<1>6. CASE UNCHANGED nodeVars \/ Rests
  <2>1. todo' = todo /\ lock' = lock
    BY <1>6 DEF nodeVars, zedVars, control, Rests
  <2>2. Shaped' /\ (InGrab' <=> InGrab)
    BY <1>1, <2>1 DEF Shaped, InGrab
  <2>3. QED  BY <1>1, <2>1, <2>2 DEF GrabInv
<1>7. ASSUME NEW t \in Threads, Move(t) PROVE GrabInv'
  <2>1. /\ Shaped' /\ todo' = [todo EXCEPT ![t] = todo'[t]]
        /\ todo'[t] # <<>> /\ todo'[t][1].op = "grab" => lock'["grab"] = t
        /\ lock["grab"] \notin {t, None} /\ t # G => lock'["grab"] = lock["grab"]
        /\ lock' \in [Locks -> Threads \cup {None}]
    BY <1>1, <1>7, MoveReady
  <2>2. InGrab' => lock'["grab"] = G
    <3>1. CASE t = G
      BY <1>5, <2>1, <3>1
    <3>2. CASE t # G
      <4>1. todo'[G] = todo[G]
        BY <1>2, <1>3, <2>1, <3>2
      <4>2. QED  BY <1>1, <1>2, <1>4, <1>5, <2>1, <3>2, <4>1
    <3>3. QED  BY <3>1, <3>2
  <2>3. QED  BY <2>1, <2>2 DEF GrabInv
<1>8. ASSUME NEW t \in {X, S}, NEW c, Good(c), todo' = [todo EXCEPT ![t] = c], lock' = lock
      PROVE  GrabInv'
  <2>1. Ready(c) /\ c \in Seq(StepSet)
    BY <1>8, GoodReady
  <2>2. Shaped'
    <3>1. todo' \in [Threads -> Seq(StepSet)] /\ \A u \in Threads : todo'[u] = IF u = t THEN c ELSE todo[u]
      BY <1>2, <1>3, <1>8, <2>1
    <3>2. QED  BY <1>3, <2>1, <3>1 DEF Shaped
  <2>3. todo'[G] = todo[G]
    BY <1>2, <1>3, <1>8
  <2>4. InGrab' <=> InGrab
    BY <1>4, <1>5, <2>2, <2>3
  <2>5. QED  BY <1>1, <1>8, <2>2, <2>4 DEF GrabInv
<1>9. CASE Calling
  <2>1. PICK c : Called(c) /\ todo' = [todo EXCEPT ![X] = c]
    BY <1>9 DEF Calling
  <2>2. QED  BY <1>8, <1>9, <2>1 DEF Calling, Called
<1>10. CASE Interrupting
  <2>1. PICK steps \in {DeInit, OneDeInit} :
          todo' = [todo EXCEPT ![S] = (IF Hooked THEN <<>> ELSE Do("spun", "-")) \o steps]
    BY <1>10 DEF Interrupting
  <2>2. Good((IF Hooked THEN <<>> ELSE Do("spun", "-")) \o steps)
    BY <2>1, GoodDeInit, GoodConcat, CalledEmpty DEF Called
  <2>3. QED  BY <1>8, <1>10, <2>1, <2>2 DEF Interrupting
<1>11. QED  BY <1>1, <1>6, <1>7, <1>9, <1>10, NodesStep

\* Tracking, object detection and body tracking are switched only while no
\* grab() is in progress, whichever thread switches them: the SDK is called
\* between the lock and the unlock of mGrabMutex.
THEOREM NodesSafeGrab == NodesFairSpec => SafeGrab
<1>1. NodesInit => GrabInv
  BY GrabInit
<1>2. GrabInv /\ [NodesNext]_nodeVars => GrabInv'
  BY GrabNext
<1>3. GrabInv /\ [NodesNext]_nodeVars
      => [InGrab /\ InGrab' => \A m \in Detectors \cup {"pt"} : m \in sdk' <=> m \in sdk]_zedVars
  <2> SUFFICES ASSUME GrabInv, [NodesNext]_nodeVars, InGrab, NEW m \in Safe
               PROVE  UNCHANGED zedVars \/ (m \in sdk' <=> m \in sdk)
    BY DEF Safe
  <2>1. Shaped /\ lock["grab"] = G /\ G # None
    BY ZedControlAssumption DEF GrabInv, ZedControlAssumption, Threads
  <2>2. CASE UNCHANGED nodeVars
    BY <2>2 DEF nodeVars
  <2>3. CASE Rests \/ Calling \/ Interrupting
    BY <2>3 DEF Rests, Calling, Interrupting
  <2>4. ASSUME NEW t \in Threads, Move(t), Effect(t) PROVE m \in sdk' <=> m \in sdk
    <3> SUFFICES ASSUME ~(m \in sdk' <=> m \in sdk) PROVE FALSE
      OBVIOUS
    <3> DEFINE s == todo[t]
    <3>1. Step(t).op \in {"enable", "disable"} /\ Step(t).arg \in Safe
      BY <2>4 DEF Effect, Arg
    <3>2. PICK op : At(t, op)
      BY <2>4 DEF Move
    <3>3. /\ s # <<>> /\ Ready(s) /\ Step(t) = s[IF IsGuarded(s) THEN 2 ELSE 1]
          /\ \A l \in Taken(t) : lock[l] = None
          /\ s[1].op = "lock" => Taken(t) = {s[1].arg}
      BY <2>1, <3>2, StepFacts
    <3>4. (IF IsGuarded(s) THEN 2 ELSE 1) \in DOMAIN s
      <4>1. After(s) <= Len(s) + 1 /\ Len(s) \in Nat /\ DOMAIN s = 1..Len(s)
        BY <3>3, BehindFacts
      <4>2. QED  BY <4>1 DEF After
    <3>5. IsGuarded(s) /\ s[1] = L
      BY <3>1, <3>3, <3>4 DEF Ready, Nested
    <3>6. lock["grab"] = None
      BY <3>3, <3>5 DEF L
    <3>7. QED  BY <2>1, <3>6
  <2>5. QED  BY <2>1, <2>2, <2>3, <2>4, NodesStep
<1>4. QED  BY <1>1, <1>2, <1>3, PTL DEF NodesFairSpec, SafeGrab

-----------------------------------------------------------------------------
(* The camera is closed behind the threads.                                *)

\* A step takes special steps from the sequence, and adds none.
Shifted(s, r, d) ==
  /\ \A i \in DOMAIN r : r[i].op \in Special =>
       i + d \in DOMAIN s /\ i + d >= After(s) /\ s[i + d] = r[i]
  /\ \A j \in DOMAIN s : j >= After(s) /\ s[j].op \in Special =>
       j - d \in DOMAIN r /\ r[j - d] = s[j]

LEMMA FitsPlain ==
  ASSUME NEW t, NEW op, NEW steps, Fits(t, op, steps)
  PROVE  steps \in Seq(StepSet) /\ \A i \in DOMAIN steps : steps[i].op \notin Special
<1>1. CASE steps = <<>>
  BY <1>1
<1>2. CASE Called(steps)
  BY <1>2 DEF Called, Good, Nested
<1>3. CASE \E c : Called(c) /\ steps = Do("unlock", "grab") \o c
  <2>1. PICK c : Called(c) /\ steps = Do("unlock", "grab") \o c
    BY <1>3
  <2>2. [op |-> "unlock", arg |-> "grab"] \in StepSet
    BY DEF StepSet, Args
  <2>3. PICK u : u = Do("unlock", "grab")
    OBVIOUS
  <2>4. u \in Seq(StepSet) /\ Len(u) = 1 /\ u[1].op = "unlock" /\ c \in Seq(StepSet)
    BY <2>1, <2>2, <2>3, DoFacts DEF Called, Good, Nested
  <2>5. /\ steps \in Seq(StepSet) /\ DOMAIN steps = 1..(Len(u) + Len(c)) /\ Len(c) \in Nat /\ DOMAIN c = 1..Len(c)
        /\ \A j \in 1..(Len(u) + Len(c)) : steps[j] = IF j <= Len(u) THEN u[j] ELSE c[j - Len(u)]
    <3>1. steps = u \o c
      BY <2>1, <2>3
    <3>2. u \in Seq(StepSet) /\ c \in Seq(StepSet)
      BY <2>4
    <3>3. QED  BY <3>1, <3>2, ConcatFacts
  <2>6. ASSUME NEW i \in DOMAIN steps PROVE steps[i].op \notin Special
    <3>1. CASE i = 1
      <4>1. steps[i].op = "unlock"
        BY <2>4, <2>5, <3>1
      <4>2. QED  BY <4>1 DEF Special
    <3>2. CASE i # 1
      <4>1. i - 1 \in DOMAIN c /\ steps[i] = c[i - 1]
        BY <2>4, <2>5, <3>2
      <4>2. QED  BY <2>1, <4>1 DEF Called
    <3>3. QED  BY <3>1, <3>2
  <2>7. QED  BY <2>5, <2>6
<1>4. QED  BY <1>1, <1>2, <1>3 DEF Fits

\* Steps without a special one; a sequence less its first n, which are unlocks.
Unspecial(steps) == steps \in Seq(StepSet) /\ \A i \in DOMAIN steps : steps[i].op \notin Special
Cut(next, n, r) ==
  /\ next \in Seq(StepSet) /\ \A j \in 1..n : next[j].op = "unlock"
  /\ r \in Seq(StepSet) /\ Len(r) = Len(next) - n
  /\ \A j \in 1..(Len(next) - n) : r[j] = next[n + j]

LEMMA ShiftFacts ==
  ASSUME NEW s, Ready(s), s # <<>>, NEW steps, Unspecial(steps),
         NEW next, next = steps \o Behind(s), NEW n \in Nat, n <= Len(next), NEW r, Cut(next, n, r)
  PROVE  \E d \in Int : Shifted(s, r, d)
<1> DEFINE k == After(s)
           m == Len(steps)
           len == Len(s)
           d == n - m + k - 1
<1>1. /\ k \in {2, 3} /\ k <= len + 1 /\ len \in Nat /\ m \in Nat
      /\ Len(Behind(s)) = len - k + 1 /\ Behind(s) \in Seq(StepSet)
      /\ DOMAIN s = 1..len /\ DOMAIN steps = 1..m
      /\ \A j \in 1..(len - k + 1) : Behind(s)[j] = s[j + k - 1]
  BY BehindFacts DEF Unspecial
<1>2. /\ Len(next) = m + Len(Behind(s))
      /\ \A j \in 1..(m + Len(Behind(s))) : next[j] = IF j <= m THEN steps[j] ELSE Behind(s)[j - m]
  <2>1. PICK b : b = Behind(s)
    OBVIOUS
  <2>2. b \in Seq(StepSet) /\ next = steps \o b
    BY <1>1, <2>1
  <2>0. steps \in Seq(StepSet)
    BY DEF Unspecial
  <2>3. Len(next) = m + Len(b) /\ \A j \in 1..(m + Len(b)) : next[j] = IF j <= m THEN steps[j] ELSE b[j - m]
    BY <2>0, <2>2, ConcatFacts
  <2>4. QED  BY <2>1, <2>3
<1>3. /\ Len(next) = m + (len - k + 1) /\ len - k + 1 \in Nat
      /\ \A j \in 1..m : next[j] = steps[j]
      /\ \A j \in 1..(len - k + 1) : next[m + j] = s[j + k - 1]
  <2>1. Len(next) = m + (len - k + 1) /\ len - k + 1 \in Nat
    BY <1>1, <1>2
  <2>2. \A j \in 1..m : next[j] = steps[j]
    BY <1>1, <1>2, <2>1
  <2>3. ASSUME NEW j \in 1..(len - k + 1) PROVE next[m + j] = s[j + k - 1]
    <3>1. m + j \in 1..(m + Len(Behind(s))) /\ ~(m + j <= m) /\ (m + j) - m = j
      BY <1>1
    <3>2. QED  BY <1>1, <1>2, <3>1
  <2>4. QED  BY <2>1, <2>2, <2>3
<1>4. k \in Int /\ k >= 2 /\ k <= len + 1 /\ len \in Nat /\ m \in Nat /\ Len(next) = m + (len - k + 1)
  BY <1>1, <1>3
<1>5. DOMAIN s = 1..len
  BY <1>1
<1>6. DOMAIN r = 1..(Len(next) - n)
  BY DEF Cut
<1>7. d = n - m + k - 1
  OBVIOUS
<1> HIDE DEF k, m, len, d
<1>8. ASSUME NEW i \in DOMAIN r, r[i].op \in Special
      PROVE  i + d \in DOMAIN s /\ i + d >= k /\ s[i + d] = r[i]
  <2>1. r[i] = next[n + i] /\ i \in Nat /\ i >= 1 /\ n + i <= m + (len - k + 1)
    <3>1. i \in 1..(Len(next) - n) /\ r[i] = next[n + i]
      BY <1>6 DEF Cut
    <3>2. QED  BY <1>4, <3>1
  <2>2. n + i > m
    <3> SUFFICES ASSUME n + i <= m PROVE FALSE
      BY <1>4, <2>1
    <3>1. n + i \in 1..m
      BY <1>4, <2>1
    <3>2. i \in DOMAIN r /\ steps[n + i].op \in Special /\ n + i \in DOMAIN steps
      BY <1>1, <1>3, <1>8, <2>1, <3>1
    <3>3. QED  BY <3>2 DEF Unspecial
  <2>3. /\ (n + i) - m \in 1..(len - k + 1) /\ m + ((n + i) - m) = n + i
        /\ ((n + i) - m) + k - 1 = i + d /\ i + d \in 1..len /\ i + d >= k
    <3>0. PICK e \in Int : e = n - m + k - 1 /\ d = e
      BY <1>4, <1>7
    <3>1. (n + i) - m \in 1..(len - k + 1)
      BY <1>4, <2>1, <2>2
    <3>2. m + ((n + i) - m) = n + i
      BY <1>4, <2>1, <2>2
    <3>3. ((n + i) - m) + k - 1 = i + e
      <4>1. PICK q \in Int : q = (n + i) - m
        BY <1>4, <2>1
      <4>2. PICK a \in Int : a = n - m
        BY <1>4
      <4>3. PICK z \in Int : z = k - 1
        BY <1>4
      <4>4. q = a + i
        BY <1>4, <2>1, <4>1, <4>2
      <4>5. e = a + z
        BY <1>4, <3>0, <4>2, <4>3
      <4>6. q + z = i + e
        BY <2>1, <4>4, <4>5
      <4>7. QED  BY <1>4, <4>1, <4>3, <4>6
    <3>4. i + e \in 1..len /\ i + e >= k
      BY <1>4, <2>1, <2>2, <3>0
    <3>5. QED  BY <3>0, <3>1, <3>2, <3>3, <3>4
  <2>4. next[m + ((n + i) - m)] = s[((n + i) - m) + k - 1]
    BY <1>3, <2>3
  <2>5. QED  BY <1>5, <2>1, <2>3, <2>4
<1>9. ASSUME NEW j \in DOMAIN s, j >= k, s[j].op \in Special
      PROVE  j - d \in DOMAIN r /\ r[j - d] = s[j]
  <2>1. j \in Int /\ j <= len
    BY <1>5
  <2>2. /\ j - k + 1 \in 1..(len - k + 1) /\ (j - k + 1) + k - 1 = j
        /\ \/ m + (j - k + 1) \in 1..n
           \/ /\ j - d \in 1..((m + (len - k + 1)) - n)
              /\ n + (j - d) = m + (j - k + 1)
    <3>0. PICK e \in Int : e = n - m + k - 1 /\ d = e
      BY <1>4, <1>7
    <3>1. j - k + 1 \in 1..(len - k + 1) /\ (j - k + 1) + k - 1 = j
      <4>1. PICK q \in Int : q = j - k + 1
        BY <1>4, <2>1
      <4>2. q >= 1 /\ q <= len - k + 1
        BY <1>4, <1>9, <2>1, <4>1
      <4>3. q + k - 1 = j
        BY <1>4, <2>1, <4>1
      <4>4. q \in 1..(len - k + 1)
        BY <1>4, <4>2
      <4>5. QED  BY <4>1, <4>3, <4>4
    <3>2. n + (j - e) = m + (j - k + 1)
      BY <1>4, <2>1, <3>0
    <3>3. m + (j - k + 1) > n => j - e \in 1..((m + (len - k + 1)) - n)
      BY <1>4, <1>9, <2>1, <3>0
    <3>4. m + (j - k + 1) <= n => m + (j - k + 1) \in 1..n
      BY <1>4, <1>9, <2>1
    <3>5. m + (j - k + 1) > n \/ m + (j - k + 1) <= n
      BY <1>4, <2>1
    <3>6. QED  BY <3>0, <3>1, <3>2, <3>3, <3>4, <3>5
  <2>3. next[m + (j - k + 1)] = s[j]
    <3>1. next[m + (j - k + 1)] = s[(j - k + 1) + k - 1]
      BY <1>3, <2>2
    <3>2. QED  BY <2>2, <3>1
  <2>4. m + (j - k + 1) \notin 1..n
    <3> SUFFICES ASSUME m + (j - k + 1) \in 1..n PROVE FALSE
      OBVIOUS
    <3>1. s[j].op = "unlock"
      BY <2>3 DEF Cut
    <3>2. QED  BY <1>9, <3>1 DEF Special
  <2>5. j - d \in 1..(Len(next) - n) /\ n + (j - d) = m + (j - k + 1)
    BY <1>4, <2>2, <2>4
  <2>6. r[j - d] = next[n + (j - d)]
    BY <2>5 DEF Cut
  <2>7. QED  BY <1>6, <2>3, <2>5, <2>6
<1>10. d \in Int
  BY <1>4, <1>7
<1>11. QED  BY <1>8, <1>9, <1>10 DEF Shifted, k

LEMMA MoveShifts ==
  ASSUME NEW t, Move(t), Shaped
  PROVE  \E d \in Int : Shifted(todo[t], todo'[t], d)
<1>1. PICK op, steps : t \in Threads /\ At(t, op) /\ Fits(t, op, steps) /\ Continue(t, steps)
  BY DEF Move
<1>2. /\ steps \in Seq(StepSet) /\ \A i \in DOMAIN steps : steps[i].op \notin Special
  BY <1>1, FitsPlain
<1>3. PICK next : next = steps \o Behind(todo[t])
  OBVIOUS
<1>4. Half(next) /\ Ready(todo[t]) /\ todo[t] # <<>>
  <2>1. t \in Threads /\ At(t, op) /\ Fits(t, op, steps)
    BY <1>1
  <2>2. Half(next)
    BY <1>3, <2>1, NextHalf
  <2>3. QED  BY <2>1, <2>2, StepFacts
<1>5. next \in Seq(StepSet) /\ Len(next) \in Nat
  BY <1>4 DEF Half
<1>6. PICK n : Goes(t, next, n)
  BY <1>1, <1>2, <1>3, ContinueNext
<1>7. PICK r : r = SubSeq(next, n + 1, Len(next))
  OBVIOUS
<1>8. /\ n \in Nat /\ n <= Len(next) /\ \A j \in 1..n : next[j].op = "unlock"
      /\ todo' = [todo EXCEPT ![t] = r]
  BY <1>6, <1>7 DEF Goes
<1>9. r \in Seq(StepSet) /\ Len(r) = Len(next) - n /\ \A j \in 1..(Len(next) - n) : r[j] = next[n + j]
  <2>1. n \in 0..Len(next)
    BY <1>5, <1>8
  <2>2. QED  BY <1>5, <1>7, <2>1, StripFacts
<1>10. todo'[t] = r
  BY <1>1, <1>8 DEF Shaped
<1>11. \E d \in Int : Shifted(todo[t], r, d)
  <2>1. Cut(next, n, r) /\ Unspecial(steps) /\ n \in Nat /\ n <= Len(next)
    BY <1>2, <1>5, <1>8, <1>9 DEF Cut, Unspecial
  <2>2. QED  BY <1>3, <1>4, <2>1, ShiftFacts
<1>12. QED  BY <1>10, <1>11

\* A start ends with the registration of the callback, and connects first.  An
\* end waits for the executor first, if at all, and joins before it closes.
Has(s, op) == \E j \in DOMAIN s : s[j].op = op
Starting(s) == Has(s, "connect") \/ Has(s, "launch") \/ Has(s, "open")
StartShape(s) ==
  \A j \in DOMAIN s :
    /\ s[j].op \in {"connect", "launch", "open"} => \E k \in DOMAIN s : k > j /\ s[k].op = "register"
    /\ s[j].op = "connect" => j = 1
EndShape(s) ==
  \A j \in DOMAIN s :
    /\ s[j].op = "spun" => j = 1 /\ Has(s, "join")
    /\ s[j].op = "close" => \A k \in DOMAIN s : s[k].op = "join" => k < j

LEMMA ShiftedHas ==
  ASSUME NEW s, NEW r, NEW d \in Int, Shifted(s, r, d), NEW op \in Special
  PROVE  /\ Has(r, op) => \E j \in DOMAIN s : j >= After(s) /\ s[j].op = op
         /\ \A j \in DOMAIN s : j >= After(s) /\ s[j].op = op => Has(r, op)
  BY DEF Shifted, Has

LEMMA ShiftedShapes ==
  ASSUME NEW s, Ready(s), s # <<>>, NEW r \in Seq(StepSet), NEW d \in Int, Shifted(s, r, d)
  PROVE  /\ StartShape(s) => StartShape(r) /\ ~Has(r, "connect")
         /\ EndShape(s) => EndShape(r) /\ ~Has(r, "spun")
<1>1. After(s) \in {2, 3} /\ DOMAIN s = 1..Len(s) /\ Len(s) \in Nat
  BY BehindFacts
<1>2. DOMAIN r = 1..Len(r) /\ Len(r) \in Nat
  OBVIOUS
<1>3. ASSUME StartShape(s) PROVE StartShape(r) /\ ~Has(r, "connect")
  <2>1. ~Has(r, "connect")
    <3>1. Has(r, "connect") => \E j \in DOMAIN s : j >= After(s) /\ s[j].op = "connect"
      BY ShiftedHas DEF Special
    <3>2. QED  BY <1>1, <1>3, <3>1 DEF StartShape
  <2>2. ASSUME NEW i \in DOMAIN r, r[i].op \in {"connect", "launch", "open"}
        PROVE  \E k \in DOMAIN r : k > i /\ r[k].op = "register"
    <3>1. i + d \in DOMAIN s /\ i + d >= After(s) /\ s[i + d] = r[i]
      BY <2>2 DEF Shifted, Special
    <3>2. PICK k \in DOMAIN s : k > i + d /\ s[k].op = "register"
      BY <1>3, <2>2, <3>1 DEF StartShape
    <3>3. k >= After(s)
      BY <1>1, <3>1, <3>2
    <3>4. k - d \in DOMAIN r /\ r[k - d] = s[k]
      BY <3>2, <3>3 DEF Shifted, Special
    <3>5. k - d > i
      BY <1>1, <1>2, <3>2
    <3>6. QED  BY <3>2, <3>4, <3>5
  <2>3. QED  BY <2>1, <2>2 DEF StartShape, Has
<1>4. ASSUME EndShape(s) PROVE EndShape(r) /\ ~Has(r, "spun")
  <2>1. ~Has(r, "spun")
    <3>1. Has(r, "spun") => \E j \in DOMAIN s : j >= After(s) /\ s[j].op = "spun"
      BY ShiftedHas DEF Special
    <3>2. QED  BY <1>1, <1>4, <3>1 DEF EndShape
  <2>2. ASSUME NEW i \in DOMAIN r, r[i].op = "close", NEW k \in DOMAIN r, r[k].op = "join"
        PROVE  k < i
    <3>1. i + d \in DOMAIN s /\ s[i + d] = r[i] /\ k + d \in DOMAIN s /\ s[k + d] = r[k]
      BY <2>2 DEF Shifted, Special
    <3>2. k + d < i + d
      BY <1>4, <2>2, <3>1 DEF EndShape
    <3>3. QED  BY <1>2, <3>2
  <2>3. QED  BY <2>1, <2>2 DEF EndShape, Has
<1>5. QED  BY <1>3, <1>4

LEMMA DoHas ==
  ASSUME NEW op \in Common \cup Special, NEW s, s = Do(op, "-")
  PROVE  s \in Seq(StepSet) /\ Len(s) = 1 /\ DOMAIN s = {1} /\ s[1].op = op
<1>1. [op |-> op, arg |-> "-"] \in StepSet
  BY DEF StepSet, Args
<1>2. QED  BY <1>1, DoFacts

LEMMA StartShapes ==
  /\ StartShape(StartCamera) /\ Has(StartCamera, "connect")
  /\ StartShape(Do("open", "-") \o Do("register", "-"))
  /\ ~Has(Do("open", "-") \o Do("register", "-"), "launch")
<1>1. PICK c, f, l, r, o :
        /\ c = Do("connect", "-") /\ f = Do("configure", "-") /\ l = Do("launch", "-")
        /\ r = Do("register", "-") /\ o = Do("open", "-")
  OBVIOUS
<1>2. /\ c \in Seq(StepSet) /\ Len(c) = 1 /\ c[1].op = "connect"
      /\ f \in Seq(StepSet) /\ Len(f) = 1 /\ f[1].op = "configure"
      /\ l \in Seq(StepSet) /\ Len(l) = 1 /\ l[1].op = "launch"
      /\ r \in Seq(StepSet) /\ Len(r) = 1 /\ r[1].op = "register"
      /\ o \in Seq(StepSet) /\ Len(o) = 1 /\ o[1].op = "open"
  BY <1>1, DoHas DEF Common, Special
<1>3. ASSUME NEW s \in Seq(StepSet), Len(s) = 4, s[1].op = "connect", s[2].op = "configure",
             s[3].op = "launch", s[4].op = "register"
      PROVE  StartShape(s) /\ Has(s, "connect")
  <2>1. DOMAIN s = 1..4 /\ \A j \in DOMAIN s : j = 1 \/ j = 2 \/ j = 3 \/ j = 4
    BY <1>3
  <2>2. QED  BY <1>3, <2>1 DEF StartShape, Has
<1>4. ASSUME NEW s \in Seq(StepSet), Len(s) = 2, s[1].op = "open", s[2].op = "register"
      PROVE  StartShape(s) /\ ~Has(s, "launch")
  <2>1. DOMAIN s = 1..2 /\ \A j \in DOMAIN s : j = 1 \/ j = 2
    BY <1>4
  <2>2. QED  BY <1>4, <2>1 DEF StartShape, Has
<1>5. ASSUME NEW a \in Seq(StepSet), NEW b \in Seq(StepSet), Len(b) = 1
      PROVE  /\ a \o b \in Seq(StepSet) /\ Len(a \o b) = Len(a) + 1
             /\ (a \o b)[Len(a) + 1] = b[1] /\ \A j \in 1..Len(a) : (a \o b)[j] = a[j]
  <2>1. PICK s : s = a \o b
    OBVIOUS
  <2>2. /\ s \in Seq(StepSet) /\ Len(s) = Len(a) + Len(b) /\ Len(a) \in Nat
        /\ \A j \in 1..(Len(a) + Len(b)) : s[j] = IF j <= Len(a) THEN a[j] ELSE b[j - Len(a)]
    BY <2>1, ConcatFacts
  <2>3. Len(s) = Len(a) + 1 /\ s[Len(a) + 1] = b[1] /\ \A j \in 1..Len(a) : s[j] = a[j]
    BY <1>5, <2>2
  <2>4. QED  BY <2>1, <2>2, <2>3
<1>6. PICK x : x = c \o f
  OBVIOUS
<1>7. x \in Seq(StepSet) /\ Len(x) = 2 /\ x[1] = c[1] /\ x[2] = f[1]
  <2>1. /\ x \in Seq(StepSet) /\ Len(x) = Len(c) + 1
        /\ x[Len(c) + 1] = f[1] /\ \A j \in 1..Len(c) : x[j] = c[j]
    BY SMTT(60), <1>2, <1>5, <1>6
  <2>2. QED  BY <1>2, <2>1
<1>8. PICK y : y = x \o l
  OBVIOUS
<1>9. y \in Seq(StepSet) /\ Len(y) = 3 /\ y[1] = c[1] /\ y[2] = f[1] /\ y[3] = l[1]
  <2>1. l \in Seq(StepSet) /\ Len(l) = 1
    BY <1>2
  <2>2. x \in Seq(StepSet)
    BY <1>7
  <2>3. /\ x \o l \in Seq(StepSet) /\ Len(x \o l) = Len(x) + 1
        /\ (x \o l)[Len(x) + 1] = l[1] /\ \A j \in 1..Len(x) : (x \o l)[j] = x[j]
    BY ZenonT(30), <1>5, <2>1, <2>2
  <2>4. /\ y \in Seq(StepSet) /\ Len(y) = Len(x) + 1
        /\ y[Len(x) + 1] = l[1] /\ \A j \in 1..Len(x) : y[j] = x[j]
    BY ZenonT(30), <1>8, <2>3
  <2>5. QED  BY <1>7, <2>4
<1>10. PICK z : z = y \o r
  OBVIOUS
<1>11. z \in Seq(StepSet) /\ Len(z) = 4 /\ z[1] = c[1] /\ z[2] = f[1] /\ z[3] = l[1] /\ z[4] = r[1]
  <2>1. /\ z \in Seq(StepSet) /\ Len(z) = Len(y) + 1
        /\ z[Len(y) + 1] = r[1] /\ \A j \in 1..Len(y) : z[j] = y[j]
    BY <1>2, <1>5, <1>9, <1>10
  <2>2. QED  BY <1>9, <2>1
<1>12. PICK w : w = o \o r
  OBVIOUS
<1>13. w \in Seq(StepSet) /\ Len(w) = 2 /\ w[1] = o[1] /\ w[2] = r[1]
  <2>1. /\ w \in Seq(StepSet) /\ Len(w) = Len(o) + 1
        /\ w[Len(o) + 1] = r[1] /\ \A j \in 1..Len(o) : w[j] = o[j]
    BY <1>2, <1>5, <1>12
  <2>2. QED  BY <1>2, <2>1
<1>14. StartCamera = z /\ Do("open", "-") \o Do("register", "-") = w
  BY <1>1, <1>6, <1>8, <1>10, <1>12 DEF StartCamera
<1>15. QED  BY <1>2, <1>3, <1>4, <1>11, <1>13, <1>14

\* What comes before the join, the join, and what comes after it.
LEMMA EndConcat ==
  ASSUME NEW a \in Seq(StepSet), EndShape(a), NEW c \in Seq(StepSet), ~Has(c, "join"), ~Has(c, "spun")
  PROVE  /\ EndShape(a \o c) /\ a \o c \in Seq(StepSet)
         /\ \A op : Has(a, op) => Has(a \o c, op)
<1>1. PICK s : s = a \o c
  OBVIOUS
<1>2. /\ s \in Seq(StepSet) /\ DOMAIN s = 1..(Len(a) + Len(c))
      /\ Len(a) \in Nat /\ Len(c) \in Nat /\ DOMAIN a = 1..Len(a) /\ DOMAIN c = 1..Len(c)
      /\ \A j \in 1..(Len(a) + Len(c)) : s[j] = IF j <= Len(a) THEN a[j] ELSE c[j - Len(a)]
  BY <1>1, ConcatFacts
<1>3. \A op : Has(a, op) => Has(s, op)
  <2>1. \A j \in DOMAIN a : j \in DOMAIN s /\ s[j] = a[j]
    BY <1>2
  <2>2. QED  BY <2>1 DEF Has
<1>4. ASSUME NEW j \in DOMAIN s 
      PROVE  \/ j \in DOMAIN a /\ s[j] = a[j]
             \/ j > Len(a) /\ j - Len(a) \in DOMAIN c /\ s[j] = c[j - Len(a)]
  BY <1>2
<1>5. ASSUME NEW j \in DOMAIN s, s[j].op \in {"join", "spun"} PROVE j \in DOMAIN a /\ s[j] = a[j]
  BY <1>4, <1>5 DEF Has
<1>6. ASSUME NEW j \in DOMAIN s, s[j].op = "spun" PROVE j = 1 /\ Has(s, "join")
  BY <1>3, <1>5, <1>6 DEF EndShape
<1>7. ASSUME NEW j \in DOMAIN s, s[j].op = "close", NEW k \in DOMAIN s, s[k].op = "join" PROVE k < j
  <2>1. k \in DOMAIN a /\ s[k] = a[k]
    BY <1>5, <1>7
  <2>2. CASE j \in DOMAIN a /\ s[j] = a[j]
    BY <1>7, <2>1, <2>2 DEF EndShape
  <2>3. CASE j > Len(a)
    BY <1>2, <2>1, <2>3
  <2>4. QED  BY <1>4, <2>2, <2>3
<1>8. EndShape(s)
  BY <1>6, <1>7 DEF EndShape
<1>9. QED  BY <1>1, <1>2, <1>3, <1>8

LEMMA EndJoin ==
  ASSUME NEW p \in Seq(StepSet), ~Has(p, "close"), \A j \in DOMAIN p : p[j].op = "spun" => j = 1
  PROVE  /\ EndShape(p \o Do("join", "-")) /\ Has(p \o Do("join", "-"), "join")
         /\ p \o Do("join", "-") \in Seq(StepSet)
         /\ \A op : Has(p, op) => Has(p \o Do("join", "-"), op)
<1>1. PICK c : c = Do("join", "-")
  OBVIOUS
<1>2. c \in Seq(StepSet) /\ Len(c) = 1 /\ c[1].op = "join"
  BY <1>1, DoHas DEF Special
<1>3. PICK s : s = p \o c
  OBVIOUS
<1>4. /\ s \in Seq(StepSet) /\ DOMAIN s = 1..(Len(p) + 1) /\ Len(p) \in Nat /\ DOMAIN p = 1..Len(p)
      /\ \A j \in 1..(Len(p) + 1) : s[j] = IF j <= Len(p) THEN p[j] ELSE c[j - Len(p)]
  <2>1. c \in Seq(StepSet)
    BY <1>2
  <2>2. /\ s \in Seq(StepSet) /\ DOMAIN s = 1..(Len(p) + Len(c)) /\ Len(p) \in Nat /\ DOMAIN p = 1..Len(p)
        /\ \A j \in 1..(Len(p) + Len(c)) : s[j] = IF j <= Len(p) THEN p[j] ELSE c[j - Len(p)]
    BY <1>3, <2>1, ConcatFacts
  <2>3. QED  BY <1>2, <2>2
<1>5. \A j \in DOMAIN s : (j \in DOMAIN p /\ s[j] = p[j]) \/ (j = Len(p) + 1 /\ s[j] = c[1])
  BY <1>2, <1>4
<1>6. Has(s, "join")
  <2>1. Len(p) + 1 \in DOMAIN s /\ s[Len(p) + 1] = c[1]
    BY <1>4
  <2>2. QED  BY <1>2, <2>1 DEF Has
<1>7. \A op : Has(p, op) => Has(s, op)
  <2>1. \A j \in DOMAIN p : j \in DOMAIN s /\ s[j] = p[j]
    BY <1>4
  <2>2. QED  BY <2>1 DEF Has
<1>8. \A j \in DOMAIN s : s[j].op # "close" /\ (s[j].op = "spun" => j = 1)
  BY <1>2, <1>5 DEF Has
<1>9. EndShape(s)
  BY <1>6, <1>8 DEF EndShape
<1>10. QED  BY <1>1, <1>3, <1>4, <1>6, <1>7, <1>9

LEMMA HasConcat ==
  ASSUME NEW a \in Seq(StepSet), NEW b \in Seq(StepSet), NEW op
  PROVE  a \o b \in Seq(StepSet) /\ (Has(a \o b, op) <=> Has(a, op) \/ Has(b, op))
<1>1. PICK s : s = a \o b
  OBVIOUS
<1>2. /\ s \in Seq(StepSet) /\ DOMAIN s = 1..(Len(a) + Len(b))
      /\ Len(a) \in Nat /\ Len(b) \in Nat /\ DOMAIN a = 1..Len(a) /\ DOMAIN b = 1..Len(b)
      /\ \A j \in 1..(Len(a) + Len(b)) : s[j] = IF j <= Len(a) THEN a[j] ELSE b[j - Len(a)]
  BY <1>1, ConcatFacts
<1>3. ASSUME NEW j \in DOMAIN s
      PROVE  (j \in DOMAIN a /\ s[j] = a[j]) \/ (j - Len(a) \in DOMAIN b /\ s[j] = b[j - Len(a)])
  BY <1>2
<1>4. Has(s, op) => Has(a, op) \/ Has(b, op)
  BY <1>3 DEF Has
<1>5. \A j \in DOMAIN a : j \in DOMAIN s /\ s[j] = a[j]
  BY <1>2
<1>6. ASSUME NEW j \in DOMAIN b PROVE j + Len(a) \in DOMAIN s /\ s[j + Len(a)] = b[j]
  <2>1. j + Len(a) \in 1..(Len(a) + Len(b)) /\ ~(j + Len(a) <= Len(a)) /\ (j + Len(a)) - Len(a) = j
    BY <1>2
  <2>2. QED  BY <1>2, <2>1
<1>7. Has(a, op) \/ Has(b, op) => Has(s, op)
  BY <1>5, <1>6 DEF Has
<1>8. QED  BY <1>1, <1>2, <1>4, <1>7

LEMMA HasDo ==
  ASSUME NEW op, NEW arg, [op |-> op, arg |-> arg] \in StepSet, NEW x
  PROVE  Do(op, arg) \in Seq(StepSet) /\ (Has(Do(op, arg), x) <=> x = op)
<1>1. PICK s : s = Do(op, arg)
  OBVIOUS
<1>2. s \in Seq(StepSet) /\ DOMAIN s = {1} /\ s[1].op = op
  BY <1>1, DoFacts
<1>3. QED  BY <1>1, <1>2 DEF Has

LEMMA EndAssoc ==
  \A e, p, j, l, d \in Seq(StepSet) : e \o (((p \o j) \o l) \o d) = (((e \o p) \o j) \o l) \o d
<1> SUFFICES ASSUME NEW e \in Seq(StepSet), NEW p \in Seq(StepSet), NEW j \in Seq(StepSet),
                    NEW l \in Seq(StepSet), NEW d \in Seq(StepSet)
             PROVE  e \o (((p \o j) \o l) \o d) = (((e \o p) \o j) \o l) \o d
  OBVIOUS
<1>1. PICK b : b = p \o j
  OBVIOUS
<1>2. b \in Seq(StepSet)
  BY <1>1, ConcatFacts
<1>3. PICK w : w = b \o l
  OBVIOUS
<1>4. w \in Seq(StepSet)
  BY <1>2, <1>3, ConcatFacts
<1>5. (e \o w) \o d = e \o (w \o d)
  BY SMTT(60), <1>4
<1>6. (e \o b) \o l = e \o (b \o l)
  BY SMTT(60), <1>2
<1>7. (e \o p) \o j = e \o (p \o j)
  BY SMTT(60)
<1>8. QED  BY <1>1, <1>3, <1>5, <1>6, <1>7

LEMMA EndForm ==
  ASSUME NEW e, e \in {<<>>, Do("spun", "-")}, NEW p, Unspecial(p),
         NEW l \in Seq(StepSet), ~Has(l, "join"), ~Has(l, "spun"),
         NEW d \in Seq(StepSet), ~Has(d, "join"), ~Has(d, "spun"),
         NEW z, z = e \o (((p \o Do("join", "-")) \o l) \o d)
  PROVE  EndShape(z) /\ Has(z, "join") /\ (e = Do("spun", "-") => Has(z, "spun"))
<1>1. PICK j : j = Do("join", "-")
  OBVIOUS
<1>2. j \in Seq(StepSet)
  BY <1>1, DoHas DEF Special
<1>3. /\ e \in Seq(StepSet) /\ Len(e) <= 1 /\ Len(e) \in Nat /\ DOMAIN e = 1..Len(e)
      /\ \A i \in DOMAIN e : e[i].op = "spun"
      /\ e = Do("spun", "-") => Has(e, "spun")
  <2>1. CASE e = <<>>
    <3>1. e # Do("spun", "-")
      BY <2>1 DEF Do
    <3>2. QED  BY <2>1, <3>1
  <2>2. CASE e = Do("spun", "-")
    <3>1. e \in Seq(StepSet) /\ Len(e) = 1 /\ DOMAIN e = {1} /\ e[1].op = "spun"
      BY <2>2, DoHas DEF Special
    <3>2. DOMAIN e = 1..Len(e)
      BY <3>1
    <3>3. QED  BY <3>1, <3>2 DEF Has
  <2>3. QED  BY <2>1, <2>2
<1>4. PICK q : q = e \o p
  OBVIOUS
<1>5. p \in Seq(StepSet) /\ \A i \in DOMAIN p : p[i].op \notin Special
  BY DEF Unspecial
<1>6. /\ q \in Seq(StepSet) /\ DOMAIN q = 1..(Len(e) + Len(p))
      /\ Len(p) \in Nat /\ DOMAIN p = 1..Len(p)
      /\ \A i \in 1..(Len(e) + Len(p)) : q[i] = IF i <= Len(e) THEN e[i] ELSE p[i - Len(e)]
  BY <1>3, <1>4, <1>5, ConcatFacts
<1>7. ASSUME NEW i \in DOMAIN q
      PROVE  \/ i \in DOMAIN e /\ q[i] = e[i] /\ i = 1
             \/ i - Len(e) \in DOMAIN p /\ q[i] = p[i - Len(e)]
  <2>1. i \in Nat /\ i >= 1 /\ i <= Len(e) + Len(p) /\ Len(e) \in Nat /\ Len(p) \in Nat /\ Len(e) <= 1
    BY <1>3, <1>6
  <2>2. CASE i <= Len(e)
    BY <1>3, <1>6, <2>1, <2>2
  <2>3. CASE i > Len(e)
    <3>1. i - Len(e) \in 1..Len(p) /\ ~(i <= Len(e))
      BY <2>1, <2>3
    <3>2. q[i] = p[i - Len(e)]
      BY <1>6, <2>3, <3>1
    <3>3. QED  BY <1>6, <3>1, <3>2
  <2>4. QED  BY <2>1, <2>2, <2>3
<1>8. ~Has(q, "close") /\ \A i \in DOMAIN q : q[i].op = "spun" => i = 1
  BY <1>3, <1>5, <1>7 DEF Has, Special
<1>9. Has(e, "spun") => Has(q, "spun")
  BY <1>3, <1>4, <1>5, HasConcat
<1>10. z = ((q \o j) \o l) \o d
  <2>1. p \in Seq(StepSet) /\ e \in Seq(StepSet)
    BY <1>3, <1>5
  <2>2. e \o (((p \o j) \o l) \o d) = (((e \o p) \o j) \o l) \o d
    <3>1. \A b, c, f, g \in Seq(StepSet) : e \o (((b \o c) \o f) \o g) = (((e \o b) \o c) \o f) \o g
      BY <2>1, EndAssoc
    <3>2. \A c, f, g \in Seq(StepSet) : e \o (((p \o c) \o f) \o g) = (((e \o p) \o c) \o f) \o g
      BY <2>1, <3>1
    <3>3. \A f, g \in Seq(StepSet) : e \o (((p \o j) \o f) \o g) = (((e \o p) \o j) \o f) \o g
      BY <1>2, <3>2
    <3>4. QED  BY <3>3
  <2>3. QED  BY <1>1, <1>4, <2>2
<1>11. PICK x : x = q \o j
  OBVIOUS
<1>12. EndShape(x) /\ Has(x, "join") /\ x \in Seq(StepSet) /\ (Has(q, "spun") => Has(x, "spun"))
  BY <1>1, <1>6, <1>8, <1>11, EndJoin
<1>13. PICK y : y = x \o l
  OBVIOUS
<1>14. EndShape(y) /\ Has(y, "join") /\ y \in Seq(StepSet) /\ (Has(x, "spun") => Has(y, "spun"))
  BY <1>12, <1>13, EndConcat
<1>15. z = y \o d
  BY <1>10, <1>11, <1>13
<1>16. EndShape(z) /\ Has(z, "join") /\ (Has(y, "spun") => Has(z, "spun"))
  BY <1>14, <1>15, EndConcat
<1>17. QED  BY <1>3, <1>9, <1>12, <1>14, <1>16

LEMMA EndShapes ==
  ASSUME NEW e \in {<<>>, Do("spun", "-")}, NEW steps \in {DeInit, OneDeInit}, NEW z, z = e \o steps
  PROVE  EndShape(z) /\ Has(z, "join") /\ (e = Do("spun", "-") => Has(z, "spun"))
<1>1. /\ [op |-> "down", arg |-> "-"] \in StepSet /\ [op |-> "close", arg |-> "-"] \in StepSet
      /\ [op |-> "save", arg |-> "-"] \in StepSet /\ [op |-> "stop", arg |-> "-"] \in StepSet
      /\ [op |-> "lock", arg |-> "close"] \in StepSet /\ [op |-> "unlock", arg |-> "close"] \in StepSet
  BY DEF StepSet, Args, Common, Special
<1>2. PICK d : d = Do("down", "-")
  OBVIOUS
<1>3. d \in Seq(StepSet) /\ ~Has(d, "join") /\ ~Has(d, "spun")
  BY <1>1, <1>2, HasDo
<1>4. CASE steps = DeInit
  <2>1. PICK p : p = Each(LAMBDA m: Do("quit", m)) \o Do("quit", "map") \o Do("stop", "-")
    OBVIOUS
  <2>2. PICK l : l = Locked("close", Do("save", "-") \o Do("close", "-"))
    OBVIOUS
  <2>3. z = e \o (((p \o Do("join", "-")) \o l) \o d)
    BY <1>2, <1>4, <2>1, <2>2 DEF DeInit
  <2>4. Unspecial(p)
    <3>1. Called(Do("quit", "obj")) /\ Called(Do("quit", "body")) /\ Called(Do("quit", "map"))
      BY CalledQuit DEF Args
    <3>2. Called(Each(LAMBDA m: Do("quit", m)))
      BY <3>1, CalledEmpty, CalledConcat DEF Each
    <3>3. Called(Do("stop", "-"))
      BY CalledDo DEF Common, Args
    <3>4. Called(p)
      BY <2>1, <3>1, <3>2, <3>3, CalledConcat
    <3>5. QED  BY <3>4 DEF Called, Good, Nested, Unspecial
  <2>5. l \in Seq(StepSet) /\ ~Has(l, "join") /\ ~Has(l, "spun")
    <3>1. PICK a, b, c, u :
            /\ a = Do("lock", "close") /\ b = Do("save", "-") /\ c = Do("close", "-")
            /\ u = Do("unlock", "close")
      OBVIOUS
    <3>2. /\ a \in Seq(StepSet) /\ b \in Seq(StepSet) /\ c \in Seq(StepSet) /\ u \in Seq(StepSet)
          /\ \A x \in {"join", "spun"} : ~Has(a, x) /\ ~Has(b, x) /\ ~Has(c, x) /\ ~Has(u, x)
      BY <1>1, <3>1, HasDo
    <3>3. b \o c \in Seq(StepSet) /\ \A x \in {"join", "spun"} : ~Has(b \o c, x)
      BY <3>2, HasConcat
    <3>4. a \o (b \o c) \in Seq(StepSet) /\ \A x \in {"join", "spun"} : ~Has(a \o (b \o c), x)
      BY <3>2, <3>3, HasConcat
    <3>5. (a \o (b \o c)) \o u \in Seq(StepSet) /\ \A x \in {"join", "spun"} : ~Has((a \o (b \o c)) \o u, x)
      BY <3>2, <3>4, HasConcat
    <3>6. l = (a \o (b \o c)) \o u
      BY <2>2, <3>1 DEF Locked
    <3>7. QED  BY <3>5, <3>6
  <2>6. QED  BY <1>3, <2>3, <2>4, <2>5, EndForm
<1>5. CASE steps = OneDeInit
  <2>1. PICK p, l : p = Do("stop", "-") /\ l = Do("close", "-")
    OBVIOUS
  <2>2. z = e \o (((p \o Do("join", "-")) \o l) \o d)
    BY <1>2, <1>5, <2>1 DEF OneDeInit
  <2>3. Unspecial(p)
    <3>1. Called(p)
      BY <2>1, CalledDo DEF Common, Args
    <3>2. QED  BY <3>1 DEF Called, Good, Nested, Unspecial
  <2>4. l \in Seq(StepSet) /\ ~Has(l, "join") /\ ~Has(l, "spun")
    BY <1>1, <2>1, HasDo
  <2>5. QED  BY <1>3, <2>2, <2>3, <2>4, EndForm
<1>6. QED  BY <1>4, <1>5

-----------------------------------------------------------------------------
\* While the executor still starts the node, nothing ends it without having waited
\* for the executor; a thread that closes the camera has joined the others or is
\* still to join them; and the threads are launched with the camera open.
CameraInv ==
  /\ StartShape(todo[X]) /\ EndShape(todo[S])
  /\ ~deinit => todo[S] = <<>>
  /\ exited = "no" =>
       /\ Has(todo[S], "close") /\ ~Has(todo[S], "join") => All \subseteq ended
       /\ Starting(todo[X]) => todo[S] = <<>> \/ Has(todo[S], "spun")
       /\ Has(todo[X], "launch") /\ ~Has(todo[X], "connect") => camera = "open"
       /\ camera = "closed" => All \subseteq ended

LEMMA CameraInit == NodesInit => CameraInv
<1> SUFFICES ASSUME NodesInit PROVE CameraInv
  OBVIOUS
<1>1. X \in Threads /\ S \in Threads /\ X # G /\ S # G /\ S # X
  BY DEF Threads, G, X, S
<1>2. todo[S] = <<>> /\ ended = All /\ (todo[X] = StartCamera \/ todo[X] = Do("open", "-") \o Do("register", "-"))
  BY <1>1 DEF NodesInit, ZedInit, OneInit, All
<1>3. EndShape(<<>>) /\ \A op : ~Has(<<>>, op)
  BY DEF EndShape, Has
<1>4. QED  BY <1>2, <1>3, StartShapes DEF CameraInv

LEMMA CameraMove ==
  ASSUME GrabInv, CameraInv, NEW t \in Threads, Move(t), Effect(t)
  PROVE  CameraInv'
<1>1. Shaped /\ lock \in [Locks -> Threads \cup {None}]
  BY DEF GrabInv
<1>2. Shaped' /\ todo' = [todo EXCEPT ![t] = todo'[t]]
  BY <1>1, MoveReady
<1>3. G \in Threads /\ X \in Threads /\ S \in Threads /\ G # X /\ G # S /\ X # S
  BY DEF Threads, G, X, S
<1>4. \A u \in Threads \ {t} : todo'[u] = todo[u]
  BY <1>1, <1>2 DEF Shaped
<1>5. PICK op : At(t, op)
  BY DEF Move
<1> DEFINE s == todo[t]
           r == todo'[t]
<1>6. /\ exited = "no" /\ s # <<>> /\ Ready(s)
      /\ op = Step(t).op /\ op = s[IF IsGuarded(s) THEN 2 ELSE 1].op
      /\ IsGuarded(s) => s[1].op = "lock"
  BY <1>1, <1>5, StepFacts DEF IsGuarded
<1>7. /\ After(s) = (IF IsGuarded(s) THEN 3 ELSE 2) /\ After(s) <= Len(s) + 1
      /\ Len(s) \in Nat /\ DOMAIN s = 1..Len(s)
  BY <1>6, BehindFacts DEF After
<1>8. r \in Seq(StepSet)
  BY <1>2 DEF Shaped
<1>9. PICK d \in Int : Shifted(s, r, d)
  BY <1>1, MoveShifts
<1>10. /\ StartShape(s) => StartShape(r) /\ ~Has(r, "connect")
       /\ EndShape(s) => EndShape(r) /\ ~Has(r, "spun")
  BY <1>6, <1>8, <1>9, ShiftedShapes
<1>11. ASSUME NEW x \in Special
       PROVE  /\ Has(r, x) => Has(s, x)
              /\ Has(s, x) => Has(r, x) \/ op = x
              /\ op = x => Has(s, x)
  <2>1. /\ Has(r, x) => \E j \in DOMAIN s : j >= After(s) /\ s[j].op = x
        /\ \A j \in DOMAIN s : j >= After(s) /\ s[j].op = x => Has(r, x)
    BY <1>9, ShiftedHas
  <2>2. \A j \in DOMAIN s : j >= After(s) \/ (j = IF IsGuarded(s) THEN 2 ELSE 1) \/ (j = 1 /\ IsGuarded(s))
    BY <1>7
  <2>3. x # "lock"
    BY DEF Special
  <2>4. (IF IsGuarded(s) THEN 2 ELSE 1) \in DOMAIN s
    BY <1>7
  <2>5. QED  BY <1>6, <2>1, <2>2, <2>3, <2>4 DEF Has
<1>12. s[1].op \in Special => op = s[1].op
  BY <1>6 DEF Special
<1>13. /\ StartShape(todo[X]) /\ EndShape(todo[S])
       /\ ~deinit => todo[S] = <<>>
       /\ Has(todo[S], "close") /\ ~Has(todo[S], "join") => All \subseteq ended
       /\ Starting(todo[X]) => todo[S] = <<>> \/ Has(todo[S], "spun")
       /\ Has(todo[X], "launch") /\ ~Has(todo[X], "connect") => camera = "open"
       /\ camera = "closed" => All \subseteq ended
  BY <1>6 DEF CameraInv
<1>14. /\ deinit' = deinit
       /\ camera' # camera => (op \in {"connect", "open"} /\ camera' = "open") \/ op = "close"
       /\ op = "connect" => camera' = "open" \/ exited' # "no"
       /\ op = "launch" => camera' = camera
       /\ ended \subseteq ended' \/ op = "launch" \/ (op = "open" /\ camera' = "open")
       /\ op \in {"connect", "launch", "open"} => t = X
       /\ op \in {"spun", "join", "close"} => t = S
       /\ op = "join" => All \subseteq ended
       /\ op = "spun" => todo[X] = <<>>
  BY <1>6 DEF Effect
<1>15. /\ Has(todo[S], "spun") => todo[S][1].op = "spun" /\ Has(todo[S], "join")
       /\ Has(todo[X], "connect") => todo[X][1].op = "connect"
       /\ todo[S] = <<>> => ~Has(todo[S], "close")
       /\ todo[X] = <<>> => ~Starting(todo[X])
  BY <1>13 DEF EndShape, StartShape, Has, Starting
<1>16. {"connect", "launch", "open", "spun", "join", "close", "register"} \subseteq Special
  BY DEF Special
<1> HIDE DEF s, r
<1>17. CASE t = X
  <2>1. todo[X] = s /\ todo'[X] = r /\ todo'[S] = todo[S] /\ ~(t = S)
    BY <1>3, <1>4, <1>17 DEF s, r
  <2>2. StartShape(r) /\ ~Has(r, "connect")
    BY <1>10, <1>13, <2>1
  <2>3. Starting(r) => Starting(s)
    BY <1>11, <1>16 DEF Starting
  <2>4. op \in {"launch", "open"} => Starting(s)
    BY <1>11, <1>16 DEF Starting
  <2>5. Has(todo[S], "close") /\ ~Has(todo[S], "join") => ended \subseteq ended'
    BY <1>13, <1>14, <1>15, <2>1, <2>4
  <2>6. Has(s, "connect") => op = "connect"
    BY <1>12, <1>15, <1>16, <2>1
  <2>7. exited' = "no" /\ Has(r, "launch") => camera' = "open"
    <3>1. Has(r, "launch") => Has(s, "launch")
      BY <1>11, <1>16
    <3>2. QED  BY <1>13, <1>14, <2>1, <2>6, <3>1
  <2>8. camera' = "closed" => camera' = camera
    BY <1>14, <2>1
  <2>9. op = "launch" => camera = "open"
    BY <1>11, <1>13, <1>16, <2>1, <2>6
  <2>10. camera' = "closed" => ended \subseteq ended'
    BY <1>14, <2>8, <2>9
  <2>11. QED  BY <1>13, <1>14, <2>1, <2>2, <2>3, <2>5, <2>7, <2>8, <2>10 DEF CameraInv
<1>18. CASE t = S
  <2>1. todo[S] = s /\ todo'[S] = r /\ todo'[X] = todo[X] /\ ~(t = X)
    BY <1>3, <1>4, <1>18 DEF s, r
  <2>2. EndShape(r)
    BY <1>10, <1>13, <2>1
  <2>3. deinit' /\ ended \subseteq ended'
    BY <1>6, <1>13, <1>14, <2>1 DEF s
  <2>4. Has(r, "close") /\ ~Has(r, "join") => All \subseteq ended
    BY <1>11, <1>13, <1>14, <1>16, <2>1
  <2>5. ~Starting(todo[X])
    <3> SUFFICES ASSUME Starting(todo[X]) PROVE FALSE
      OBVIOUS
    <3>1. s # <<>>
      BY <1>6 DEF s
    <3>2. s[1].op = "spun"
      BY <1>13, <1>15, <2>1, <3>1
    <3>3. op = "spun"
      BY <1>12, <1>16, <3>2
    <3>4. QED  BY <1>14, <1>15, <3>3
  <2>6. op = "close" => All \subseteq ended
    <3> SUFFICES ASSUME op = "close" PROVE All \subseteq ended
      OBVIOUS
    <3>1. Has(s, "close")
      BY <1>11, <1>16
    <3>2. ~Has(s, "join")
      <4>1. ASSUME NEW k \in DOMAIN s, s[k].op = "join" PROVE FALSE
        <5>1. k < IF IsGuarded(s) THEN 2 ELSE 1
          <6>1. (IF IsGuarded(s) THEN 2 ELSE 1) \in DOMAIN s
            BY <1>7 DEF s
          <6>2. EndShape(s) /\ s[IF IsGuarded(s) THEN 2 ELSE 1].op = "close"
            BY <1>6, <1>13, <2>1 DEF s
          <6>3. QED  BY <4>1, <6>1, <6>2 DEF EndShape
        <5>2. k = 1 /\ IsGuarded(s)
          <6>1. DOMAIN s = 1..Len(s) /\ Len(s) \in Nat
            BY <1>7 DEF s
          <6>2. QED  BY <5>1, <6>1
        <5>3. s[1].op = "lock"
          BY <1>6, <5>2 DEF s
        <5>4. QED  BY <4>1, <5>2, <5>3
      <4>2. QED  BY <4>1 DEF Has
    <3>3. QED  BY <1>13, <2>1, <3>1, <3>2
  <2>7. camera' = "closed" => All \subseteq ended
    BY <1>13, <1>14, <2>1, <2>6
  <2>8. ~Has(todo[X], "launch")
    BY <2>5 DEF Starting
  <2>9. QED  BY <1>13, <2>1, <2>2, <2>3, <2>4, <2>5, <2>7, <2>8 DEF CameraInv
<1>19. CASE t = G
  <2>1. todo'[X] = todo[X] /\ todo'[S] = todo[S] /\ t # X /\ t # S
    BY <1>3, <1>4, <1>19
  <2>2. camera' = camera /\ ended \subseteq ended' /\ deinit' = deinit
    BY <1>14, <2>1
  <2>3. QED  BY <1>13, <2>1, <2>2 DEF CameraInv
<1>20. QED  BY <1>17, <1>18, <1>19 DEF Threads

LEMMA CameraNext == GrabInv /\ CameraInv /\ [NodesNext]_nodeVars => CameraInv'
<1> SUFFICES ASSUME GrabInv, CameraInv, [NodesNext]_nodeVars PROVE CameraInv'
  OBVIOUS
<1>1. X \in Threads /\ S \in Threads /\ X # S
  BY DEF Threads, X, S
<1>2. Shaped /\ DOMAIN todo = Threads
  BY DEF GrabInv, Shaped
<1>3. CASE UNCHANGED nodeVars
  <2>1. UNCHANGED <<todo, deinit, exited, ended, camera>>
    BY <1>3 DEF nodeVars, zedVars, control, endVars
  <2>2. QED  BY <2>1 DEF CameraInv
<1>4. CASE Rests
  <2>1. /\ exited = "no" /\ todo' = todo /\ deinit' = deinit /\ ended \subseteq ended'
        /\ camera' = camera \/ exited' # "no"
    BY <1>4 DEF Rests
  <2>2. QED  BY <2>1 DEF CameraInv
<1>5. CASE Calling
  <2>1. PICK c : Called(c) /\ todo' = [todo EXCEPT ![X] = c]
    BY <1>5 DEF Calling
  <2>2. exited = "no" /\ UNCHANGED <<camera, ended, deinit>>
    BY <1>5 DEF Calling
  <2>3. todo'[X] = c /\ todo'[S] = todo[S]
    BY <1>1, <1>2, <2>1
  <2>4. /\ StartShape(c) /\ ~Starting(c) /\ ~Has(c, "launch")
    BY <2>1 DEF Called, Special, StartShape, Starting, Has
  <2>5. QED  BY <2>2, <2>3, <2>4 DEF CameraInv
<1>6. CASE Interrupting
  <2>1. PICK steps \in {DeInit, OneDeInit} :
          todo' = [todo EXCEPT ![S] = (IF Hooked THEN <<>> ELSE Do("spun", "-")) \o steps]
    BY <1>6 DEF Interrupting
  <2>2. exited = "no" /\ deinit' /\ UNCHANGED <<camera, ended>>
    BY <1>6 DEF Interrupting
  <2>3. PICK e, z : e = (IF Hooked THEN <<>> ELSE Do("spun", "-")) /\ z = e \o steps
    OBVIOUS
  <2>4. todo'[S] = z /\ todo'[X] = todo[X]
    BY <1>1, <1>2, <2>1, <2>3
  <2>5. EndShape(z) /\ Has(z, "join") /\ (e = Do("spun", "-") => Has(z, "spun"))
    BY <2>3, EndShapes
  <2>6. Starting(todo[X]) => ~Hooked
    <3>1. Starting(todo[X]) => \E k \in DOMAIN todo[X] : todo[X][k].op = "register"
      BY DEF CameraInv, StartShape, Starting, Has
    <3>2. QED  BY <3>1 DEF Hooked
  <2>7. QED  BY <2>2, <2>3, <2>4, <2>5, <2>6 DEF CameraInv
<1>7. QED  BY <1>2, <1>3, <1>4, <1>5, <1>6, NodesStep, CameraMove

\* The camera is closed only when every thread that uses it has returned, in both
\* nodes, also when the interrupt meets a node that is still starting.
THEOREM NodesCameraOutlivesThreads == NodesFairSpec => []CameraOutlivesThreads
<1>1. NodesInit => GrabInv /\ CameraInv
  BY GrabInit, CameraInit
<1>2. GrabInv /\ CameraInv /\ [NodesNext]_nodeVars => GrabInv' /\ CameraInv'
  BY GrabNext, CameraNext
<1>3. CameraInv => CameraOutlivesThreads
  BY DEF CameraInv, CameraOutlivesThreads, All
<1>4. QED  BY <1>1, <1>2, <1>3, PTL DEF NodesFairSpec

-----------------------------------------------------------------------------
(* The flags agree with the SDK.  For a module and a thread, the sequence  *)
(* leads through these states: its mutex is not held by the thread; it is  *)
(* and all agrees; the module is to be enabled, or has been asked for; its *)
(* flags have been cleared, or it is running and about to be cleared.      *)

Flags == Modules \cap Locks
Kinds == {"free", "same", "due", "ahead", "off", "doomed"}

Same(m) ==
  /\ m \in running <=> m \in sdk
  /\ m = "map" => (m \in running => m \in wanted) /\ (~asked => m \notin wanted)
  /\ m = "rec" => (m \in running => input = "live")
Sure(m) == (m = "map" => asked /\ m \in wanted) /\ (m = "rec" => input = "live")
Means(m, x) ==
  /\ x = "same" => Same(m)
  /\ x = "due" => Sure(m)
  /\ x = "ahead" => Sure(m) /\ (m \in running => m \in sdk)
  /\ x = "off" => m \notin running /\ (m = "map" => m \notin wanted)
  /\ x = "doomed" => m \in running /\ m \in sdk

\* The steps that start a module, or decide whether it is started.
Starts(e, m) ==
  \/ e.op = "startTracking" /\ m = "pt"
  \/ e.op \in {"startMapping", "mapping"} /\ m = "map"
  \/ e.op = "record" /\ m = "rec"
  \/ e.op \in {"startDetector", "detect"} /\ e.arg = m

\* The steps whose functions take mutexes themselves: the thread holds none.
Outer ==
  {"tracking", "modules", "top", "grab", "reposition", "reset", "configure", "begin", "oneTop", "fetch",
   "grabbed", "quit", "seek"}
Owned == {"lock", "unlock", "enable", "started", "disable", "halt", "stopped", "unwanted"}
Concerns(e, m) ==
  \/ e.op \in Owned /\ e.arg = m
  \/ Starts(e, m) \/ e.op = "kill"
  \/ e.op = "grab" /\ m = "pt"

\* A step leads from x to y: with the steps of the function it calls, if any.
Turn(e, m, x, y) ==
  \/ e.op = "kill"
  \/ e.arg = m /\ \/ e.op = "lock" /\ x = "free" /\ y = "same"
                  \/ e.op = "unlock" /\ x = "same" /\ y = "free"
                  \/ e.op = "enable" /\ x = "due" /\ y = "ahead"
                  \/ e.op = "started" /\ x = "ahead" /\ y = "same"
                  \/ e.op = "disable" /\ x = "due" /\ y = "due"
                  \/ e.op = "disable" /\ x = "off" /\ y = "same"
                  \/ e.op = "halt" /\ x \in {"same", "doomed"} /\ y = "same"
  \/ Starts(e, m) /\ x = "same" /\ y = "same"
  \/ e.op = "grab" /\ m = "pt" /\ x = "same" /\ y = "free"
  \/ ~Concerns(e, m) /\ x = y /\ (e.op \in Outer => x = "free")

\* Arguments of their types.
Typed(e) ==
  /\ e.op \in {"enable", "started"} => e.arg \in Modules
  /\ e.op \in {"startDetector", "detect"} => e.arg \in Detectors
  /\ e.op \in {"mapping", "record"} => e.arg \in BOOLEAN

\* The unlocks from i to j, and what they lead to.
Unlocks(s, i, j) == \A k \in (i + 1)..j : s[k].op = "unlock"
Frees(s, m, i, j) == \E k \in (i + 1)..j : s[k].arg = m
Path(s, m, h) ==
  /\ h \in [0..Len(s) -> Kinds]
  /\ \A j \in 1..Len(s) : Typed(s[j]) /\ Turn(s[j], m, h[j - 1], h[j])
  /\ \A i, j \in 0..Len(s) :
       i <= j /\ Unlocks(s, i, j) => h[j] = IF Frees(s, m, i, j) THEN "free" ELSE h[i]
Leads(s, m, x, y) == s \in Seq(StepSet) /\ \E h : Path(s, m, h) /\ h[0] = x /\ h[Len(s)] = y

LEMMA LeadsEmpty ==
  ASSUME NEW m, NEW x \in Kinds
  PROVE  Leads(<<>>, m, x, x)
<1> DEFINE h == [j \in 0..0 |-> x]
<1>1. <<>> \in Seq(StepSet) /\ Len(<<>>) = 0 /\ h[0] = x /\ h \in [0..Len(<<>>) -> Kinds]
  OBVIOUS
<1>2. \A i, j \in 0..Len(<<>>) : i = 0 /\ j = 0
  BY <1>1
<1> HIDE DEF h
<1>3. Path(<<>>, m, h)
  BY <1>1, <1>2 DEF Path, Frees
<1>4. QED  BY <1>1, <1>3 DEF Leads

LEMMA LeadsDo ==
  ASSUME NEW m, NEW op, NEW arg, [op |-> op, arg |-> arg] \in StepSet, Typed([op |-> op, arg |-> arg]),
         NEW x \in Kinds, NEW y \in Kinds, Turn([op |-> op, arg |-> arg], m, x, y)
  PROVE  Leads(Do(op, arg), m, x, y)
<1> DEFINE h == [j \in 0..1 |-> IF j = 0 THEN x ELSE y]
<1>1. PICK e : e = [op |-> op, arg |-> arg]
  OBVIOUS
<1>2. PICK s : s = Do(op, arg)
  OBVIOUS
<1>3. s \in Seq(StepSet) /\ Len(s) = 1 /\ s[1] = e
  BY <1>1, <1>2, DoFacts
<1>4. h[0] = x /\ h[1] = y /\ h \in [0..Len(s) -> Kinds]
  BY <1>3
<1> HIDE DEF h
<1>5. \A j \in 1..Len(s) : Typed(s[j]) /\ Turn(s[j], m, h[j - 1], h[j])
  BY <1>1, <1>3, <1>4
<1>6. ASSUME NEW i \in 0..Len(s), NEW j \in 0..Len(s), i <= j, Unlocks(s, i, j)
      PROVE  h[j] = IF Frees(s, m, i, j) THEN "free" ELSE h[i]
  <2>1. CASE i = j
    BY <2>1 DEF Frees
  <2>2. CASE i # j
    <3>1. i = 0 /\ j = 1
      BY <1>3, <1>6, <2>2
    <3>2. e.op = "unlock" /\ (Frees(s, m, i, j) <=> e.arg = m)
      BY <1>3, <1>6, <3>1 DEF Unlocks, Frees
    <3>3. y = IF e.arg = m THEN "free" ELSE x
      BY <1>1, <3>2 DEF Turn, Concerns, Starts, Owned
    <3>4. QED  BY <1>4, <3>1, <3>2, <3>3
  <2>3. QED  BY <2>1, <2>2
<1>7. Path(s, m, h)
  BY <1>4, <1>5, <1>6 DEF Path
<1>8. QED  BY <1>2, <1>3, <1>4, <1>7 DEF Leads

LEMMA LeadsConcat ==
  ASSUME NEW m, NEW a, NEW b, NEW x, NEW y, NEW z, Leads(a, m, x, y), Leads(b, m, y, z)
  PROVE  Leads(a \o b, m, x, z)
<1>1. PICK f : Path(a, m, f) /\ f[0] = x /\ f[Len(a)] = y
  BY DEF Leads
<1>2. PICK g : Path(b, m, g) /\ g[0] = y /\ g[Len(b)] = z
  BY DEF Leads
<1>3. PICK s : s = a \o b
  OBVIOUS
<1>4. PICK p, q : p = Len(a) /\ q = Len(b)
  OBVIOUS
<1>5. /\ s \in Seq(StepSet) /\ Len(s) = p + q /\ p \in Nat /\ q \in Nat
      /\ \A j \in 1..(p + q) : s[j] = IF j <= p THEN a[j] ELSE b[j - p]
  BY <1>3, <1>4, ConcatFacts DEF Leads
<1> DEFINE h == [j \in 0..Len(s) |-> IF j <= p THEN f[j] ELSE g[j - p]]
<1>6. /\ f \in [0..p -> Kinds] /\ g \in [0..q -> Kinds]
      /\ \A j \in 1..p : Typed(a[j]) /\ Turn(a[j], m, f[j - 1], f[j])
      /\ \A j \in 1..q : Typed(b[j]) /\ Turn(b[j], m, g[j - 1], g[j])
      /\ \A i, j \in 0..p : i <= j /\ Unlocks(a, i, j) => f[j] = IF Frees(a, m, i, j) THEN "free" ELSE f[i]
      /\ \A i, j \in 0..q : i <= j /\ Unlocks(b, i, j) => g[j] = IF Frees(b, m, i, j) THEN "free" ELSE g[i]
  BY <1>1, <1>2, <1>4 DEF Path
<1>7. /\ h \in [0..Len(s) -> Kinds]
      /\ \A j \in 0..p : h[j] = f[j]
      /\ \A j \in 0..q : h[p + j] = g[j]
  <2>1. h \in [0..Len(s) -> Kinds]
    BY <1>5, <1>6
  <2>2. \A j \in 0..p : h[j] = f[j]
    BY <1>5
  <2>3. ASSUME NEW j \in 0..q PROVE h[p + j] = g[j]
    <3>1. CASE j = 0
      BY <1>1, <1>2, <1>4, <1>5, <3>1
    <3>2. CASE j > 0
      BY <1>5, <3>2
    <3>3. QED  BY <3>1, <3>2
  <2>4. QED  BY <2>1, <2>2, <2>3
<1> HIDE DEF h
<1>8. ASSUME NEW j \in 1..Len(s) PROVE Typed(s[j]) /\ Turn(s[j], m, h[j - 1], h[j])
  <2>1. CASE j <= p
    <3>1. j \in 1..p /\ s[j] = a[j] /\ j - 1 \in 0..p /\ j \in 0..p
      BY <1>5, <2>1
    <3>2. h[j - 1] = f[j - 1] /\ h[j] = f[j]
      BY <1>7, <3>1
    <3>3. QED  BY <1>6, <3>1, <3>2
  <2>2. CASE j > p
    <3>1. PICK k : k = j - p
      OBVIOUS
    <3>2. k \in 1..q /\ s[j] = b[k] /\ k - 1 \in 0..q /\ j = p + k /\ j - 1 = p + (k - 1)
      BY <1>5, <2>2, <3>1
    <3>3. h[j - 1] = g[k - 1] /\ h[j] = g[k]
      BY <1>7, <3>2
    <3>4. QED  BY <1>6, <3>2, <3>3
  <2>3. QED  BY <1>5, <2>1, <2>2
<1>9. ASSUME NEW i \in 0..Len(s), NEW j \in 0..Len(s), i <= j, Unlocks(s, i, j)
      PROVE  h[j] = IF Frees(s, m, i, j) THEN "free" ELSE h[i]
  <2>1. CASE j <= p
    <3>1. \A k \in (i + 1)..j : s[k] = a[k]
      BY <1>5, <2>1
    <3>2. Unlocks(a, i, j) /\ (Frees(s, m, i, j) <=> Frees(a, m, i, j))
      BY <1>9, <3>1 DEF Unlocks, Frees
    <3>3. i \in 0..p /\ j \in 0..p
      BY <1>5, <1>9, <2>1
    <3>4. h[j] = f[j] /\ h[i] = f[i]
      BY <1>7, <3>3
    <3>5. QED  BY <1>6, <1>9, <3>2, <3>3, <3>4
  <2>2. CASE i >= p
    <3>1. PICK u, v : u = i - p /\ v = j - p
      OBVIOUS
    <3>2. u \in 0..q /\ v \in 0..q /\ u <= v /\ i = p + u /\ j = p + v
      BY <1>5, <1>9, <2>2, <3>1
    <3>3. /\ \A k \in (i + 1)..j : k - p \in (u + 1)..v /\ s[k] = b[k - p]
          /\ \A k \in (u + 1)..v : k + p \in (i + 1)..j /\ s[k + p] = b[k]
      BY <1>5, <3>2
    <3>4. Unlocks(b, u, v) /\ (Frees(s, m, i, j) <=> Frees(b, m, u, v))
      <4>1. Unlocks(b, u, v)
        BY <1>9, <3>3 DEF Unlocks
      <4>2. Frees(s, m, i, j) => Frees(b, m, u, v)
        BY <3>3 DEF Frees
      <4>3. Frees(b, m, u, v) => Frees(s, m, i, j)
        BY <3>3 DEF Frees
      <4>4. QED  BY <4>1, <4>2, <4>3
    <3>5. h[j] = g[v] /\ h[i] = g[u]
      BY <1>7, <3>2
    <3>6. QED  BY <1>6, <3>2, <3>4, <3>5
  <2>3. CASE i < p /\ p < j
    <3>1. PICK v : v = j - p
      OBVIOUS
    <3>2. v \in 0..q /\ j = p + v /\ i \in 0..p /\ p \in 0..p /\ 0 \in 0..q
      BY <1>5, <1>9, <2>3, <3>1
    <3>3. /\ \A k \in (i + 1)..p : k \in (i + 1)..j /\ s[k] = a[k]
          /\ \A k \in 1..v : k + p \in (i + 1)..j /\ s[k + p] = b[k]
          /\ \A k \in (i + 1)..j : k \in (i + 1)..p \/ k - p \in 1..v
      BY <1>5, <2>3, <3>2
    <3>4. Unlocks(a, i, p) /\ Unlocks(b, 0, v)
      BY <1>9, <3>3 DEF Unlocks
    <3>5. Frees(s, m, i, j) <=> Frees(a, m, i, p) \/ Frees(b, m, 0, v)
      <4>1. Frees(a, m, i, p) => Frees(s, m, i, j)
        BY <3>3 DEF Frees
      <4>2. Frees(b, m, 0, v) => Frees(s, m, i, j)
        BY <3>3 DEF Frees
      <4>3. ASSUME NEW k \in (i + 1)..j, s[k].arg = m PROVE Frees(a, m, i, p) \/ Frees(b, m, 0, v)
        <5>1. CASE k \in (i + 1)..p
          BY <3>3, <4>3, <5>1 DEF Frees
        <5>2. CASE k - p \in 1..v
          <6>1. s[k] = b[k - p]
            BY <1>5, <3>2, <5>2
          <6>2. QED  BY <4>3, <5>2, <6>1 DEF Frees
        <5>3. QED  BY <3>3, <5>1, <5>2
      <4>4. QED  BY <4>1, <4>2, <4>3 DEF Frees
    <3>6. f[p] = IF Frees(a, m, i, p) THEN "free" ELSE f[i]
      BY <1>6, <2>3, <3>2, <3>4
    <3>7. g[v] = IF Frees(b, m, 0, v) THEN "free" ELSE g[0]
      BY <1>6, <3>2, <3>4
    <3>8. h[j] = g[v] /\ h[i] = f[i] /\ g[0] = f[p]
      BY <1>1, <1>2, <1>4, <1>7, <3>2
    <3>9. QED  BY <3>5, <3>6, <3>7, <3>8
  <2>4. QED  BY <1>5, <1>9, <2>1, <2>2, <2>3
<1>10. Path(s, m, h)
  BY <1>7, <1>8, <1>9 DEF Path
<1>11. h[0] = x /\ h[Len(s)] = z
  BY <1>1, <1>2, <1>4, <1>5, <1>7
<1>12. QED  BY <1>3, <1>5, <1>10, <1>11 DEF Leads

\* The first n steps are done.
LEMMA LeadsCut ==
  ASSUME NEW m, NEW s, NEW x, NEW z, Leads(s, m, x, z), NEW n \in Nat, n <= Len(s),
         NEW r \in Seq(StepSet), Len(r) = Len(s) - n, \A j \in 1..(Len(s) - n) : r[j] = s[n + j]
  PROVE  /\ x \in Kinds /\ z \in Kinds
         /\ \E h : /\ Path(s, m, h) /\ h[0] = x /\ h \in [0..Len(s) -> Kinds]
                   /\ Leads(r, m, h[n], z)
<1>1. s \in Seq(StepSet) /\ Len(s) \in Nat
  BY DEF Leads
<1>2. PICK h : Path(s, m, h) /\ h[0] = x /\ h[Len(s)] = z
  BY DEF Leads
<1>3. PICK l : l = Len(s)
  OBVIOUS
<1>4. /\ h \in [0..l -> Kinds] /\ l \in Nat /\ n <= l
      /\ \A j \in 1..l : Typed(s[j]) /\ Turn(s[j], m, h[j - 1], h[j])
      /\ \A i, j \in 0..l : i <= j /\ Unlocks(s, i, j) => h[j] = IF Frees(s, m, i, j) THEN "free" ELSE h[i]
  BY <1>1, <1>2, <1>3 DEF Path
<1> DEFINE f == [j \in 0..(l - n) |-> h[n + j]]
<1>5. /\ f \in [0..(l - n) -> Kinds] /\ f[0] = h[n] /\ f[l - n] = z /\ x \in Kinds /\ z \in Kinds
      /\ \A j \in 0..(l - n) : f[j] = h[n + j]
      /\ l - n \in Nat /\ Len(r) = l - n /\ \A j \in 1..(l - n) : r[j] = s[n + j]
  BY <1>2, <1>3, <1>4
<1> HIDE DEF f
<1>6. ASSUME NEW j \in 1..(l - n) PROVE Typed(r[j]) /\ Turn(r[j], m, f[j - 1], f[j])
  <2>1. n + j \in 1..l /\ j - 1 \in 0..(l - n) /\ j \in 0..(l - n) /\ n + (j - 1) = (n + j) - 1
    BY <1>4, <1>5
  <2>2. r[j] = s[n + j]
    BY <1>5
  <2>3. f[j - 1] = h[(n + j) - 1] /\ f[j] = h[n + j]
    BY <1>5, <2>1
  <2>4. QED  BY <1>4, <2>1, <2>2, <2>3
<1>7. ASSUME NEW i \in 0..(l - n), NEW j \in 0..(l - n), i <= j, Unlocks(r, i, j)
      PROVE  f[j] = IF Frees(r, m, i, j) THEN "free" ELSE f[i]
  <2>1. PICK u, v : u = n + i /\ v = n + j
    OBVIOUS
  <2>2. u \in 0..l /\ v \in 0..l /\ u <= v
    BY <1>4, <1>7, <2>1
  <2>3. /\ \A k \in (i + 1)..j : n + k \in (u + 1)..v /\ r[k] = s[n + k]
        /\ \A k \in (u + 1)..v : k - n \in (i + 1)..j /\ s[k] = r[k - n]
    BY <1>4, <1>5, <2>1
  <2>4. Unlocks(s, u, v) /\ (Frees(s, m, u, v) <=> Frees(r, m, i, j))
    <3>1. \A k \in (u + 1)..v : s[k].op = "unlock"
      BY <1>7, <2>3 DEF Unlocks
    <3>2. Frees(s, m, u, v) => Frees(r, m, i, j)
      BY <2>3 DEF Frees
    <3>3. Frees(r, m, i, j) => Frees(s, m, u, v)
      BY <2>3 DEF Frees
    <3>4. QED  BY <3>1, <3>2, <3>3 DEF Unlocks
  <2>5. h[v] = IF Frees(s, m, u, v) THEN "free" ELSE h[u]
    BY <1>4, <2>2, <2>4
  <2>6. QED  BY <1>5, <2>1, <2>4, <2>5
<1>8. Path(r, m, f)
  BY <1>5, <1>6, <1>7 DEF Path
<1>9. Leads(r, m, h[n], z)
  BY <1>5, <1>8 DEF Leads
<1>10. QED  BY <1>2, <1>3, <1>4, <1>5, <1>9

-----------------------------------------------------------------------------
(* The invariant, and what a step has to do for it.                        *)

Holds(t, m, x) == (x = "free" <=> lock[m] # t) /\ Means(m, x) /\ Leads(todo[t], m, x, "free")
FlagsInv ==
  \A m \in Flags :
    (lock[m] = None => Same(m)) /\ \A t \in Threads : \E x \in Kinds : Holds(t, m, x)

\* What the invariant says of a module is as it was.
Kept(m) ==
  /\ m \in running' <=> m \in running
  /\ m \in sdk' <=> m \in sdk
  /\ m = "map" => (m \in wanted' <=> m \in wanted) /\ asked' = asked
  /\ input' = input

\* The step and the function c that it calls lead from x to y.
Does(e, c) ==
  /\ \A m \in Flags, x \in Kinds, y \in Kinds :
       e.op # "lock" /\ Turn(e, m, x, y) /\ Means(m, x) =>
         \E w \in Kinds : (w = "free" <=> x = "free") /\ Means(m, w)' /\ Leads(c, m, w, y)
  /\ \A m \in Flags : Kept(m) \/ \A y \in Kinds : ~Turn(e, m, "free", y)
  /\ e.op = "lock" => c = <<>> /\ \A m \in Flags : Kept(m)
  /\ e.op # "kill"

LEMMA KeptMeans ==
  ASSUME NEW m \in Flags, Kept(m), NEW x \in Kinds, Means(m, x)
  PROVE  Means(m, x)'
  BY DEF Kept, Means, Same, Sure

LEMMA LeadsDrop ==
  ASSUME NEW m, NEW s, NEW x, NEW z, Leads(s, m, x, z), NEW n \in 0..Len(s)
  PROVE  \E h : /\ Path(s, m, h) /\ h[0] = x /\ h \in [0..Len(s) -> Kinds]
               /\ Leads(SubSeq(s, n + 1, Len(s)), m, h[n], z)
<1>1. PICK r : r = SubSeq(s, n + 1, Len(s))
  OBVIOUS
<1>2. s \in Seq(StepSet) /\ Len(s) \in Nat
  BY DEF Leads
<1>3. /\ r \in Seq(StepSet) /\ Len(r) = Len(s) - n /\ n \in Nat /\ n <= Len(s)
      /\ \A j \in 1..(Len(s) - n) : r[j] = s[n + j]
  BY <1>1, <1>2, StripFacts
<1>4. \E h : /\ Path(s, m, h) /\ h[0] = x /\ h \in [0..Len(s) -> Kinds]
            /\ Leads(r, m, h[n], z)
  BY <1>3, LeadsCut
<1>5. QED  BY <1>1, <1>4

LEMMA FlagsAreLocks == \A m \in Flags : m \in Locks /\ m \in Args /\ m \in Modules
  BY ZedControlAssumption DEF Flags, Locks, Modules, Args, ZedControlAssumption

\* The step, and behind it what the thread has still to do, unlocks included.
LEMMA StepLeads ==
  ASSUME FlagsInv, Shaped, NEW t \in Threads, NEW op, At(t, op),
         NEW c \in Seq(StepSet), Does(Step(t), c), NEW m \in Flags
  PROVE  \E w \in Kinds :
           /\ w = "free" <=> lock[m] # t /\ m \notin Taken(t)
           /\ Means(m, w)' /\ (w = "free" => Kept(m))
           /\ Leads(c \o Behind(todo[t]), m, w, "free")
<1>1. PICK s : s = todo[t]
  OBVIOUS
<1>2. /\ s # <<>> /\ Ready(s) /\ Step(t) = s[IF IsGuarded(s) THEN 2 ELSE 1]
      /\ \A l \in Taken(t) : lock[l] = None
      /\ s[1].op = "lock" => Taken(t) = {s[1].arg}
      /\ s[1].op # "lock" => Taken(t) = {}
  BY <1>1, StepFacts
<1>3. /\ s \in Seq(StepSet) /\ Len(s) \in Nat /\ Behind(s) \in Seq(StepSet)
      /\ After(s) \in {2, 3} /\ After(s) <= Len(s) + 1 /\ Len(Behind(s)) = Len(s) - (After(s) - 1)
      /\ \A j \in 1..(Len(s) - (After(s) - 1)) : Behind(s)[j] = s[(After(s) - 1) + j]
  <2>1. PICK k : k = After(s)
    OBVIOUS
  <2>2. /\ s \in Seq(StepSet) /\ Len(s) \in Nat /\ Behind(s) \in Seq(StepSet)
        /\ k \in {2, 3} /\ k <= Len(s) + 1 /\ Len(Behind(s)) = Len(s) - k + 1
        /\ \A j \in 1..(Len(s) - k + 1) : Behind(s)[j] = s[j + k - 1]
    <3>1. s \in Seq(StepSet)
      BY <1>2 DEF Ready, Nested
    <3>2. /\ After(s) \in {2, 3} /\ After(s) <= Len(s) + 1 /\ Len(s) \in Nat
          /\ Behind(s) \in Seq(StepSet) /\ Len(Behind(s)) = Len(s) - After(s) + 1
          /\ \A j \in 1..(Len(s) - After(s) + 1) : Behind(s)[j] = s[j + After(s) - 1]
      BY <1>2, BehindFacts
    <3>3. QED  BY <2>1, <3>1, <3>2
  <2>3. Len(s) - k + 1 = Len(s) - (k - 1)
    BY <2>2
  <2>4. ASSUME NEW j \in 1..(Len(s) - (k - 1)) PROVE Behind(s)[j] = s[(k - 1) + j]
    <3>1. j \in 1..(Len(s) - k + 1) /\ j + k - 1 = (k - 1) + j
      BY <2>2, <2>3
    <3>2. QED  BY <2>2, <3>1
  <2>5. QED  BY <2>1, <2>2, <2>3, <2>4
<1>4. PICK x \in Kinds : (x = "free" <=> lock[m] # t) /\ Means(m, x) /\ Leads(s, m, x, "free")
  BY <1>1 DEF FlagsInv, Holds
<1>5. PICK h : Path(s, m, h) /\ h[0] = x /\ h \in [0..Len(s) -> Kinds] /\ Leads(Behind(s), m, h[After(s) - 1], "free")
  <2>1. After(s) - 1 \in Nat /\ After(s) - 1 <= Len(s)
    BY <1>3
  <2>2. QED  BY <1>3, <1>4, <2>1, LeadsCut
<1>6. /\ \A j \in 1..Len(s) : Turn(s[j], m, h[j - 1], h[j])
      /\ 1 \in 1..Len(s) /\ (After(s) = 3 => 2 \in 1..Len(s))
      /\ h[1] \in Kinds /\ (After(s) = 3 => h[2] \in Kinds)
  BY <1>3, <1>5 DEF Path
<1>7. None \notin Threads /\ (m \in Taken(t) => Same(m) /\ lock[m] # t)
  BY <1>2, ZedControlAssumption DEF FlagsInv, ZedControlAssumption
\* The mutex, if one is taken, leads to what its step begins with.
<1>8. ASSUME s[1].op = "lock"
      PROVE  /\ h[1] = "free" <=> lock[m] # t /\ m \notin Taken(t)
             /\ Means(m, h[1])
  <2>1. Turn(s[1], m, x, h[1]) /\ Taken(t) = {s[1].arg}
    BY <1>2, <1>5, <1>6, <1>8
  <2>2. CASE s[1].arg = m
    <3>1. x = "free" /\ h[1] = "same"
      BY <1>8, <2>1, <2>2 DEF Turn, Concerns, Owned, Starts
    <3>2. QED  BY <1>7, <2>1, <2>2, <3>1 DEF Means
  <2>3. CASE s[1].arg # m
    <3>1. h[1] = x
      BY <1>8, <2>1, <2>3 DEF Turn, Starts
    <3>2. QED  BY <1>4, <2>1, <2>3, <3>1
  <2>4. QED  BY <2>2, <2>3
<1>9. ASSUME NEW u \in Kinds, NEW v \in Kinds, Turn(Step(t), m, u, v), Means(m, u), Step(t).op # "lock",
             u = "free" <=> lock[m] # t /\ m \notin Taken(t),
             Leads(Behind(s), m, v, "free")
      PROVE  \E w \in Kinds :
               /\ w = "free" <=> lock[m] # t /\ m \notin Taken(t)
               /\ Means(m, w)' /\ (w = "free" => Kept(m))
               /\ Leads(c \o Behind(s), m, w, "free")
  <2>1. PICK w \in Kinds : (w = "free" <=> u = "free") /\ Means(m, w)' /\ Leads(c, m, w, v)
    BY <1>9 DEF Does
  <2>2. Leads(c \o Behind(s), m, w, "free")
    BY <1>9, <2>1, LeadsConcat
  <2>3. w = "free" => Kept(m)
    BY <1>9, <2>1 DEF Does
  <2>4. QED  BY <1>9, <2>1, <2>2, <2>3
<1>10. CASE IsGuarded(s)
  <2>1. After(s) = 3 /\ s[1].op = "lock" /\ Step(t) = s[2] /\ s[2].op # "lock"
    BY <1>2, <1>10 DEF After, IsGuarded
  <2>2. Turn(s[2], m, h[1], h[2]) /\ h[1] \in Kinds /\ h[2] \in Kinds /\ Leads(Behind(s), m, h[2], "free")
    BY <1>5, <1>6, <2>1
  <2>3. QED  BY <1>1, <1>8, <1>9, <2>1, <2>2
<1>11. CASE ~IsGuarded(s) /\ s[1].op # "lock"
  <2>1. After(s) = 2 /\ Step(t) = s[1] /\ Taken(t) = {}
    BY <1>2, <1>11 DEF After
  <2>2. Turn(s[1], m, x, h[1]) /\ h[1] \in Kinds /\ Leads(Behind(s), m, h[1], "free")
    BY <1>5, <1>6, <2>1
  <2>3. QED  BY <1>1, <1>4, <1>9, <1>11, <2>1, <2>2
<1>12. CASE ~IsGuarded(s) /\ s[1].op = "lock"
  <2>1. After(s) = 2 /\ Step(t) = s[1]
    BY <1>2, <1>12 DEF After
  <2>2. c = <<>> /\ Kept(m)
    BY <1>12, <2>1 DEF Does
  <2>3. Leads(Behind(s), m, h[1], "free") /\ c \o Behind(s) = Behind(s) /\ h[1] \in Kinds
    BY <1>3, <1>5, <1>6, <2>1, <2>2
  <2>4. Means(m, h[1])'
    BY <1>8, <1>12, <2>2, <2>3, KeptMeans
  <2>5. QED  BY <1>1, <1>8, <1>12, <2>2, <2>3, <2>4
<1>13. QED  BY <1>10, <1>11, <1>12

LEMMA FlagsMove ==
  ASSUME FlagsInv, Shaped, lock \in [Locks -> Threads \cup {None}],
         NEW t \in Threads, NEW op, At(t, op), NEW c \in Seq(StepSet), Continue(t, c), Does(Step(t), c)
  PROVE  FlagsInv'
<1>1. PICK next : next = c \o Behind(todo[t])
  OBVIOUS
<1>2. PICK n : Goes(t, next, n)
  BY <1>1, ContinueNext
<1>3. Behind(todo[t]) \in Seq(StepSet)
  BY StepFacts, BehindFacts
<1>4. next \in Seq(StepSet) /\ n \in Nat /\ n <= Len(next) /\ Len(next) \in Nat
  BY <1>1, <1>2, <1>3 DEF Goes
<1>5. PICK r : r = SubSeq(next, n + 1, Len(next))
  OBVIOUS
<1>6. /\ r \in Seq(StepSet) /\ Len(r) = Len(next) - n
      /\ \A j \in 1..(Len(next) - n) : r[j] = next[n + j]
  <2>1. n \in 0..Len(next)
    BY <1>4
  <2>2. QED  BY <1>4, <1>5, <2>1, StripFacts
<1>7. /\ \A j \in 1..n : next[j].op = "unlock"
      /\ todo' = [todo EXCEPT ![t] = r]
      /\ lock' = [l \in Locks |-> IF \E j \in 1..n : next[j].arg = l THEN None
                                  ELSE IF l \in Taken(t) THEN t ELSE lock[l]]
  BY <1>2, <1>5 DEF Goes
<1>8. /\ todo'[t] = r /\ \A u \in Threads \ {t} : todo'[u] = todo[u]
      /\ None \notin Threads
      /\ \A l \in Taken(t) : lock[l] = None
  BY <1>7, StepFacts, ZedControlAssumption DEF Shaped, ZedControlAssumption
<1> SUFFICES ASSUME NEW m \in Flags
             PROVE  /\ (lock[m] = None => Same(m))'
                    /\ \A u \in Threads : \E x \in Kinds : Holds(u, m, x)'
  BY DEF FlagsInv
<1>9. PICK w \in Kinds : /\ w = "free" <=> lock[m] # t /\ m \notin Taken(t)
                         /\ Means(m, w)' /\ (w = "free" => Kept(m))
                         /\ Leads(next, m, w, "free")
  BY <1>1, StepLeads
<1>10. PICK h : Path(next, m, h) /\ h[0] = w /\ h \in [0..Len(next) -> Kinds] /\ Leads(r, m, h[n], "free")
  <2>1. Leads(next, m, w, "free")
    BY <1>9
  <2>2. n \in 0..Len(next)
    BY <1>4
  <2>3. QED  BY <1>5, <2>1, <2>2, LeadsDrop
<1>11. lock'[m] = IF Frees(next, m, 0, n) THEN None ELSE IF m \in Taken(t) THEN t ELSE lock[m]
  BY <1>7, FlagsAreLocks DEF Frees
<1>12. ASSUME NEW j \in 0..n PROVE h[j] = IF Frees(next, m, 0, j) THEN "free" ELSE w
  <2>1. Unlocks(next, 0, j) /\ 0 <= j /\ 0 \in 0..Len(next) /\ j \in 0..Len(next)
    BY <1>4, <1>7 DEF Unlocks
  <2>2. QED  BY <1>10, <2>1 DEF Path
<1>13. h[n] \in Kinds /\ h[n] = IF Frees(next, m, 0, n) THEN "free" ELSE w
  BY <1>4, <1>10, <1>12
\* An unlock of the module's mutex finds it held, and all in agreement.
<1>14. Frees(next, m, 0, n) => w = "same"
  <2>1. ASSUME NEW k \in 1..n, next[k].arg = m PROVE w = "same"
    <3>1. k \in 1..Len(next) /\ k - 1 \in 0..n
      BY <1>4
    <3>2. Turn(next[k], m, h[k - 1], h[k]) /\ next[k].op = "unlock"
      BY <1>7, <1>10, <3>1 DEF Path
    <3>3. h[k - 1] = "same"
      BY <2>1, <3>2 DEF Turn, Concerns, Owned, Starts
    <3>4. QED  BY <1>12, <3>1, <3>3
  <2>2. QED  BY <2>1 DEF Frees
<1>15. (lock[m] = None => Same(m))'
  <2>1. CASE Frees(next, m, 0, n)
    BY <1>9, <1>14, <2>1 DEF Means
  <2>2. CASE ~Frees(next, m, 0, n)
    <3>1. ASSUME lock'[m] = None PROVE Same(m)'
      <4>1. lock[m] = None /\ w = "free"
        BY <1>8, <1>9, <1>11, <2>2, <3>1
      <4>2. Same(m) /\ Kept(m)
        BY <1>9, <4>1 DEF FlagsInv
      <4>3. QED  BY <4>2 DEF Kept, Same
    <3>2. QED  BY <3>1
  <2>3. QED  BY <2>1, <2>2
<1>16. Holds(t, m, h[n])'
  <2>1. h[n] = "free" <=> lock'[m] # t
    BY <1>8, <1>9, <1>11, <1>13, <1>14
  <2>2. Means(m, h[n])'
    BY <1>9, <1>13 DEF Means
  <2>3. QED  BY <1>8, <1>10, <2>1, <2>2 DEF Holds
<1>17. ASSUME NEW u \in Threads \ {t} PROVE \E x \in Kinds : Holds(u, m, x)'
  <2>1. PICK x \in Kinds : Holds(u, m, x)
    BY DEF FlagsInv
  <2>2. x = "free" <=> lock'[m] # u
    BY <1>8, <1>9, <1>11, <1>14, <2>1 DEF Holds
  <2>3. Means(m, x)'
    <3>1. CASE x = "free"
      BY <3>1 DEF Means
    <3>2. CASE x # "free"
      <4>1. lock[m] = u /\ w = "free"
        BY <1>8, <1>9, <2>1, <3>2 DEF Holds
      <4>2. QED  BY <1>9, <2>1, <4>1, KeptMeans DEF Holds
    <3>3. QED  BY <3>1, <3>2
  <2>4. QED  BY <1>8, <2>1, <2>2, <2>3 DEF Holds
<1>18. QED  BY <1>13, <1>15, <1>16, <1>17

-----------------------------------------------------------------------------
(* Where the functions lead.                                               *)

\* Whatever the thread holds, nothing, or the one mutex l.
Still(c) == \A m \in Flags, x \in Kinds : Leads(c, m, x, x)
Alone(c) == \A m \in Flags : Leads(c, m, "free", "free")
Under(c, l) == \A m \in Flags : LET x == IF m = l THEN "same" ELSE "free" IN Leads(c, m, x, x)

\* From w to y for the module a, and nothing for the others.
Brings(c, a, w, y) ==
  Leads(c, a, w, y) /\ \A m \in Flags \ {a}, x \in Kinds : Leads(c, m, x, x)

Harmless ==
  {"use", "count", "stream", "region", "stop", "down", "save", "diagnose", "roi", "resetRoi", "depth",
   "streaming", "temperature", "fused", "clicked", "pause", "replay", "status", "images",
   "report", "end", "oneSeek", "oneReplay", "register", "connect", "launch", "open", "spun", "join",
   "close"}

LEMMA KindsAre ==
  /\ "free" \in Kinds /\ "same" \in Kinds /\ "due" \in Kinds /\ "ahead" \in Kinds /\ "off" \in Kinds
  /\ "doomed" \in Kinds
  BY DEF Kinds

LEMMA StillIs ==
  ASSUME NEW c, Still(c)
  PROVE  Alone(c) /\ \A l : Under(c, l)
  BY KindsAre DEF Still, Alone, Under

LEMMA StillEmpty == Still(<<>>)
  BY LeadsEmpty DEF Still

LEMMA StillDo ==
  ASSUME NEW op \in Harmless, NEW arg \in Args
  PROVE  Still(Do(op, arg))
<1> SUFFICES ASSUME NEW m \in Flags, NEW x \in Kinds PROVE Leads(Do(op, arg), m, x, x)
  BY DEF Still
<1>1. PICK e : e = [op |-> op, arg |-> arg]
  OBVIOUS
<1>2. e \in StepSet /\ e.op = op
  BY <1>1 DEF StepSet, Harmless, Common, Special
<1>3. Typed(e) /\ Turn(e, m, x, x)
  BY <1>2 DEF Typed, Turn, Concerns, Starts, Owned, Outer, Harmless
<1>4. QED  BY <1>1, <1>2, <1>3, LeadsDo

LEMMA AloneDo ==
  ASSUME NEW op \in Outer \ {"grab"}, NEW arg \in Args
  PROVE  Alone(Do(op, arg))
<1> SUFFICES ASSUME NEW m \in Flags PROVE Leads(Do(op, arg), m, "free", "free")
  BY DEF Alone
<1>1. PICK e : e = [op |-> op, arg |-> arg]
  OBVIOUS
<1>2. e \in StepSet /\ e.op = op
  BY <1>1 DEF StepSet, Outer, Common
<1>3. Typed(e) /\ Turn(e, m, "free", "free")
  BY <1>2 DEF Typed, Turn, Concerns, Starts, Owned, Outer
<1>4. QED  BY <1>1, <1>2, <1>3, KindsAre, LeadsDo

\* The end of the process.
LEMMA KillLeads ==
  ASSUME NEW m \in Flags, NEW x \in Kinds, NEW y \in Kinds
  PROVE  Leads(Do("kill", "-"), m, x, y)
<1>1. PICK e : e = [op |-> "kill", arg |-> "-"]
  OBVIOUS
<1>2. e \in StepSet /\ e.op = "kill"
  BY <1>1 DEF StepSet, Common, Args
<1>3. Typed(e) /\ Turn(e, m, x, y)
  BY <1>2 DEF Typed, Turn
<1>4. QED  BY <1>1, <1>2, <1>3, LeadsDo

\* A step about the module a.
LEMMA BringsDo ==
  ASSUME NEW op, NEW arg, NEW e, e = [op |-> op, arg |-> arg], e \in StepSet, Typed(e), NEW a,
         NEW x \in Kinds, NEW y \in Kinds, Turn(e, a, x, y),
         op \notin Outer \ {"grab"}, \A m \in Flags \ {a} : ~Concerns(e, m) /\ op # "grab"
  PROVE  Brings(Do(op, arg), a, x, y)
<1>1. Leads(Do(op, arg), a, x, y)
  BY LeadsDo
<1>2. ASSUME NEW m \in Flags \ {a}, NEW z \in Kinds PROVE Leads(Do(op, arg), m, z, z)
  <2>1. Turn(e, m, z, z)
    BY DEF Turn
  <2>2. QED  BY <2>1, LeadsDo
<1>3. QED  BY <1>1, <1>2 DEF Brings

LEMMA BringsConcat ==
  ASSUME NEW b, NEW c, NEW a, NEW x, NEW y, NEW z, Brings(b, a, x, y), Brings(c, a, y, z)
  PROVE  Brings(b \o c, a, x, z)
  BY LeadsConcat DEF Brings

LEMMA StillBrings ==
  ASSUME NEW c, NEW a \in Flags, NEW x \in Kinds, Still(c)
  PROVE  Brings(c, a, x, x)
  BY DEF Still, Brings

LEMMA BringsUnder ==
  ASSUME NEW c, NEW a, Brings(c, a, "same", "same")
  PROVE  Under(c, a)
  BY KindsAre DEF Brings, Under

LEMMA StillConcat ==
  ASSUME NEW a, NEW b, Still(a), Still(b)
  PROVE  Still(a \o b)
  BY LeadsConcat DEF Still

LEMMA AloneConcat ==
  ASSUME NEW a, NEW b, Alone(a), Alone(b)
  PROVE  Alone(a \o b)
  BY LeadsConcat DEF Alone

LEMMA UnderConcat ==
  ASSUME NEW a, NEW b, NEW l, Under(a, l), Under(b, l)
  PROVE  Under(a \o b, l)
  BY LeadsConcat DEF Under

LEMMA BracketLeads ==
  ASSUME NEW l \in Args
  PROVE  /\ Brings(Do("lock", l), l, "free", "same")
         /\ Brings(Do("unlock", l), l, "same", "free")
<1>1. PICK d, e : d = [op |-> "lock", arg |-> l] /\ e = [op |-> "unlock", arg |-> l]
  OBVIOUS
<1>2. d \in StepSet /\ e \in StepSet /\ d.op = "lock" /\ e.op = "unlock" /\ d.arg = l /\ e.arg = l
  BY <1>1 DEF StepSet
<1>3. Typed(d) /\ Typed(e) /\ Turn(d, l, "free", "same") /\ Turn(e, l, "same", "free")
  BY <1>2 DEF Typed, Turn
<1>4. \A m \in Flags \ {l} : ~Concerns(d, m) /\ ~Concerns(e, m)
  BY <1>2 DEF Concerns, Starts, Owned
<1>5. QED  BY <1>1, <1>2, <1>3, <1>4, KindsAre, BringsDo DEF Outer

\* A mutex around a sequence.
LEMMA LockedLeads ==
  ASSUME NEW l \in Args, NEW c
  PROVE  /\ Under(c, l) => Alone(Locked(l, c))
         /\ \A m \in Flags, x \in Kinds, y \in Kinds :
              l # m /\ Leads(c, m, x, y) => Leads(Locked(l, c), m, x, y)
<1>1. PICK p, q : p = Do("lock", l) /\ q = Do("unlock", l)
  OBVIOUS
<1>2. Brings(p, l, "free", "same") /\ Brings(q, l, "same", "free") /\ Locked(l, c) = p \o c \o q
  BY <1>1, BracketLeads DEF Locked
<1>3. ASSUME NEW m \in Flags, l # m, NEW x \in Kinds, NEW y \in Kinds, Leads(c, m, x, y)
      PROVE  Leads(Locked(l, c), m, x, y)
  <2>1. Leads(p, m, x, x) /\ Leads(q, m, y, y)
    BY <1>2, <1>3 DEF Brings
  <2>2. Leads(p \o c, m, x, y)
    BY <1>3, <2>1, LeadsConcat
  <2>3. QED  BY <1>2, <2>1, <2>2, LeadsConcat
<1>4. ASSUME Under(c, l), NEW m \in Flags PROVE Leads(Locked(l, c), m, "free", "free")
  <2>1. CASE m = l
    <3>1. Leads(p, m, "free", "same") /\ Leads(c, m, "same", "same") /\ Leads(q, m, "same", "free")
      BY <1>2, <1>4, <2>1 DEF Brings, Under
    <3>2. Leads(p \o c, m, "free", "same")
      BY <3>1, LeadsConcat
    <3>3. QED  BY <1>2, <3>1, <3>2, LeadsConcat
  <2>2. CASE m # l
    <3>1. Leads(c, m, "free", "free")
      BY <1>4, <2>2 DEF Under
    <3>2. QED  BY <1>3, <2>2, <3>1, KindsAre
  <2>3. QED  BY <2>1, <2>2
<1>5. QED  BY <1>3, <1>4 DEF Alone

LEMMA LockedBrings ==
  ASSUME NEW l \in Args, l \notin Flags, NEW c, NEW a \in Flags, NEW x \in Kinds, NEW y \in Kinds,
         Brings(c, a, x, y)
  PROVE  Brings(Locked(l, c), a, x, y)
  BY LockedLeads DEF Brings

LEMMA LockedStill ==
  ASSUME NEW l \in Args, l \notin Flags, NEW c, Still(c)
  PROVE  Still(Locked(l, c))
  BY LockedLeads DEF Still

LEMMA FlagsAre ==
  /\ Flags = {"pt", "map", "rec"} \cup Detectors
  /\ Detectors \subseteq {"obj", "body"}
  /\ "pt" \in Flags /\ "map" \in Flags /\ "rec" \in Flags /\ Detectors \subseteq Flags
  /\ "grab" \notin Flags /\ "close" \notin Flags /\ "stream" \notin Flags /\ "-" \notin Flags
  BY Names DEF Flags, Modules, Locks

\* The streaming server has no mutex; mGrabMutex and the diagnostics' one are of
\* no module.
LEMMA StillOwned ==
  ASSUME NEW op \in {"lock", "unlock", "enable", "started", "disable", "stopped", "unwanted"},
         NEW arg \in Args \ Flags, op \in {"enable", "started"} => arg \in Modules
  PROVE  Still(Do(op, arg))
<1> SUFFICES ASSUME NEW m \in Flags, NEW x \in Kinds PROVE Leads(Do(op, arg), m, x, x)
  BY DEF Still
<1>1. PICK e : e = [op |-> op, arg |-> arg]
  OBVIOUS
<1>2. e \in StepSet /\ e.op = op /\ e.arg = arg
  BY <1>1 DEF StepSet, Common
<1>3. Typed(e) /\ Turn(e, m, x, x)
  BY <1>2 DEF Typed, Turn, Concerns, Starts, Owned, Outer
<1>4. QED  BY <1>1, <1>2, <1>3, LeadsDo

LEMMA OwnedBrings ==
  ASSUME NEW a \in Flags
  PROVE  /\ Brings(Do("enable", a), a, "due", "ahead")
         /\ Brings(Do("started", a), a, "ahead", "same")
         /\ Brings(Do("disable", a), a, "due", "due")
         /\ Brings(Do("disable", a), a, "off", "same")
         /\ Brings(Do("halt", a), a, "same", "same")
         /\ Brings(Do("halt", a), a, "doomed", "same")
<1> USE KindsAre
<1>1. a \in Args /\ a \in Modules
  BY FlagsAreLocks
<1>2. ASSUME NEW op \in {"enable", "started", "disable", "halt"}, NEW x \in Kinds, NEW y \in Kinds,
             Turn([op |-> op, arg |-> a], a, x, y)
      PROVE  Brings(Do(op, a), a, x, y)
  <2>1. PICK e : e = [op |-> op, arg |-> a]
    OBVIOUS
  <2>2. e \in StepSet /\ e.op = op /\ e.arg = a
    BY <1>1, <2>1 DEF StepSet, Common
  <2>3. Typed(e) /\ \A m \in Flags \ {a} : ~Concerns(e, m)
    BY <1>1, <2>2 DEF Typed, Concerns, Starts
  <2>4. op \notin Outer \ {"grab"} /\ op # "grab"
    BY DEF Outer
  <2>5. QED  BY <1>2, <2>1, <2>2, <2>3, <2>4, BringsDo
<1>3. /\ Turn([op |-> "enable", arg |-> a], a, "due", "ahead")
      /\ Turn([op |-> "started", arg |-> a], a, "ahead", "same")
      /\ Turn([op |-> "disable", arg |-> a], a, "due", "due")
      /\ Turn([op |-> "disable", arg |-> a], a, "off", "same")
      /\ Turn([op |-> "halt", arg |-> a], a, "same", "same")
      /\ Turn([op |-> "halt", arg |-> a], a, "doomed", "same")
  BY DEF Turn
<1>4. QED  BY <1>2, <1>3

LEMMA StartsBring ==
  /\ Brings(Do("startTracking", "-"), "pt", "same", "same")
  /\ Brings(Do("startMapping", "-"), "map", "same", "same")
  /\ \A on \in BOOLEAN : /\ Brings(Do("mapping", on), "map", "same", "same")
                         /\ Brings(Do("record", on), "rec", "same", "same")
  /\ \A d \in Detectors : /\ Brings(Do("startDetector", d), d, "same", "same")
                          /\ Brings(Do("detect", d), d, "same", "same")
<1> USE KindsAre
<1>1. ASSUME NEW op \in {"startTracking", "startMapping", "mapping", "record", "startDetector", "detect"},
             NEW arg \in Args, NEW a, Typed([op |-> op, arg |-> arg]), Starts([op |-> op, arg |-> arg], a)
      PROVE  Brings(Do(op, arg), a, "same", "same")
  <2>1. PICK e : e = [op |-> op, arg |-> arg]
    OBVIOUS
  <2>2. e \in StepSet /\ e.op = op /\ e.arg = arg
    BY <2>1 DEF StepSet, Common
  <2>3. \A m \in Flags \ {a} : ~Concerns(e, m)
    BY <1>1, <2>1, <2>2 DEF Concerns, Starts, Owned
  <2>4. Turn(e, a, "same", "same")
    BY <1>1, <2>1 DEF Turn
  <2>5. op \notin Outer \ {"grab"} /\ op # "grab"
    BY DEF Outer
  <2>6. QED  BY <1>1, <2>1, <2>2, <2>3, <2>4, <2>5, BringsDo
<1>2. Brings(Do("startTracking", "-"), "pt", "same", "same")
  BY <1>1 DEF Typed, Starts, Args
<1>3. Brings(Do("startMapping", "-"), "map", "same", "same")
  BY <1>1 DEF Typed, Starts, Args
<1>4. ASSUME NEW on \in BOOLEAN
      PROVE  Brings(Do("mapping", on), "map", "same", "same") /\ Brings(Do("record", on), "rec", "same", "same")
  <2>1. Brings(Do("mapping", on), "map", "same", "same")
    BY <1>1 DEF Typed, Starts, Args
  <2>2. Brings(Do("record", on), "rec", "same", "same")
    BY <1>1 DEF Typed, Starts, Args
  <2>3. QED  BY <2>1, <2>2
<1>5. ASSUME NEW d \in Detectors
      PROVE  Brings(Do("startDetector", d), d, "same", "same") /\ Brings(Do("detect", d), d, "same", "same")
  <2>1. d \in Args
    BY FlagsAre DEF Args
  <2>2. Brings(Do("startDetector", d), d, "same", "same")
    BY <1>1, <2>1 DEF Typed, Starts
  <2>3. Brings(Do("detect", d), d, "same", "same")
    BY <1>1, <2>1 DEF Typed, Starts
  <2>4. QED  BY <2>2, <2>3
<1>6. QED  BY <1>2, <1>3, <1>4, <1>5

\* The start functions.
LEMMA StartTrackingBrings ==
  /\ noDepth => Still(StartTrackingLocked)
  /\ ~noDepth => Brings(StartTrackingLocked, "pt", "due", "same")
<1> USE KindsAre
<1>1. noDepth => Still(StartTrackingLocked)
  BY StillEmpty DEF StartTrackingLocked
<1>2. ASSUME ~noDepth PROVE Brings(StartTrackingLocked, "pt", "due", "same")
  <2>1. PICK a : a = IF "pt" \in sdk THEN Locked("grab", Do("disable", "pt")) ELSE <<>>
    OBVIOUS
  <2>2. StartTrackingLocked = a \o Locked("grab", Do("enable", "pt")) \o Do("started", "pt")
    BY <1>2, <2>1 DEF StartTrackingLocked
  <2>3. "grab" \in Args /\ "grab" \notin Flags /\ "pt" \in Flags
    BY FlagsAre DEF Args
  <2>4. /\ Brings(Do("disable", "pt"), "pt", "due", "due")
        /\ Brings(Do("enable", "pt"), "pt", "due", "ahead")
        /\ Brings(Do("started", "pt"), "pt", "ahead", "same")
    BY <2>3, OwnedBrings
  <2>5. /\ Brings(Locked("grab", Do("disable", "pt")), "pt", "due", "due")
        /\ Brings(Locked("grab", Do("enable", "pt")), "pt", "due", "ahead")
    BY <2>3, <2>4, LockedBrings
  <2>6. Brings(a, "pt", "due", "due")
    BY <2>1, <2>3, <2>5, StillEmpty, StillBrings
  <2>7. Brings(a \o Locked("grab", Do("enable", "pt")), "pt", "due", "ahead")
    BY <2>5, <2>6, BringsConcat
  <2>8. QED  BY <2>2, <2>4, <2>7, BringsConcat
<1>3. QED  BY <1>1, <1>2

LEMMA StartDetectorBrings ==
  ASSUME NEW d \in Detectors
  PROVE  /\ (noDepth \/ d \notin wanted) => Still(StartDetector(d))
         /\ (~noDepth /\ d \in wanted) => Brings(StartDetector(d), d, "due", "same")
<1> USE KindsAre
<1>1. (noDepth \/ d \notin wanted) => Still(StartDetector(d))
  BY StillEmpty DEF StartDetector
<1>2. ASSUME ~noDepth, d \in wanted PROVE Brings(StartDetector(d), d, "due", "same")
  <2>1. StartDetector(d) = Locked("grab", Do("enable", d)) \o Do("started", d)
    BY <1>2 DEF StartDetector
  <2>2. "grab" \in Args /\ "grab" \notin Flags /\ d \in Flags
    BY FlagsAre DEF Args
  <2>3. Brings(Do("enable", d), d, "due", "ahead") /\ Brings(Do("started", d), d, "ahead", "same")
    BY <2>2, OwnedBrings
  <2>4. Brings(Locked("grab", Do("enable", d)), d, "due", "ahead")
    BY <2>2, <2>3, LockedBrings
  <2>5. QED  BY <2>1, <2>3, <2>4, BringsConcat
<1>3. QED  BY <1>1, <1>2

LEMMA StartMappingBrings ==
  /\ (noDepth \/ "map" \in running \/ "map" \notin wanted) => Still(StartMapping)
  /\ ~(noDepth \/ "map" \in running \/ "map" \notin wanted) => Brings(StartMapping, "map", "due", "same")
<1> USE KindsAre
<1>1. (noDepth \/ "map" \in running \/ "map" \notin wanted) => Still(StartMapping)
  BY StillEmpty DEF StartMapping
<1>2. ASSUME ~(noDepth \/ "map" \in running \/ "map" \notin wanted)
      PROVE  Brings(StartMapping, "map", "due", "same")
  <2>1. StartMapping = Do("enable", "map") \o Do("started", "map")
    BY <1>2 DEF StartMapping
  <2>2. Brings(Do("enable", "map"), "map", "due", "ahead") /\ Brings(Do("started", "map"), "map", "ahead", "same")
    BY FlagsAre, OwnedBrings
  <2>3. QED  BY <2>1, <2>2, BringsConcat
<1>3. QED  BY <1>1, <1>2

LEMMA StartRecordingBrings == Brings(StartRecording, "rec", "due", "same")
<1>1. Brings(Do("enable", "rec"), "rec", "due", "ahead") /\ Brings(Do("started", "rec"), "rec", "ahead", "same")
  BY FlagsAre, OwnedBrings
<1>2. QED  BY <1>1, KindsAre, BringsConcat DEF StartRecording

LEMMA StreamingStill == Still(StartStreaming) /\ Still(StopStreaming)
<1>1. "stream" \in Args /\ "stream" \notin Flags /\ "stream" \in Modules
  BY FlagsAre DEF Args, Modules
<1>2. \A op \in {"enable", "started", "disable", "stopped", "unwanted"} : Still(Do(op, "stream"))
  BY <1>1, StillOwned
<1>3. Still(IF "stream" \in sdk THEN Do("disable", "stream") ELSE <<>>)
  BY <1>2, StillEmpty
<1>4. /\ Still(Do("enable", "stream")) /\ Still(Do("started", "stream"))
      /\ Still(Do("stopped", "stream")) /\ Still(Do("unwanted", "stream"))
  BY <1>2
<1>5. QED  BY <1>3, <1>4, StillConcat DEF StartStreaming, StopStreaming

\* A mutex that is held, and another one.
LEMMA LockedUnder ==
  ASSUME NEW l \in Args, NEW k, l # k, NEW c, Still(c)
  PROVE  Under(Locked(l, c), k) /\ Alone(Locked(l, c))
<1>1. Alone(c) /\ Under(c, l) /\ Under(c, k)
  BY StillIs
<1>2. Alone(Locked(l, c))
  BY <1>1, LockedLeads
<1>3. ASSUME NEW m \in Flags, NEW x \in Kinds, m # l PROVE Leads(Locked(l, c), m, x, x)
  <2>1. Leads(c, m, x, x)
    BY DEF Still
  <2>2. QED  BY <1>3, <2>1, LockedLeads
<1>4. Under(Locked(l, c), k)
  BY <1>2, <1>3, KindsAre DEF Under, Alone
<1>5. QED  BY <1>2, <1>4

\* The functions of the threads, called with no mutex of a module held.
LEMMA HarmlessAlone ==
  /\ \A op \in Harmless, arg \in Args : Still(Do(op, arg)) /\ Alone(Do(op, arg))
  /\ \A op \in Outer \ {"grab"}, arg \in Args : Alone(Do(op, arg))
  /\ Alone(<<>>) /\ Still(<<>>)
  BY StillDo, StillEmpty, StillIs, AloneDo

\* What mPtMutex is let go by.
Ends(c) ==
  /\ Leads(c, "pt", "same", "free")
  /\ \A m \in Flags \ {"pt"} : Leads(c, m, "free", "free")

LEMMA EndsConcat ==
  ASSUME NEW a, NEW b, Under(a, "pt"), Ends(b)
  PROVE  Ends(a \o b)
<1>1. Leads(a, "pt", "same", "same") /\ \A m \in Flags \ {"pt"} : Leads(a, m, "free", "free")
  BY FlagsAre DEF Under
<1>2. QED  BY <1>1, LeadsConcat DEF Ends

LEMMA EndsAgain ==
  /\ Ends(Again) /\ Ends(Do("kill", "-")) /\ Ends(Do("startTracking", "-") \o Again)
  /\ Ends(Do("stop", "-") \o Again)
<1>1. Brings(Do("unlock", "pt"), "pt", "same", "free") /\ Alone(Do("top", "-"))
  BY BracketLeads, HarmlessAlone DEF Args, Outer
<1>2. Leads(Again, "pt", "same", "free")
  BY <1>1, FlagsAre, LeadsConcat DEF Again, Brings, Alone
<1>3. ASSUME NEW m \in Flags \ {"pt"} PROVE Leads(Again, m, "free", "free")
  <2>1. Leads(Do("unlock", "pt"), m, "free", "free") /\ Leads(Do("top", "-"), m, "free", "free")
    BY <1>1, KindsAre DEF Brings, Alone
  <2>2. QED  BY <2>1, LeadsConcat DEF Again
<1>4. Ends(Again)
  BY <1>2, <1>3 DEF Ends
<1>5. Ends(Do("kill", "-"))
  BY FlagsAre, KindsAre, KillLeads DEF Ends
<1>6. Under(Do("startTracking", "-"), "pt") /\ Under(Do("stop", "-"), "pt")
  BY StartsBring, BringsUnder, HarmlessAlone, StillIs DEF Harmless, Args
<1>7. QED  BY <1>4, <1>5, <1>6, EndsConcat

LEMMA ProcessUnder == Under(Process, "pt")
<1>1. \A op \in {"use", "stream", "region"} : Under(Do(op, "-"), "pt")
  BY HarmlessAlone, StillIs DEF Harmless, Args
<1>2. \A l \in {"rec", "obj", "body"} : Under(Locked(l, <<>>), "pt")
  BY StillEmpty, LockedUnder DEF Args
<1>3. Under(<<>>, "pt")
  BY StillEmpty, StillIs
<1>4. Under(Each(LAMBDA d: Locked(d, <<>>)), "pt")
  BY <1>2, <1>3, UnderConcat DEF Each
<1>5. Under(IF noDepth THEN <<>> ELSE Each(LAMBDA d: Locked(d, <<>>)) \o Do("region", "-"), "pt")
  BY <1>1, <1>3, <1>4, UnderConcat
<1>6. Under(Do("use", "-") \o Do("stream", "-") \o Locked("rec", <<>>), "pt")
  BY <1>1, <1>2, UnderConcat
<1>7. PICK a : a = Do("use", "-") \o Do("stream", "-") \o Locked("rec", <<>>)
  OBVIOUS
<1>8. PICK b : b = IF noDepth THEN <<>> ELSE Each(LAMBDA d: Locked(d, <<>>)) \o Do("region", "-")
  OBVIOUS
<1>9. Under(a \o b, "pt")
  BY <1>5, <1>6, <1>7, <1>8, UnderConcat
<1>10. Process = a \o b
  BY <1>7, <1>8 DEF Process
<1>11. QED  BY <1>9, <1>10

\* What grab() may be followed by.
LEMMA AfterGrabEnds ==
  ASSUME NEW after \in {Process \o Again, Again, Do("kill", "-")}
                    \cup (IF input = "loop" THEN {Again, Do("startTracking", "-") \o Again} ELSE {})
                    \cup (IF input = "svo" THEN {Do("stop", "-") \o Again} ELSE {})
  PROVE  Ends(Do("unlock", "grab") \o after)
<1>1. Under(Do("unlock", "grab"), "pt")
  BY FlagsAre, StillOwned, StillIs DEF Args
<1>2. Ends(after)
  BY EndsAgain, ProcessUnder, EndsConcat
<1>3. QED  BY <1>1, <1>2, EndsConcat

LEMMA IterationAlone == Alone(Iteration)
<1>1. PICK g : g = Do("grab", "-")
  OBVIOUS
<1>2. Ends(g)
  <2>1. PICK e : e = [op |-> "grab", arg |-> "-"]
    OBVIOUS
  <2>2. e \in StepSet /\ e.op = "grab" /\ e.arg = "-"
    BY <2>1 DEF StepSet, Args
  <2>3. Typed(e) /\ Turn(e, "pt", "same", "free")
    BY <2>2 DEF Typed, Turn
  <2>4. \A m \in Flags \ {"pt"} : Turn(e, m, "free", "free")
    BY <2>2 DEF Turn, Concerns, Starts, Owned
  <2>5. QED  BY <1>1, <2>1, <2>2, <2>3, <2>4, KindsAre, FlagsAre, LeadsDo DEF Ends
<1>3. Under(Do("lock", "grab"), "pt")
  BY FlagsAre, StillOwned, StillIs DEF Args
<1>4. Brings(Do("lock", "pt"), "pt", "free", "same")
  BY BracketLeads DEF Args
<1>5. Alone(Do("tracking", "-") \o Do("modules", "-"))
  BY HarmlessAlone, AloneConcat DEF Outer, Args
<1>6. PICK a, b, c : a = Do("tracking", "-") \o Do("modules", "-") /\ b = Do("lock", "pt") /\ c = Do("lock", "grab")
  OBVIOUS
<1>7. Iteration = a \o b \o c \o g
  BY <1>1, <1>6 DEF Iteration
<1>8. ASSUME NEW m \in Flags PROVE Leads(a \o b \o c \o g, m, "free", "free")
  <2>1. PICK x : x = IF m = "pt" THEN "same" ELSE "free"
    OBVIOUS
  <2>2. Leads(a, m, "free", "free") /\ Leads(b, m, "free", x)
    BY <1>4, <1>5, <1>6, <2>1, KindsAre DEF Brings, Alone
  <2>3. Leads(c, m, x, x) /\ Leads(g, m, x, "free")
    BY <1>2, <1>3, <1>6, <2>1 DEF Under, Ends
  <2>4. Leads(a \o b, m, "free", x)
    BY <2>2, LeadsConcat
  <2>5. Leads(a \o b \o c, m, "free", x)
    BY <2>3, <2>4, LeadsConcat
  <2>6. QED  BY <2>3, <2>5, LeadsConcat
<1>9. QED  BY <1>7, <1>8 DEF Alone

\* A service under the mutex of the module that it starts or stops, or of none.
LEMMA GuardAlone ==
  /\ Alone(StartTracking) /\ Alone(Locked("pt", Do("startTracking", "-") \o Do("count", "-")))
  /\ Alone(Locked("map", Do("startMapping", "-")))
  /\ \A on \in BOOLEAN : Alone(Locked("map", Do("mapping", on))) /\ Alone(Locked("rec", Do("record", on)))
  /\ \A d \in Detectors : /\ Alone(Locked(d, Do("startDetector", d))) /\ Alone(Locked(d, Do("detect", d)))
                          /\ Alone(Locked(d, Do("halt", d)))
<1>1. /\ Under(Do("startTracking", "-"), "pt") /\ Under(Do("startMapping", "-"), "map")
      /\ \A on \in BOOLEAN : Under(Do("mapping", on), "map") /\ Under(Do("record", on), "rec")
      /\ \A d \in Detectors : Under(Do("startDetector", d), d) /\ Under(Do("detect", d), d)
  BY StartsBring, BringsUnder
<1>2. \A d \in Detectors : Under(Do("halt", d), d)
  BY FlagsAre, OwnedBrings, BringsUnder
<1>3. Under(Do("startTracking", "-") \o Do("count", "-"), "pt")
  <2>1. Under(Do("count", "-"), "pt")
    BY HarmlessAlone, StillIs DEF Harmless, Args
  <2>2. QED  BY <1>1, <2>1, UnderConcat
<1>4. "pt" \in Args /\ "map" \in Args /\ "rec" \in Args /\ Detectors \subseteq Args
  BY FlagsAre DEF Args
<1>5. QED  BY <1>1, <1>2, <1>3, <1>4, LockedLeads DEF StartTracking

LEMMA CheckAlone ==
  Alone(Locked("map", Do("startMapping", "-")) \o Each(LAMBDA d: Locked(d, Do("startDetector", d))))
<1>1. Alone(Locked("map", Do("startMapping", "-")))
  BY GuardAlone
<1>2. \A d \in Detectors : Alone(Locked(d, Do("startDetector", d)))
  BY GuardAlone
<1>3. Alone(Each(LAMBDA d: Locked(d, Do("startDetector", d))))
  BY <1>2, HarmlessAlone, AloneConcat DEF Each
<1>4. QED  BY <1>1, <1>3, AloneConcat

\* Halting what the argument names, whatever it names.
LEMMA QuitAlone ==
  ASSUME NEW a \in Args
  PROVE  Alone(Locked(a, Do("halt", a)))
<1>1. CASE a \in Flags
  BY <1>1, OwnedBrings, BringsUnder, LockedLeads
<1>2. CASE a \notin Flags
  <2>1. ASSUME NEW m \in Flags, NEW x \in Kinds PROVE Leads(Do("halt", a), m, x, x)
    <3>1. PICK e : e = [op |-> "halt", arg |-> a]
      OBVIOUS
    <3>2. e \in StepSet /\ e.op = "halt" /\ e.arg = a
      BY <3>1 DEF StepSet, Common
    <3>3. Typed(e) /\ Turn(e, m, x, x)
      BY <1>2, <3>2 DEF Typed, Turn, Concerns, Starts, Outer
    <3>4. QED  BY <3>1, <3>2, <3>3, LeadsDo
  <2>2. Still(Do("halt", a))
    BY <2>1 DEF Still
  <2>3. QED  BY <2>2, StillIs, LockedLeads
<1>3. QED  BY <1>1, <1>2

\* The functions of the ZED One.
LEMMA OneAlone ==
  /\ Alone(Rest) /\ Alone(Frame) /\ Alone(Farewell)
  /\ \A l \in Args, op \in Harmless, arg \in Args : Alone(Locked(l, Do(op, arg))) /\ Alone(Locked(l, <<>>))
<1>1. ASSUME NEW l \in Args, NEW op \in Harmless, NEW arg \in Args
      PROVE  Alone(Locked(l, Do(op, arg))) /\ Alone(Locked(l, <<>>))
  BY <1>1, HarmlessAlone, StillIs, LockedLeads
<1>2. /\ Alone(Do("images", "-")) /\ Alone(Do("oneTop", "-")) /\ Alone(Do("use", "-"))
      /\ Alone(Do("stream", "-")) /\ Alone(Do("report", "-")) /\ Alone(Do("end", "-"))
  BY HarmlessAlone DEF Harmless, Outer, Args
<1>3. Alone(Locked("rec", Do("status", "-")))
  BY <1>1 DEF Harmless, Args
<1>4. Alone(Rest)
  BY <1>2, <1>3, AloneConcat DEF Rest
<1>5. Alone(Frame)
  BY <1>2, <1>4, AloneConcat DEF Frame
<1>6. Alone(Farewell)
  BY <1>2, AloneConcat DEF Farewell
<1>7. QED  BY <1>1, <1>4, <1>5, <1>6

LEMMA AfterOneGrabAlone ==
  ASSUME NEW after \in {Frame, Do("kill", "-")}
                    \cup (IF input = "loop" THEN {Do("use", "-") \o Frame} ELSE {})
                    \cup (IF input = "svo"
                          THEN {Do("stop", "-") \o Farewell,
                                Do("stop", "-") \o Do("use", "-") \o Do("report", "-") \o Frame}
                          ELSE {})
  PROVE  Alone(after)
<1>1. Alone(Do("use", "-")) /\ Alone(Do("stop", "-")) /\ Alone(Do("report", "-"))
  BY HarmlessAlone DEF Harmless, Args
<1>2. Alone(Do("kill", "-"))
  BY KillLeads, KindsAre DEF Alone
<1>3. /\ Alone(Do("use", "-") \o Frame) /\ Alone(Do("stop", "-") \o Farewell)
      /\ Alone(Do("stop", "-") \o Do("use", "-") \o Do("report", "-") \o Frame)
  BY <1>1, OneAlone, AloneConcat
<1>4. QED  BY <1>2, <1>3, OneAlone

LEMMA ServicesAlone == \A s \in Services \cup Callbacks : Alone(s)
<1>1. \A op \in Harmless, arg \in Args : Alone(Do(op, arg))
  BY HarmlessAlone
<1>2. \A op \in Harmless, arg \in Args, l \in Args : Alone(Locked(l, Do(op, arg)))
  BY OneAlone
<1>3. ASSUME NEW s \in {SetSvoFrame, TogglePause, SaveAreaMemory, Do("reset", "-"), Do("roi", "-"),
                        Do("resetRoi", "-"), Locked("close", Do("diagnose", "-"))}
      PROVE  Alone(s)
  <2>1. Alone(Do("reset", "-")) /\ Alone(SetSvoFrame)
    BY HarmlessAlone DEF SetSvoFrame, Outer, Args
  <2>2. Alone(SaveAreaMemory) /\ Alone(Do("roi", "-")) /\ Alone(Do("resetRoi", "-"))
    BY <1>1 DEF SaveAreaMemory, Harmless, Args
  <2>3. Alone(TogglePause) /\ Alone(Locked("close", Do("diagnose", "-")))
    BY <1>2 DEF TogglePause, Harmless, Args
  <2>4. QED  BY <2>1, <2>2, <2>3
<1>4. ASSUME NEW on \in BOOLEAN,
             NEW s \in {Do("depth", on), Locked("map", Do("mapping", on)), Do("streaming", on),
                        Locked("rec", Do("record", on))}
      PROVE  Alone(s)
  <2>1. Alone(Do("depth", on)) /\ Alone(Do("streaming", on))
    BY <1>1 DEF Harmless, Args
  <2>2. QED  BY <2>1, GuardAlone
<1>5. ASSUME NEW d \in Detectors, NEW on \in BOOLEAN
      PROVE  Alone(Locked(d, Do(IF on THEN "detect" ELSE "halt", d)))
  BY GuardAlone
<1>6. ASSUME NEW s \in Callbacks PROVE Alone(s)
  BY <1>1 DEF Callbacks, Harmless, Args
<1>7. ASSUME NEW s \in Services PROVE Alone(s)
  <2> DEFINE A == {SetSvoFrame, TogglePause, SaveAreaMemory, Do("reset", "-"), Do("roi", "-"),
                   Do("resetRoi", "-"), Locked("close", Do("diagnose", "-"))}
             B(on) == {Do("depth", on), Locked("map", Do("mapping", on)), Do("streaming", on),
                       Locked("rec", Do("record", on))}
             D == UNION {B(on) : on \in BOOLEAN}
             C == {Locked(d, Do(IF on THEN "detect" ELSE "halt", d)) : d \in Detectors, on \in BOOLEAN}
  <2>1. s \in A \cup C \cup D
    BY DEF Services
  <2>2. CASE s \in A
    BY <1>3, <2>2
  <2>3. CASE s \in C
    BY <1>5, <2>3
  <2>4. CASE s \in D
    <3> HIDE DEF B
    <3>1. PICK on \in BOOLEAN : s \in B(on)
      BY <2>4
    <3>2. QED  BY <1>4, <3>1 DEF B
  <2> HIDE DEF A, C, D
  <2>5. QED  BY <2>1, <2>2, <2>3, <2>4
<1>8. QED  BY <1>6, <1>7

LEMMA OneServicesAlone == \A s \in OneServices : Alone(s)
<1>1. \A op \in Harmless, arg \in Args : Alone(Do(op, arg))
  BY HarmlessAlone
<1>2. \A op \in Harmless, arg \in Args, l \in Args : Alone(Locked(l, Do(op, arg)))
  BY OneAlone
<1>3. \A on \in BOOLEAN : Alone(Do("streaming", on)) /\ Alone(Locked("rec", Do("record", on)))
  BY <1>1, GuardAlone DEF Harmless, Args
<1>4. Alone(Do("report", "-")) /\ Alone(Do("use", "-")) /\ Alone(Locked("rec", Do("oneSeek", "-")))
  BY <1>1, <1>2 DEF Harmless, Args
<1>5. Alone(TogglePause)
  BY <1>2 DEF TogglePause, Harmless, Args
<1>6. \A on \in BOOLEAN : Alone(SwitchStreaming(on)) /\ Alone(SwitchRecording(on))
  BY <1>3, HarmlessAlone DEF SwitchStreaming, SwitchRecording
<1>7. QED  BY <1>4, <1>5, <1>6 DEF OneServices

\* The start, and the end.
LEMMA StartAlone ==
  /\ Alone(StartCamera) /\ Alone(Do("open", "-") \o Do("register", "-"))
  /\ Alone(Do("top", "-")) /\ Alone(Do("begin", "-"))
<1>1. /\ Alone(Do("connect", "-")) /\ Alone(Do("launch", "-")) /\ Alone(Do("register", "-"))
      /\ Alone(Do("open", "-"))
  BY HarmlessAlone DEF Harmless, Args
<1>2. Alone(Do("configure", "-")) /\ Alone(Do("top", "-")) /\ Alone(Do("begin", "-"))
  BY HarmlessAlone DEF Outer, Args
<1>3. QED  BY <1>1, <1>2, AloneConcat DEF StartCamera

LEMMA DeInitAlone ==
  \A steps \in {DeInit, OneDeInit} : Alone((IF Hooked THEN <<>> ELSE Do("spun", "-")) \o steps)
<1>1. /\ Alone(Do("stop", "-")) /\ Alone(Do("join", "-")) /\ Alone(Do("close", "-"))
      /\ Alone(Do("down", "-")) /\ Alone(Do("spun", "-")) /\ Alone(<<>>)
  BY HarmlessAlone DEF Harmless, Args
<1>2. Alone(Do("quit", "obj")) /\ Alone(Do("quit", "body")) /\ Alone(Do("quit", "map"))
  BY HarmlessAlone DEF Outer, Args
<1>3. Alone(Each(LAMBDA d: Do("quit", d)))
  BY <1>1, <1>2, AloneConcat DEF Each
<1>4. Alone(Locked("close", Do("save", "-") \o Do("close", "-")))
  <2>1. Still(Do("save", "-")) /\ Still(Do("close", "-"))
    BY HarmlessAlone DEF Harmless, Args
  <2>2. Under(Do("save", "-") \o Do("close", "-"), "close")
    BY <2>1, StillConcat, StillIs
  <2>3. QED  BY <2>2, LockedLeads DEF Args
<1>5. Alone(Each(LAMBDA d: Do("quit", d)) \o Do("quit", "map"))
  BY <1>2, <1>3, AloneConcat
<1>6. Alone(DeInit) /\ Alone(OneDeInit)
  BY <1>1, <1>4, <1>5, AloneConcat DEF DeInit, OneDeInit
<1>7. QED  BY <1>1, <1>6, AloneConcat

-----------------------------------------------------------------------------
(* What the steps do for the invariant.                                    *)

\* Nothing is switched, and the functions called leave all as it is ...
LEMMA DoesStill ==
  ASSUME NEW e, NEW c, Still(c), \A m \in Flags : Kept(m) /\ ~Concerns(e, m), e.op \notin {"lock", "kill"}
  PROVE  Does(e, c)
<1>1. ASSUME NEW m \in Flags, NEW x \in Kinds, NEW y \in Kinds, Turn(e, m, x, y), Means(m, x)
      PROVE  \E w \in Kinds : (w = "free" <=> x = "free") /\ Means(m, w)' /\ Leads(c, m, w, y)
  <2>1. x = y
    BY <1>1 DEF Turn, Concerns, Owned
  <2>2. Means(m, x)' /\ Leads(c, m, x, y)
    BY <1>1, <2>1, KeptMeans DEF Still
  <2>3. QED  BY <2>2
<1>2. QED  BY <1>1 DEF Does

\* ... or take mutexes themselves.
LEMMA DoesAlone ==
  ASSUME NEW e, NEW c, Alone(c), \A m \in Flags : Kept(m), e.op \in Outer \ {"grab"}
  PROVE  Does(e, c)
<1>1. e.op \notin {"lock", "kill"} \cup Owned /\ \A m \in Flags : ~Concerns(e, m)
  BY DEF Outer, Owned, Concerns, Starts
<1>2. ASSUME NEW m \in Flags, NEW x \in Kinds, NEW y \in Kinds, Turn(e, m, x, y)
      PROVE  \E w \in Kinds : (w = "free" <=> x = "free") /\ Means(m, w)' /\ Leads(c, m, w, y)
  <2>1. x = "free" /\ y = "free"
    BY <1>1, <1>2 DEF Turn, Concerns, Owned
  <2>2. Means(m, x)' /\ Leads(c, m, x, y)
    BY <2>1 DEF Means, Alone
  <2>3. QED  BY <2>2
<1>3. QED  BY <1>1, <1>2 DEF Does

\* One module is switched.
LEMMA DoesOne ==
  ASSUME NEW e, NEW c, NEW a \in Flags, e.op \notin {"lock", "kill"},
         \A m \in Flags \ {a} : Kept(m) /\ ~Concerns(e, m) /\ \A x \in Kinds : Leads(c, m, x, x),
         \A x \in Kinds, y \in Kinds :
           Turn(e, a, x, y) /\ Means(a, x) =>
             x # "free" /\ \E w \in Kinds \ {"free"} : Means(a, w)' /\ Leads(c, a, w, y)
  PROVE  Does(e, c)
<1>1. ASSUME NEW m \in Flags, NEW x \in Kinds, NEW y \in Kinds, Turn(e, m, x, y), Means(m, x)
      PROVE  \E w \in Kinds : (w = "free" <=> x = "free") /\ Means(m, w)' /\ Leads(c, m, w, y)
  <2>1. CASE m = a
    BY <1>1, <2>1
  <2>2. CASE m # a
    <3>1. Kept(m) /\ ~Concerns(e, m) /\ Leads(c, m, x, x)
      BY <2>2
    <3>2. x = y
      BY <1>1, <3>1 DEF Turn, Concerns, Owned
    <3>3. Means(m, x)' /\ Leads(c, m, x, y)
      BY <1>1, <3>1, <3>2, KeptMeans
    <3>4. QED  BY <3>3
  <2>3. QED  BY <2>1, <2>2
<1>2. ASSUME NEW y \in Kinds PROVE ~Turn(e, a, "free", y)
  <2>1. Means(a, "free") /\ "free" \in Kinds
    BY KindsAre DEF Means
  <2>2. QED  BY <2>1
<1>3. QED  BY <1>1, <1>2 DEF Does

\* The grab, under mPtMutex.
LEMMA DoesGrab ==
  ASSUME NEW e, NEW c, Ends(c), e.op = "grab", \A m \in Flags : Kept(m)
  PROVE  Does(e, c)
<1>1. ASSUME NEW m \in Flags, NEW x \in Kinds, NEW y \in Kinds, Turn(e, m, x, y), Means(m, x)
      PROVE  \E w \in Kinds : (w = "free" <=> x = "free") /\ Means(m, w)' /\ Leads(c, m, w, y)
  <2>1. x = (IF m = "pt" THEN "same" ELSE "free") /\ y = "free"
    BY <1>1 DEF Turn, Concerns, Starts, Outer, Owned
  <2>2. Leads(c, m, x, y)
    BY <2>1 DEF Ends
  <2>3. Means(m, x)'
    BY <1>1, KeptMeans
  <2>4. QED  BY <2>2, <2>3
<1>2. QED  BY <1>1 DEF Does

\* Every step of a thread does so, as it calls what the functions are.
Obeys(t) ==
  \E op, c : At(t, op) /\ c \in Seq(StepSet) /\ Continue(t, c) /\ Does(Step(t), c)

LEMMA KeptAll ==
  ASSUME UNCHANGED <<input, sdk, running, wanted, asked>>
  PROVE  \A m \in Flags : Kept(m)
  BY DEF Kept

LEMMA LeadsSteps ==
  ASSUME NEW c
  PROVE  /\ Still(c) => c \in Seq(StepSet)
         /\ Alone(c) => c \in Seq(StepSet)
         /\ \A m, x, y : Leads(c, m, x, y) => c \in Seq(StepSet)
<1>1. \A m, x, y : Leads(c, m, x, y) => c \in Seq(StepSet)
  BY DEF Leads
<1>2. Still(c) => Alone(c)
  BY StillIs
<1>3. Alone(c) => Leads(c, "pt", "free", "free")
  BY FlagsAre DEF Alone
<1>4. QED  BY <1>1, <1>2, <1>3

LEMMA StillObeys ==
  ASSUME NEW t \in Threads, NEW op \in Harmless, At(t, op), NEW c, Still(c), Continue(t, c),
         \A m \in Flags : Kept(m)
  PROVE  Obeys(t)
<1>1. Step(t).op = op /\ op \notin {"lock", "kill"}
  BY DEF At, Harmless
<1>2. \A m \in Flags : ~Concerns(Step(t), m)
  BY <1>1 DEF Concerns, Starts, Owned, Harmless
<1>3. Does(Step(t), c)
  BY <1>1, <1>2, DoesStill
<1>4. QED  BY <1>3, LeadsSteps DEF Obeys

LEMMA AloneObeys ==
  ASSUME NEW t \in Threads, NEW op \in Outer \ {"grab"}, At(t, op), NEW c, Alone(c), Continue(t, c),
         \A m \in Flags : Kept(m)
  PROVE  Obeys(t)
<1>1. Step(t).op = op
  BY DEF At
<1>2. Does(Step(t), c)
  BY <1>1, DoesAlone
<1>3. QED  BY <1>2, LeadsSteps DEF Obeys

\* The step of the module a: from what it finds to what the function c brings.
LEMMA OneObeys ==
  ASSUME NEW t \in Threads, NEW op, At(t, op), NEW c, Continue(t, c), NEW a \in Flags,
         op \notin {"lock", "kill"},
         \A m \in Flags \ {a} : Kept(m) /\ ~Concerns(Step(t), m),
         Still(c) \/ \E w, y : Brings(c, a, w, y),
         \A x \in Kinds, y \in Kinds :
           Turn(Step(t), a, x, y) /\ Means(a, x) =>
             x # "free" /\ \E w \in Kinds \ {"free"} : Means(a, w)' /\ Leads(c, a, w, y)
  PROVE  Obeys(t)
<1>1. Step(t).op = op
  BY DEF At
<1>2. \A m \in Flags \ {a}, x \in Kinds : Leads(c, m, x, x)
  BY DEF Still, Brings
<1>3. Does(Step(t), c)
  BY <1>1, <1>2, DoesOne
<1>4. c \in Seq(StepSet)
  <2>1. CASE Still(c)
    BY <2>1, LeadsSteps
  <2>2. CASE \E w, y : Brings(c, a, w, y)
    BY <2>2, LeadsSteps DEF Brings
  <2>3. QED  BY <2>1, <2>2
<1>5. QED  BY <1>3, <1>4 DEF Obeys

\* The arguments have their types.
LEMMA StepTyped ==
  ASSUME FlagsInv, Shaped, NEW t \in Threads, NEW op, At(t, op)
  PROVE  Typed(Step(t))
<1>1. PICK s : s = todo[t]
  OBVIOUS
<1>2. exited = "no" /\ s # <<>> /\ Ready(s) /\ Step(t) = s[IF IsGuarded(s) THEN 2 ELSE 1]
  BY <1>1, StepFacts
<1>3. PICK x \in Kinds : Leads(s, "pt", x, "free")
  BY <1>1, <1>2, FlagsAre DEF FlagsInv, Holds
<1>4. PICK h : Path(s, "pt", h)
  BY <1>3 DEF Leads
<1>5. \A j \in 1..Len(s) : Typed(s[j])
  BY <1>4 DEF Path
<1>6. s \in Seq(StepSet) /\ DOMAIN s = 1..Len(s) /\ (IF IsGuarded(s) THEN 2 ELSE 1) \in DOMAIN s
  <2>1. s \in Seq(StepSet)
    BY <1>2 DEF Ready, Nested
  <2>2. QED  BY <1>2, <2>1, BehindFacts DEF After
<1>7. QED  BY <1>2, <1>5, <1>6

\* A mutex is waited for.
LEMMA AcquireObeys ==
  ASSUME NEW t \in Threads, At(t, "lock"), Continue(t, <<>>), \A m \in Flags : Kept(m)
  PROVE  Obeys(t)
<1>1. Step(t).op = "lock"
  BY DEF At
<1>2. PICK c : c = <<>>
  OBVIOUS
<1>3. Does(Step(t), c) /\ c \in Seq(StepSet) /\ Continue(t, c)
  BY <1>1, <1>2 DEF Does
<1>4. QED  BY <1>3 DEF Obeys

LEMMA GrabObeys ==
  ASSUME NEW t \in Threads, At(t, "grab"), NEW c, Continue(t, c), Ends(c), \A m \in Flags : Kept(m)
  PROVE  Obeys(t)
<1>1. Step(t).op = "grab"
  BY DEF At
<1>2. Does(Step(t), c)
  BY <1>1, DoesGrab
<1>3. c \in Seq(StepSet)
  BY DEF Ends, Leads
<1>4. QED  BY <1>2, <1>3 DEF Obeys

LEMMA MaybeObeys ==
  ASSUME NEW t \in Threads, NEW op \in Harmless, Maybe(t, op), \A m \in Flags : Kept(m)
  PROVE  Obeys(t)
<1>1. PICK used \in BOOLEAN : At(t, op) /\ Continue(t, IF used THEN Do("use", "-") ELSE <<>>)
  BY DEF Maybe
<1>2. Still(IF used THEN Do("use", "-") ELSE <<>>)
  BY HarmlessAlone DEF Harmless, Args
<1>3. QED  BY <1>1, <1>2, StillObeys

\* The checks that start a module.
LEMMA StartTrackingObeys ==
  ASSUME NEW t \in Threads, At(t, "startTracking"), Continue(t, StartTrackingLocked),
         UNCHANGED <<input, sdk, running, wanted, asked>>
  PROVE  Obeys(t)
<1>1. PICK e, c : e = Step(t) /\ c = StartTrackingLocked
  OBVIOUS
<1>2. e.op = "startTracking" /\ \A m \in Flags : Kept(m)
  BY <1>1, KeptAll DEF At
<1>3. \A m \in Flags \ {"pt"} : Kept(m) /\ ~Concerns(e, m)
  BY <1>2 DEF Concerns, Starts, Owned
<1>4. ASSUME NEW x \in Kinds, NEW y \in Kinds, Turn(e, "pt", x, y), Means("pt", x)
      PROVE  x # "free" /\ \E w \in Kinds \ {"free"} : Means("pt", w)' /\ Leads(c, "pt", w, y)
  <2>1. x = "same" /\ y = "same"
    BY <1>2, <1>4 DEF Turn, Concerns, Starts
  <2>2. CASE noDepth
    <3>1. Leads(c, "pt", "same", y) /\ Means("pt", "same")'
      BY <1>1, <1>2, <1>4, <2>1, <2>2, FlagsAre, KindsAre, KeptMeans, StartTrackingBrings DEF Still
    <3>2. QED  BY <2>1, <3>1, KindsAre
  <2>3. CASE ~noDepth
    <3>1. Leads(c, "pt", "due", y) /\ Means("pt", "due")'
      BY <1>1, <2>1, <2>3, StartTrackingBrings DEF Brings, Means, Sure
    <3>2. QED  BY <2>1, <3>1, KindsAre
  <2>4. QED  BY <2>2, <2>3
<1>5. Still(c) \/ \E w, y : Brings(c, "pt", w, y)
  BY <1>1, StartTrackingBrings
<1>6. QED  BY <1>1, <1>3, <1>4, <1>5, FlagsAre, OneObeys

LEMMA CheckMappingObeys ==
  ASSUME NEW t \in Threads, CheckMapping(t), UNCHANGED <<input, sdk, running, wanted, asked>>
  PROVE  Obeys(t)
<1>1. PICK e, c : e = Step(t) /\ c = IF "map" \in running \ wanted THEN Do("halt", "map") ELSE StartMapping
  OBVIOUS
<1>2. At(t, "startMapping") /\ Continue(t, c) /\ e.op = "startMapping" /\ \A m \in Flags : Kept(m)
  BY <1>1, KeptAll DEF At, CheckMapping
<1>3. \A m \in Flags \ {"map"} : Kept(m) /\ ~Concerns(e, m)
  BY <1>2 DEF Concerns, Starts, Owned
<1>4. ASSUME NEW x \in Kinds, NEW y \in Kinds, Turn(e, "map", x, y), Means("map", x)
      PROVE  x # "free" /\ \E w \in Kinds \ {"free"} : Means("map", w)' /\ Leads(c, "map", w, y)
  <2>1. x = "same" /\ y = "same" /\ Same("map") /\ Means("map", "same")'
    BY <1>2, <1>4, FlagsAre, KeptMeans DEF Turn, Concerns, Starts, Means
  <2>2. "map" \notin running \ wanted /\ c = StartMapping
    BY <1>1, <2>1 DEF Same
  <2>3. CASE noDepth \/ "map" \in running \/ "map" \notin wanted
    <3>1. Leads(c, "map", "same", y)
      BY <2>1, <2>2, <2>3, FlagsAre, KindsAre, StartMappingBrings DEF Still
    <3>2. QED  BY <2>1, <3>1, KindsAre
  <2>4. CASE ~(noDepth \/ "map" \in running \/ "map" \notin wanted)
    <3>1. Leads(c, "map", "due", y)
      BY <2>1, <2>2, <2>4, StartMappingBrings DEF Brings
    <3>2. Means("map", "due")'
      BY <2>1, <2>4 DEF Means, Sure, Same
    <3>3. QED  BY <2>1, <3>1, <3>2, KindsAre
  <2>5. QED  BY <2>3, <2>4
<1>5. Still(c) \/ \E w, y : Brings(c, "map", w, y)
  BY <1>1, FlagsAre, OwnedBrings, StartMappingBrings
<1>6. QED  BY <1>1, <1>2, <1>3, <1>4, <1>5, FlagsAre, OneObeys

LEMMA CheckDetectorObeys ==
  ASSUME FlagsInv, Shaped, NEW t \in Threads, CheckDetector(t), UNCHANGED <<input, sdk, running, wanted, asked>>
  PROVE  Obeys(t)
<1>1. PICK e, d, c : e = Step(t) /\ d = Arg(t) /\ c = IF d \in running THEN <<>> ELSE StartDetector(d)
  OBVIOUS
<1>2. /\ At(t, "startDetector") /\ Continue(t, c) /\ e.op = "startDetector" /\ e.arg = d
      /\ \A m \in Flags : Kept(m)
  BY <1>1, KeptAll DEF At, Arg, CheckDetector
<1>3. d \in Detectors /\ d \in Flags /\ d # "map" /\ d # "rec"
  <2>1. Typed(e)
    BY <1>1, <1>2, StepTyped
  <2>2. QED  BY <1>2, <2>1, FlagsAre DEF Typed
<1>4. \A m \in Flags \ {d} : Kept(m) /\ ~Concerns(e, m)
  BY <1>2 DEF Concerns, Starts, Owned
<1>5. ASSUME NEW x \in Kinds, NEW y \in Kinds, Turn(e, d, x, y), Means(d, x)
      PROVE  x # "free" /\ \E w \in Kinds \ {"free"} : Means(d, w)' /\ Leads(c, d, w, y)
  <2>1. x = "same" /\ y = "same" /\ Means(d, "same")'
    BY <1>2, <1>3, <1>5, KeptMeans DEF Turn, Concerns, Starts
  <2>2. CASE d \in running \/ noDepth \/ d \notin wanted
    <3>1. Still(c)
      BY <1>1, <1>3, <2>2, StillEmpty, StartDetectorBrings
    <3>2. Leads(c, d, "same", y)
      BY <1>3, <2>1, <3>1, KindsAre DEF Still
    <3>3. QED  BY <2>1, <3>2, KindsAre
  <2>3. CASE ~(d \in running \/ noDepth \/ d \notin wanted)
    <3>1. Leads(c, d, "due", y)
      BY <1>1, <1>3, <2>1, <2>3, StartDetectorBrings DEF Brings
    <3>2. Means(d, "due")'
      BY <1>3 DEF Means, Sure
    <3>3. QED  BY <2>1, <3>1, <3>2, KindsAre
  <2>4. QED  BY <2>2, <2>3
<1>6. Still(c) \/ \E w, y : Brings(c, d, w, y)
  BY <1>1, <1>3, StillEmpty, StartDetectorBrings
<1>7. QED  BY <1>1, <1>2, <1>3, <1>4, <1>5, <1>6, OneObeys

\* The steps that only call a function.
LEMMA CallsObey ==
  ASSUME FlagsInv, Shaped, NEW t \in Threads, Calls(t)
  PROVE  Obeys(t)
<1>1. UNCHANGED <<input, sdk, running, wanted, asked>> /\ \A m \in Flags : Kept(m)
  BY KeptAll DEF Calls
<1>2. /\ Still(<<>>) /\ Alone(<<>>)
      /\ \A op \in Harmless, arg \in Args : Still(Do(op, arg)) /\ Alone(Do(op, arg))
      /\ \A op \in Outer \ {"grab"}, arg \in Args : Alone(Do(op, arg))
  BY HarmlessAlone
<1>3. ASSUME NEW op \in Harmless, At(t, op), NEW c, Still(c), Continue(t, c) PROVE Obeys(t)
  BY <1>1, <1>3, StillObeys
<1>4. ASSUME NEW op \in Outer \ {"grab"}, At(t, op), NEW c, Alone(c), Continue(t, c) PROVE Obeys(t)
  BY <1>1, <1>4, AloneObeys
<1>5. Still(Do("use", "-"))
  BY <1>2 DEF Harmless, Args
<1>6. CASE Acquire(t)
  BY <1>1, <1>6, AcquireObeys DEF Acquire
<1>7. CASE At(t, "startTracking") /\ Continue(t, StartTrackingLocked)
  BY <1>1, <1>7, StartTrackingObeys
<1>8. CASE At(t, "use") /\ camera = "open" /\ Continue(t, <<>>)
  BY <1>2, <1>3, <1>8 DEF Harmless
<1>9. CASE CheckMapping(t)
  BY <1>1, <1>9, CheckMappingObeys
<1>10. CASE CheckDetector(t)
  BY <1>1, <1>10, CheckDetectorObeys
<1>11. CASE SaveArea(t)
  <2>1. Still(IF "pt" \in running /\ camera = "open" THEN Do("use", "-") ELSE <<>>)
    BY <1>2, <1>5
  <2>2. QED  BY <1>3, <1>11, <2>1 DEF SaveArea, Harmless
<1>12. CASE t = G /\ CheckTracking
  <2>1. PICK subs \in BOOLEAN :
          /\ At(t, "tracking")
          /\ Continue(t, IF TrackingRequired(subs) /\ "pt" \notin running
                         THEN Locked("pt", Do("startTracking", "-") \o Do("count", "-")) ELSE <<>>)
    BY <1>12 DEF CheckTracking
  <2>2. Alone(IF TrackingRequired(subs) /\ "pt" \notin running
              THEN Locked("pt", Do("startTracking", "-") \o Do("count", "-")) ELSE <<>>)
    BY <1>2, GuardAlone
  <2>3. QED  BY <1>4, <2>1, <2>2 DEF Outer
<1>13. CASE t = G /\ CheckModules
  <2>1. /\ At(t, "modules")
        /\ Continue(t, IF noDepth THEN <<>>
                       ELSE Locked("map", Do("startMapping", "-"))
                            \o Each(LAMBDA d: Locked(d, Do("startDetector", d))))
    BY <1>13 DEF CheckModules
  <2>2. Alone(IF noDepth THEN <<>>
              ELSE Locked("map", Do("startMapping", "-"))
                   \o Each(LAMBDA d: Locked(d, Do("startDetector", d))))
    BY <1>2, CheckAlone
  <2>3. QED  BY <1>4, <2>1, <2>2 DEF Outer
<1>14. CASE t = G /\ Grabbed
  <2>1. PICK after \in {Process \o Again, Again, Do("kill", "-")}
                    \cup (IF input = "loop" THEN {Again, Do("startTracking", "-") \o Again} ELSE {})
                    \cup (IF input = "svo" THEN {Do("stop", "-") \o Again} ELSE {}) :
          At(t, "grab") /\ camera = "open" /\ Continue(t, Do("unlock", "grab") \o after)
    BY <1>14 DEF Grabbed
  <2>2. Ends(Do("unlock", "grab") \o after)
    BY <2>1, AfterGrabEnds
  <2>3. QED  BY <1>1, <2>1, <2>2, GrabObeys
<1>15. CASE t = G /\ CheckStreaming
  <2>1. Still(IF "stream" \in wanted \ running THEN StartStreaming ELSE <<>>)
    BY <1>2, StreamingStill
  <2>2. QED  BY <1>3, <1>15, <2>1 DEF CheckStreaming, Harmless
<1>16. CASE t = G /\ RegionOfInterest
  BY <1>1, <1>16, MaybeObeys DEF RegionOfInterest, Harmless
<1>17. CASE t = X /\ (PubTemp \/ PubFusedPc \/ ClickedPoint)
  <2>1. Maybe(t, "temperature") \/ Maybe(t, "fused") \/ Maybe(t, "clicked")
    BY <1>17 DEF PubTemp, PubFusedPc, ClickedPoint
  <2>2. QED  BY <1>1, <2>1, MaybeObeys DEF Harmless
<1>18. CASE t = X /\ Register
  BY <1>2, <1>3, <1>18 DEF Register, Harmless
<1>19. CASE t = X /\ EnableStreaming
  <2>1. Still(IF Arg(X) = ("stream" \in running) THEN <<>>
              ELSE IF Arg(X) THEN StartStreaming ELSE StopStreaming)
    BY <1>2, StreamingStill
  <2>2. QED  BY <1>3, <1>19, <2>1 DEF EnableStreaming, Harmless
<1>20. CASE t = X /\ Seek
  <2>1. /\ Alone(Do("use", "-")) /\ Alone(Do("reposition", "-")) /\ Alone(Do("replay", "-"))
        /\ Alone(Locked("grab", Do("use", "-")))
    BY <1>2, OneAlone DEF Harmless, Outer, Args
  <2>2. Alone(Do("use", "-") \o Locked("grab", Do("use", "-")) \o Do("reposition", "-") \o Do("replay", "-"))
    BY <2>1, AloneConcat
  <2>3. QED  BY <1>2, <1>4, <1>20, <2>2 DEF Seek, Outer
<1>21. CASE t = X /\ Reposition
  <2>1. PICK subs \in BOOLEAN :
          At(t, "reposition") /\ Continue(t, IF TrackingRequired(subs) THEN StartTracking ELSE <<>>)
    BY <1>21 DEF Reposition
  <2>2. Alone(IF TrackingRequired(subs) THEN StartTracking ELSE <<>>)
    BY <1>2, GuardAlone
  <2>3. QED  BY <1>4, <2>1, <2>2 DEF Outer
<1>22. CASE t = X /\ ResetTracking
  <2>1. Alone(IF "pt" \in running THEN StartTracking ELSE <<>>)
    BY <1>2, GuardAlone
  <2>2. QED  BY <1>4, <1>22, <2>1 DEF ResetTracking, Outer
<1>23. CASE t = X /\ (SetRoi \/ ResetRoi \/ Diagnose)
  <2>1. CASE SetRoi
    <3>1. PICK polygon \in BOOLEAN :
            At(t, "roi") /\ Continue(t, IF polygon /\ ~noDepth THEN Do("use", "-") ELSE <<>>)
      BY <1>23, <2>1 DEF SetRoi
    <3>2. Still(IF polygon /\ ~noDepth THEN Do("use", "-") ELSE <<>>)
      BY <1>2, <1>5
    <3>3. QED  BY <1>3, <3>1, <3>2 DEF Harmless
  <2>2. CASE ResetRoi
    <3>1. Still(IF noDepth THEN <<>> ELSE Do("use", "-"))
      BY <1>2, <1>5
    <3>2. QED  BY <1>3, <1>23, <2>2, <3>1 DEF ResetRoi, Harmless
  <2>3. CASE Diagnose
    <3>1. Still(IF camera = "open" THEN Do("use", "-") ELSE <<>>)
      BY <1>2, <1>5
    <3>2. QED  BY <1>3, <1>23, <2>3, <3>1 DEF Diagnose, Harmless
  <2>4. QED  BY <1>23, <2>1, <2>2, <2>3
<1>24. CASE t = S /\ Quit
  <2>1. At(t, "quit") /\ Continue(t, IF Arg(t) \in running THEN Locked(Arg(t), Do("halt", Arg(t))) ELSE <<>>)
    BY <1>24 DEF Quit
  <2>2. Arg(t) \in Args
    BY <2>1, StepFacts
  <2>3. Alone(IF Arg(t) \in running THEN Locked(Arg(t), Do("halt", Arg(t))) ELSE <<>>)
    BY <1>2, <2>2, QuitAlone
  <2>4. QED  BY <1>4, <2>1, <2>3 DEF Outer
<1>25. CASE t = S /\ (Join \/ Spun)
  <2>1. (At(t, "join") \/ At(t, "spun")) /\ Continue(t, <<>>)
    BY <1>25 DEF Join, Spun
  <2>2. QED  BY <1>2, <1>3, <2>1 DEF Harmless
<1>26. QED
  <2>1. \/ Acquire(t)
        \/ At(t, "startTracking") /\ Continue(t, StartTrackingLocked)
        \/ At(t, "use") /\ camera = "open" /\ Continue(t, <<>>)
        \/ CheckMapping(t) \/ CheckDetector(t) \/ SaveArea(t)
        \/ t = G /\ (CheckTracking \/ CheckModules \/ Grabbed \/ CheckStreaming \/ RegionOfInterest)
        \/ t = X /\ (Register \/ EnableStreaming \/ Seek \/ Reposition \/ ResetTracking \/ SetRoi
                     \/ ResetRoi \/ PubTemp \/ PubFusedPc \/ ClickedPoint \/ Diagnose)
        \/ t = S /\ (Quit \/ Join \/ Spun)
    BY DEF Calls
  <2>2. QED
    BY <1>6, <1>7, <1>8, <1>9, <1>10, <1>11, <1>12, <1>13, <1>14, <1>15, <1>16, <1>17, <1>18, <1>19,
       <1>20, <1>21, <1>22, <1>23, <1>24, <1>25, <2>1

LEMMA OneCallsObey ==
  ASSUME NEW t \in Threads, OneCalls(t)
  PROVE  Obeys(t)
<1>1. \A m \in Flags : Kept(m)
  BY KeptAll DEF OneCalls
<1>2. Still(<<>>) /\ \A op \in Harmless, arg \in Args : Still(Do(op, arg)) /\ Alone(Do(op, arg))
  BY HarmlessAlone
<1>3. Still(Do("use", "-")) /\ Still(Do("oneReplay", "-"))
  BY <1>2 DEF Harmless, Args
<1>4. CASE Report(t)
  <2>1. Still(IF "stream" \in running THEN Do("use", "-") ELSE <<>>)
    BY <1>2, <1>3
  <2>2. QED  BY <1>1, <1>4, <2>1, StillObeys DEF Report, Harmless
<1>5. CASE t = G /\ Fetch
  <2>1. Alone(Do("use", "-")) /\ Alone(Do("grabbed", "-"))
    BY HarmlessAlone DEF Harmless, Outer, Args
  <2>2. Alone(IF paused THEN Rest ELSE Do("use", "-") \o Do("grabbed", "-"))
    BY <2>1, OneAlone, AloneConcat
  <2>3. QED  BY <1>1, <1>5, <2>2, AloneObeys DEF Fetch, Outer
<1>6. CASE t = G /\ OneGrabbed
  <2>1. At(t, "grabbed")
    BY <1>6 DEF OneGrabbed
  <2>2. PICK after \in {Frame, Do("kill", "-")}
                    \cup (IF input = "loop" THEN {Do("use", "-") \o Frame} ELSE {})
                    \cup (IF input = "svo"
                          THEN {Do("stop", "-") \o Farewell,
                                Do("stop", "-") \o Do("use", "-") \o Do("report", "-") \o Frame}
                          ELSE {}) : Continue(t, after)
    BY <1>6 DEF OneGrabbed
  <2>3. Alone(after)
    BY <2>2, AfterOneGrabAlone
  <2>4. QED  BY <1>1, <2>1, <2>2, <2>3, AloneObeys DEF Outer
<1>7. CASE t = G /\ RecordingStatus
  <2>1. Still(IF "rec" \in running THEN Do("use", "-") ELSE <<>>)
    BY <1>2, <1>3
  <2>2. QED  BY <1>1, <1>7, <2>1, StillObeys DEF RecordingStatus, Harmless
<1>8. CASE t = G /\ Images
  BY <1>1, <1>8, MaybeObeys DEF Images, Harmless
<1>9. CASE t = X /\ OneSeek
  <2>1. PICK valid \in BOOLEAN :
          /\ At(t, "oneSeek")
          /\ Continue(t, Do("use", "-")
                           \o (IF valid THEN Do("use", "-") \o Do("oneReplay", "-") ELSE <<>>))
    BY <1>9 DEF OneSeek
  <2>2. Still(IF valid THEN Do("use", "-") \o Do("oneReplay", "-") ELSE <<>>)
    BY <1>2, <1>3, StillConcat
  <2>3. Still(Do("use", "-") \o (IF valid THEN Do("use", "-") \o Do("oneReplay", "-") ELSE <<>>))
    BY <1>3, <2>2, StillConcat
  <2>4. QED  BY <1>1, <2>1, <2>3, StillObeys DEF Harmless
<1>10. QED  BY <1>4, <1>5, <1>6, <1>7, <1>8, <1>9 DEF OneCalls

\* The steps that switch: the SDK's answer, and the flags.
LEMMA EnableObeys ==
  ASSUME Shaped, NEW t \in Threads, Enable(t)
  PROVE  Obeys(t)
<1>1. PICK e, a, c : e = Step(t) /\ a = Arg(t) /\ c = <<>>
  OBVIOUS
<1>2. /\ At(t, "enable") /\ Continue(t, c) /\ e.op = "enable" /\ e.arg = a
      /\ UNCHANGED <<input, wanted, asked>>
      /\ (sdk' = sdk \cup {a} /\ running' = running) \/ (running' = running \ {a} /\ sdk' = sdk)
  BY <1>1 DEF At, Arg, Enable, AfterRefusal
<1>3. \A m \in Flags \ {a} : Kept(m) /\ ~Concerns(e, m)
  BY <1>2 DEF Kept, Concerns, Starts, Owned
<1>4. Still(c)
  BY <1>1, StillEmpty
<1>5. CASE a \in Flags
  <2>1. ASSUME NEW x \in Kinds, NEW y \in Kinds, Turn(e, a, x, y), Means(a, x)
        PROVE  x # "free" /\ \E w \in Kinds \ {"free"} : Means(a, w)' /\ Leads(c, a, w, y)
    <3>1. x = "due" /\ y = "ahead" /\ Sure(a)
      BY <1>2, <2>1 DEF Turn, Concerns, Starts, Owned, Means
    <3>2. Means(a, "ahead")'
      BY <1>2, <3>1 DEF Means, Sure
    <3>3. Leads(c, a, "ahead", y)
      BY <1>4, <1>5, <3>1, KindsAre DEF Still
    <3>4. QED  BY <3>1, <3>2, <3>3, KindsAre
  <2>2. QED  BY <1>1, <1>2, <1>3, <1>4, <1>5, <2>1, OneObeys
<1>6. CASE a \notin Flags
  <2>1. Does(e, c)
    BY <1>2, <1>3, <1>4, <1>6, DoesStill
  <2>2. QED  BY <1>1, <1>2, <1>4, <2>1, LeadsSteps DEF Obeys
<1>7. QED  BY <1>5, <1>6

LEMMA StartedObeys ==
  ASSUME Shaped, NEW t \in Threads, Started(t)
  PROVE  Obeys(t)
<1>1. PICK e, a, c : e = Step(t) /\ a = Arg(t) /\ c = <<>>
  OBVIOUS
<1>2. /\ At(t, "started") /\ Continue(t, c) /\ e.op = "started" /\ e.arg = a
      /\ UNCHANGED <<input, sdk, wanted, asked>> /\ running' = running \cup ({a} \cap sdk)
  BY <1>1 DEF At, Arg, Started
<1>3. \A m \in Flags \ {a} : Kept(m) /\ ~Concerns(e, m)
  BY <1>2 DEF Kept, Concerns, Starts, Owned
<1>4. Still(c)
  BY <1>1, StillEmpty
<1>5. CASE a \in Flags
  <2>1. ASSUME NEW x \in Kinds, NEW y \in Kinds, Turn(e, a, x, y), Means(a, x)
        PROVE  x # "free" /\ \E w \in Kinds \ {"free"} : Means(a, w)' /\ Leads(c, a, w, y)
    <3>1. x = "ahead" /\ y = "same" /\ Sure(a) /\ (a \in running => a \in sdk)
      BY <1>2, <2>1 DEF Turn, Concerns, Starts, Owned, Means
    <3>2. Means(a, "same")'
      BY <1>2, <3>1 DEF Means, Sure, Same
    <3>3. Leads(c, a, "same", y)
      BY <1>4, <1>5, <3>1, KindsAre DEF Still
    <3>4. QED  BY <3>1, <3>2, <3>3, KindsAre
  <2>2. QED  BY <1>1, <1>2, <1>3, <1>4, <1>5, <2>1, OneObeys
<1>6. CASE a \notin Flags
  <2>1. Does(e, c)
    BY <1>2, <1>3, <1>4, <1>6, DoesStill
  <2>2. QED  BY <1>1, <1>2, <1>4, <2>1, LeadsSteps DEF Obeys
<1>7. QED  BY <1>5, <1>6

LEMMA DisableObeys ==
  ASSUME Shaped, NEW t \in Threads, Disable(t)
  PROVE  Obeys(t)
<1>1. PICK e, a, c : e = Step(t) /\ a = Arg(t) /\ c = <<>>
  OBVIOUS
<1>2. /\ At(t, "disable") /\ Continue(t, c) /\ e.op = "disable" /\ e.arg = a
      /\ UNCHANGED <<input, running, wanted, asked>> /\ sdk' = sdk \ {a}
  BY <1>1 DEF At, Arg, Disable
<1>3. \A m \in Flags \ {a} : Kept(m) /\ ~Concerns(e, m)
  BY <1>2 DEF Kept, Concerns, Starts, Owned
<1>4. Still(c)
  BY <1>1, StillEmpty
<1>5. CASE a \in Flags
  <2>1. ASSUME NEW x \in Kinds, NEW y \in Kinds, Turn(e, a, x, y), Means(a, x)
        PROVE  x # "free" /\ \E w \in Kinds \ {"free"} : Means(a, w)' /\ Leads(c, a, w, y)
    <3>1. (x = "due" /\ y = "due") \/ (x = "off" /\ y = "same")
      BY <1>2, <2>1 DEF Turn, Concerns, Starts, Owned
    <3>2. CASE x = "due" /\ y = "due"
      <4>1. Means(a, "due")'
        BY <1>2, <2>1, <3>2 DEF Means, Sure
      <4>2. Leads(c, a, "due", y)
        BY <1>4, <1>5, <3>2, KindsAre DEF Still
      <4>3. QED  BY <3>2, <4>1, <4>2, KindsAre
    <3>3. CASE x = "off" /\ y = "same"
      <4>1. a \notin running /\ (a = "map" => a \notin wanted)
        BY <2>1, <3>3 DEF Means
      <4>2. Means(a, "same")'
        BY <1>2, <4>1 DEF Means, Same
      <4>3. Leads(c, a, "same", y)
        BY <1>4, <1>5, <3>3, KindsAre DEF Still
      <4>4. QED  BY <3>3, <4>2, <4>3, KindsAre
    <3>4. QED  BY <3>1, <3>2, <3>3
  <2>2. QED  BY <1>1, <1>2, <1>3, <1>4, <1>5, <2>1, OneObeys
<1>6. CASE a \notin Flags
  <2>1. Does(e, c)
    BY <1>2, <1>3, <1>4, <1>6, DoesStill
  <2>2. QED  BY <1>1, <1>2, <1>4, <2>1, LeadsSteps DEF Obeys
<1>7. QED  BY <1>5, <1>6

\* The flags of the streaming server alone are cleared by steps of their own.
LEMMA StoppedObeys ==
  ASSUME Shaped, NEW t \in Threads, Stopped(t) \/ Unwanted(t)
  PROVE  Obeys(t)
<1>1. PICK e, a, c : e = Step(t) /\ a = Arg(t) /\ c = <<>>
  OBVIOUS
<1>2. /\ \E op \in {"stopped", "unwanted"} : At(t, op)
      /\ Continue(t, c) /\ e.op \in {"stopped", "unwanted"} /\ e.arg = a
      /\ UNCHANGED <<input, sdk, asked>>
      /\ running' \in {running, running \ {a}} /\ wanted' \in {wanted, wanted \ {a}}
  BY <1>1 DEF At, Arg, Stopped, Unwanted
<1>3. \A m \in Flags \ {a} : Kept(m) /\ ~Concerns(e, m)
  BY <1>2 DEF Kept, Concerns, Starts, Owned
<1>4. Still(c)
  BY <1>1, StillEmpty
<1>5. CASE a \in Flags
  <2>1. \A x \in Kinds, y \in Kinds : ~Turn(e, a, x, y)
    BY <1>2 DEF Turn, Concerns, Starts, Owned
  <2>2. QED  BY <1>1, <1>2, <1>3, <1>4, <1>5, <2>1, OneObeys
<1>6. CASE a \notin Flags
  <2>1. Does(e, c)
    BY <1>2, <1>3, <1>4, <1>6, DoesStill
  <2>2. QED  BY <1>1, <1>2, <1>4, <2>1, LeadsSteps DEF Obeys
<1>7. QED  BY <1>5, <1>6

LEMMA HaltObeys ==
  ASSUME Shaped, NEW t \in Threads, Halt(t)
  PROVE  Obeys(t)
<1>1. PICK e, a : e = Step(t) /\ a = Arg(t)
  OBVIOUS
<1>2. PICK c : c = IF a \in running THEN IF a = "map" THEN Do("disable", "map")
                                           ELSE Locked("grab", Do("disable", a))
                   ELSE <<>>
  OBVIOUS
<1>3. /\ At(t, "halt") /\ Continue(t, c) /\ e.op = "halt" /\ e.arg = a /\ a \in Args
      /\ UNCHANGED <<input, sdk, asked>>
      /\ running' = running \ {a} \/ (a \notin running /\ running' = running)
      /\ wanted' = wanted \ {a} \/ (a \notin running /\ wanted' = wanted)
  <2>1. At(t, "halt") /\ UNCHANGED <<input, sdk, asked>> /\ e.op = "halt" /\ e.arg = a
    BY <1>1 DEF At, Arg, Halt
  <2>2. a \in Args
    BY <1>1, <2>1, StepFacts
  <2>3. CASE a \in running
    BY <1>1, <1>2, <2>1, <2>2, <2>3 DEF Halt, Forgotten
  <2>4. CASE a \notin running
    BY <1>1, <1>2, <2>1, <2>2, <2>4 DEF Halt
  <2>5. QED  BY <2>3, <2>4
<1>4. \A m \in Flags \ {a} : Kept(m) /\ ~Concerns(e, m)
  BY <1>3 DEF Kept, Concerns, Starts, Owned
<1>5. CASE a \in Flags
  <2>1. a \in running => Brings(c, a, "off", "same")
    <3>1. Brings(Do("disable", a), a, "off", "same")
      BY <1>5, OwnedBrings
    <3>2. Brings(Locked("grab", Do("disable", a)), a, "off", "same")
      BY <1>5, <3>1, FlagsAre, KindsAre, LockedBrings DEF Args
    <3>3. QED  BY <1>2, <3>1, <3>2
  <2>2. a \notin running => Still(c)
    BY <1>2, StillEmpty
  <2>3. ASSUME NEW x \in Kinds, NEW y \in Kinds, Turn(e, a, x, y), Means(a, x)
        PROVE  x # "free" /\ \E w \in Kinds \ {"free"} : Means(a, w)' /\ Leads(c, a, w, y)
    <3>1. x \in {"same", "doomed"} /\ y = "same"
      BY <1>3, <2>3 DEF Turn, Concerns, Starts, Owned
    <3>2. CASE a \in running
      <4>1. Means(a, "off")'
        BY <1>3, <3>2 DEF Means
      <4>2. Leads(c, a, "off", y)
        BY <2>1, <3>1, <3>2 DEF Brings
      <4>3. QED  BY <3>1, <4>1, <4>2, KindsAre
    <3>3. CASE a \notin running
      <4>1. Same(a)
        BY <2>3, <3>1, <3>3 DEF Means
      <4>2. Means(a, "same")'
        BY <1>3, <3>3, <4>1 DEF Means, Same
      <4>3. Leads(c, a, "same", y)
        BY <1>5, <2>2, <3>1, <3>3, KindsAre DEF Still
      <4>4. QED  BY <3>1, <4>2, <4>3, KindsAre
    <3>4. QED  BY <3>2, <3>3
  <2>4. QED  BY <1>1, <1>3, <1>4, <1>5, <2>1, <2>2, <2>3, OneObeys
<1>6. CASE a \notin Flags
  <2>1. Still(c)
    <3>1. Still(Do("disable", a))
      BY <1>3, <1>6, StillOwned
    <3>2. Still(Locked("grab", Do("disable", a)))
      BY <3>1, FlagsAre, LockedStill DEF Args
    <3>3. a # "map"
      BY <1>6, FlagsAre
    <3>4. QED  BY <1>2, <3>2, <3>3, StillEmpty
  <2>2. Does(e, c)
    BY <1>3, <1>4, <1>6, <2>1, DoesStill
  <2>3. QED  BY <1>1, <1>3, <2>1, <2>2, LeadsSteps DEF Obeys
<1>7. QED  BY <1>5, <1>6

\* The services that are asked to switch.
LEMMA DetectObeys ==
  ASSUME FlagsInv, Shaped, EnableDetector
  PROVE  Obeys(X)
<1> X \in Threads
  BY DEF Threads
<1>1. PICK e, d : e = Step(X) /\ d = Arg(X)
  OBVIOUS
<1>2. PICK c : c = IF d \in wanted \cap running THEN <<>> ELSE Do("startDetector", d)
  OBVIOUS
<1>3. /\ At(X, "detect") /\ Continue(X, c) /\ e.op = "detect" /\ e.arg = d
      /\ UNCHANGED <<input, sdk, running, asked>> /\ wanted' = wanted \cup {d}
  BY <1>1, <1>2 DEF At, Arg, EnableDetector
<1>4. d \in Detectors /\ d \in Flags /\ d # "map" /\ d # "rec"
  <2>1. Typed(e)
    BY <1>1, <1>3, StepTyped
  <2>2. QED  BY <1>3, <2>1, FlagsAre DEF Typed
<1>5. \A m \in Flags : Kept(m)
  BY <1>3, <1>4 DEF Kept
<1>6. \A m \in Flags \ {d} : Kept(m) /\ ~Concerns(e, m)
  BY <1>3, <1>5 DEF Concerns, Starts, Owned
<1>7. Still(c) \/ Brings(c, d, "same", "same")
  BY <1>2, <1>4, StillEmpty, StartsBring
<1>8. Leads(c, d, "same", "same")
  BY <1>4, <1>7, KindsAre DEF Still, Brings
<1>9. ASSUME NEW x \in Kinds, NEW y \in Kinds, Turn(e, d, x, y), Means(d, x)
      PROVE  x # "free" /\ \E w \in Kinds \ {"free"} : Means(d, w)' /\ Leads(c, d, w, y)
  <2>1. x = "same" /\ y = "same"
    BY <1>3, <1>4, <1>9 DEF Turn, Concerns, Starts
  <2>2. Means(d, "same")'
    BY <1>4, <1>5, <1>9, <2>1, KindsAre, KeptMeans
  <2>3. QED  BY <1>8, <2>1, <2>2, KindsAre
<1>10. QED  BY <1>1, <1>3, <1>4, <1>6, <1>7, <1>9, OneObeys

LEMMA MappingObey ==
  ASSUME FlagsInv, Shaped, EnableMapping
  PROVE  Obeys(X)
<1> X \in Threads
  BY DEF Threads
<1>1. PICK e, on : e = Step(X) /\ on = Arg(X)
  OBVIOUS
<1>2. PICK c : c = IF on THEN (IF "map" \in wanted \cap running THEN <<>> ELSE Do("startMapping", "-"))
                   ELSE (IF "map" \in wanted \cap running THEN Do("halt", "map") ELSE <<>>)
  OBVIOUS
<1>3. At(X, "mapping") /\ e.op = "mapping" /\ e.arg = on
  BY <1>1 DEF At, Arg, EnableMapping
<1>4. on \in BOOLEAN
  <2>1. Typed(e)
    BY <1>1, <1>3, StepTyped
  <2>2. QED  BY <1>3, <2>1 DEF Typed
<1>5. /\ Continue(X, c) /\ UNCHANGED <<input, sdk>> /\ asked' = on
      /\ \A m \in Flags \ {"map"} : (m \in running' <=> m \in running)
  <2>1. UNCHANGED <<input, sdk>> /\ asked' = on
        /\ running' = IF ~on /\ "map" \notin wanted THEN running \ {"map"} ELSE running
    BY <1>1 DEF EnableMapping
  <2>2. CASE on
    BY <1>1, <1>2, <2>1, <2>2 DEF EnableMapping
  <2>3. CASE ~on /\ "map" \in wanted \cap running
    BY <1>1, <1>2, <2>1, <2>3 DEF EnableMapping
  <2>4. CASE ~on /\ "map" \notin wanted \cap running
    BY <1>1, <1>2, <2>1, <2>4 DEF EnableMapping
  <2>5. QED  BY <2>2, <2>3, <2>4
<1>6. \A m \in Flags \ {"map"} : Kept(m) /\ ~Concerns(e, m)
  BY <1>3, <1>5 DEF Kept, Concerns, Starts, Owned
<1>7. "map" \in Flags
  BY FlagsAre
<1>8. /\ Still(<<>>) /\ Brings(Do("startMapping", "-"), "map", "same", "same")
      /\ Brings(Do("halt", "map"), "map", "doomed", "same")
  BY <1>7, StillEmpty, StartsBring, OwnedBrings
<1>9. ASSUME NEW x \in Kinds, NEW y \in Kinds, Turn(e, "map", x, y), Means("map", x)
      PROVE  x # "free" /\ \E w \in Kinds \ {"free"} : Means("map", w)' /\ Leads(c, "map", w, y)
  <2>1. x = "same" /\ y = "same" /\ Same("map")
    BY <1>3, <1>9 DEF Turn, Concerns, Starts, Means
  <2>2. CASE on
    <3>1. running' = running /\ wanted' = wanted \cup {"map"}
      BY <1>1, <2>2 DEF EnableMapping
    <3>2. Means("map", "same")'
      BY <1>5, <2>1, <2>2, <3>1 DEF Means, Same
    <3>3. Leads(c, "map", "same", y)
      BY <1>2, <1>7, <1>8, <2>1, <2>2, KindsAre DEF Still, Brings
    <3>4. QED  BY <2>1, <3>2, <3>3, KindsAre
  <2>3. CASE ~on /\ "map" \in wanted \cap running
    <3>1. running' = running
      BY <1>1, <2>3 DEF EnableMapping
    <3>2. Means("map", "doomed")'
      BY <1>5, <2>1, <2>3, <3>1 DEF Means, Same
    <3>3. Leads(c, "map", "doomed", y)
      BY <1>2, <1>8, <2>1, <2>3 DEF Brings
    <3>4. QED  BY <2>1, <3>2, <3>3, KindsAre
  <2>4. CASE ~on /\ "map" \notin wanted \cap running
    <3>1. /\ "map" \notin running /\ "map" \notin sdk
          /\ wanted' = wanted \ {"map"} /\ "map" \notin running'
      BY <1>1, <2>1, <2>4 DEF EnableMapping, Forgotten, Same
    <3>2. Means("map", "same")'
      BY <1>5, <3>1 DEF Means, Same
    <3>3. Leads(c, "map", "same", y)
      BY <1>2, <1>7, <1>8, <2>1, <2>4, KindsAre DEF Still
    <3>4. QED  BY <2>1, <3>2, <3>3, KindsAre
  <2>5. QED  BY <2>2, <2>3, <2>4
<1>10. Still(c) \/ \E w, y : Brings(c, "map", w, y)
  BY <1>2, <1>8
<1>11. QED  BY <1>1, <1>3, <1>5, <1>6, <1>7, <1>9, <1>10, OneObeys

LEMMA RecordObeys ==
  ASSUME FlagsInv, Shaped, Record
  PROVE  Obeys(X)
<1> X \in Threads
  BY DEF Threads
<1>1. PICK e, on : e = Step(X) /\ on = Arg(X)
  OBVIOUS
<1>2. PICK c : c = IF input # "live" \/ on = ("rec" \in running) THEN <<>>
                   ELSE IF on THEN StartRecording ELSE Do("disable", "rec")
  OBVIOUS
<1>3. /\ At(X, "record") /\ e.op = "record" /\ e.arg = on /\ Continue(X, c)
      /\ UNCHANGED <<input, sdk, wanted, asked>>
      /\ running' = IF on THEN running ELSE running \ {"rec"}
  BY <1>1, <1>2 DEF At, Arg, Record
<1>4. on \in BOOLEAN
  <2>1. Typed(e)
    BY <1>1, <1>3, StepTyped
  <2>2. QED  BY <1>3, <2>1 DEF Typed
<1>5. \A m \in Flags \ {"rec"} : Kept(m) /\ ~Concerns(e, m)
  BY <1>3 DEF Kept, Concerns, Starts, Owned
<1>6. "rec" \in Flags
  BY FlagsAre
<1>7. Still(<<>>) /\ Brings(StartRecording, "rec", "due", "same") /\ Brings(Do("disable", "rec"), "rec", "off", "same")
  BY <1>6, StillEmpty, StartRecordingBrings, OwnedBrings
<1>8. ASSUME NEW x \in Kinds, NEW y \in Kinds, Turn(e, "rec", x, y), Means("rec", x)
      PROVE  x # "free" /\ \E w \in Kinds \ {"free"} : Means("rec", w)' /\ Leads(c, "rec", w, y)
  <2>1. x = "same" /\ y = "same" /\ Same("rec")
    BY <1>3, <1>8 DEF Turn, Concerns, Starts, Means
  <2>2. CASE input # "live" \/ on = ("rec" \in running)
    <3>1. c = <<>>
      BY <1>2, <2>2
    <3>2. "rec" \in running' <=> "rec" \in running
      BY <1>3, <1>4, <2>1, <2>2 DEF Same
    <3>3. Means("rec", "same")'
      BY <1>3, <2>1, <3>2 DEF Means, Same
    <3>4. Leads(c, "rec", "same", y)
      BY <1>6, <1>7, <2>1, <3>1, KindsAre DEF Still
    <3>5. QED  BY <2>1, <3>3, <3>4, KindsAre
  <2>3. CASE ~(input # "live" \/ on = ("rec" \in running)) /\ on
    <3>1. Leads(c, "rec", "due", y)
      BY <1>2, <1>7, <2>1, <2>3 DEF Brings
    <3>2. Means("rec", "due")'
      BY <1>3, <2>3 DEF Means, Sure
    <3>3. QED  BY <2>1, <3>1, <3>2, KindsAre
  <2>4. CASE ~(input # "live" \/ on = ("rec" \in running)) /\ ~on
    <3>1. Leads(c, "rec", "off", y)
      BY <1>2, <1>7, <2>1, <2>4 DEF Brings
    <3>2. Means("rec", "off")'
      BY <1>3, <2>4 DEF Means
    <3>3. QED  BY <2>1, <3>1, <3>2, KindsAre
  <2>5. QED  BY <2>2, <2>3, <2>4
<1>9. Still(c) \/ \E w, y : Brings(c, "rec", w, y)
  BY <1>2, <1>7
<1>10. QED  BY <1>1, <1>3, <1>5, <1>6, <1>8, <1>9, OneObeys

\* The end of the process leaves everything as it is, and so do the other threads.
Idles == UNCHANGED <<control, input, sdk, running, wanted, asked>>

LEMMA AnyStepObeys ==
  ASSUME FlagsInv, Shaped, NEW t \in Threads, AnyStep(t)
  PROVE  Obeys(t) \/ Idles
<1>1. CASE NullCamera(t)
  BY <1>1 DEF NullCamera, Idles
<1>2. CASE StopThreads(t)
  <2>1. At(t, "stop") /\ Continue(t, <<>>) /\ UNCHANGED <<input, sdk, running, wanted, asked>>
    BY <1>2 DEF StopThreads
  <2>2. QED  BY <2>1, KeptAll, StillEmpty, StillObeys DEF Harmless
<1>3. QED
  BY <1>1, <1>2, CallsObey, EnableObeys, StartedObeys, DisableObeys, HaltObeys, StoppedObeys DEF AnyStep

LEMMA GrabStepsObey ==
  ASSUME Top \/ CountFailure \/ Kill \/ Begin \/ OneTop \/ End
  PROVE  Obeys(G) \/ Idles
<1> G \in Threads
  BY DEF Threads
<1>1. CASE Kill
  BY <1>1 DEF Kill, Idles
<1>2. CASE Top \/ CountFailure \/ Begin \/ OneTop \/ End
  <2>1. UNCHANGED <<input, sdk, running, wanted, asked>>
    BY <1>2 DEF Top, CountFailure, Begin, OneTop, End
  <2>2. \A m \in Flags : Kept(m)
    BY <2>1, KeptAll
  <2>3. CASE Top
    <3>1. At(G, "top") /\ (Continue(G, <<>>) \/ Continue(G, Iteration))
      BY <2>3 DEF Top
    <3>2. QED  BY <2>2, <3>1, HarmlessAlone, IterationAlone, AloneObeys DEF Outer
  <2>4. CASE CountFailure
    <3>1. At(G, "count") /\ Continue(G, <<>>)
      BY <2>4 DEF CountFailure
    <3>2. QED  BY <2>2, <3>1, StillEmpty, StillObeys DEF Harmless
  <2>5. CASE Begin
    <3>1. At(G, "begin") /\ Continue(G, Do("oneTop", "-"))
      BY <2>5 DEF Begin
    <3>2. Alone(Do("oneTop", "-"))
      BY HarmlessAlone DEF Outer, Args
    <3>3. QED  BY <2>2, <3>1, <3>2, AloneObeys DEF Outer
  <2>6. CASE OneTop
    <3>1. /\ At(G, "oneTop")
          /\ \/ Continue(G, Farewell)
             \/ \E settings \in {Do("use", "-"), <<>>} : Continue(G, settings \o Do("fetch", "-"))
      BY <2>6 DEF OneTop
    <3>2. Alone(Do("use", "-")) /\ Alone(Do("fetch", "-")) /\ Alone(<<>>)
      BY HarmlessAlone DEF Harmless, Outer, Args
    <3>3. \A settings \in {Do("use", "-"), <<>>} : Alone(settings \o Do("fetch", "-"))
      BY <3>2, AloneConcat
    <3>4. QED  BY <2>2, <3>1, <3>3, OneAlone, AloneObeys DEF Outer
  <2>7. CASE End
    <3>1. At(G, "end") /\ Continue(G, <<>>)
      BY <2>7 DEF End
    <3>2. QED  BY <2>2, <3>1, StillEmpty, StillObeys DEF Harmless
  <2>8. QED  BY <1>2, <2>3, <2>4, <2>5, <2>6, <2>7
<1>3. QED  BY <1>1, <1>2

LEMMA ServiceStepsObey ==
  ASSUME FlagsInv, Shaped,
         \/ Connect \/ Configure \/ Launch \/ EnableDepth \/ EnableDetector \/ EnableMapping
         \/ Record \/ PauseSvo \/ Replay \/ Open \/ OneReplay
  PROVE  Obeys(X)
<1> X \in Threads
  BY DEF Threads
<1>1. CASE Configure
  <2>1. /\ At(X, "configure") /\ UNCHANGED <<input, sdk, running, wanted, asked>>
        /\ Continue(X, IF input = "live" THEN Locked("pt", Do("use", "-")) ELSE <<>>)
    BY <1>1 DEF Configure, DummyGrab
  <2>2. Alone(IF input = "live" THEN Locked("pt", Do("use", "-")) ELSE <<>>)
    BY HarmlessAlone, OneAlone DEF Harmless, Args
  <2>3. QED  BY <2>1, <2>2, KeptAll, AloneObeys DEF Outer
<1>2. CASE Connect \/ Launch \/ EnableDepth \/ PauseSvo \/ Replay \/ Open \/ OneReplay
  <2>1. /\ \E op \in {"connect", "launch", "depth", "pause", "replay", "open", "oneReplay"} : At(X, op)
        /\ Continue(X, <<>>) /\ UNCHANGED <<input, sdk, running, wanted, asked>>
    BY <1>2 DEF Connect, Launch, EnableDepth, PauseSvo, Replay, Open, OneReplay
  <2>2. QED  BY <2>1, KeptAll, StillEmpty, StillObeys DEF Harmless
<1>3. QED  BY <1>1, <1>2, DetectObeys, MappingObey, RecordObeys

LEMMA ShutdownStepsObey ==
  ASSUME CloseCamera \/ ContextDown
  PROVE  Obeys(S)
<1>1. /\ At(S, "close") \/ At(S, "down")
      /\ Continue(S, <<>>) /\ UNCHANGED <<input, sdk, running, wanted, asked>>
  BY DEF CloseCamera, ContextDown
<1>2. S \in Threads
  BY DEF Threads
<1>3. QED  BY <1>1, <1>2, KeptAll, StillEmpty, StillObeys DEF Harmless

-----------------------------------------------------------------------------
(* The flags agree with the SDK.                                           *)

LEMMA FlagsRest == FlagsInv /\ Idles => FlagsInv'
<1> SUFFICES ASSUME FlagsInv, Idles PROVE FlagsInv'
  OBVIOUS
<1>1. UNCHANGED <<todo, lock>> /\ \A m \in Flags : Kept(m)
  BY KeptAll DEF Idles, control
<1>2. ASSUME NEW m \in Flags PROVE (lock[m] = None => Same(m))'
  BY <1>1 DEF FlagsInv, Kept, Same
<1>3. ASSUME NEW m \in Flags, NEW t \in Threads PROVE \E x \in Kinds : Holds(t, m, x)'
  <2>1. PICK x \in Kinds : Holds(t, m, x)
    BY DEF FlagsInv
  <2>2. Means(m, x)'
    BY <1>1, <2>1, KeptMeans DEF Holds
  <2>3. Holds(t, m, x)'
    BY <1>1, <2>1, <2>2 DEF Holds
  <2>4. QED  BY <2>3
<1>4. QED  BY <1>2, <1>3 DEF FlagsInv

\* A thread that has nothing to do is given a function of its own.
LEMMA FlagsCall ==
  ASSUME FlagsInv, Shaped, NEW t \in Threads, todo[t] = <<>>, NEW c, Alone(c),
         todo' = [todo EXCEPT ![t] = c], UNCHANGED <<lock, input, sdk, running, wanted, asked>>
  PROVE  FlagsInv'
<1>1. todo'[t] = c /\ \A u \in Threads \ {t} : todo'[u] = todo[u]
  BY DEF Shaped
<1>2. \A m \in Flags : Kept(m)
  BY KeptAll
<1>3. ASSUME NEW m \in Flags PROVE (lock[m] = None => Same(m))'
  BY DEF FlagsInv, Same
<1>4. ASSUME NEW m \in Flags PROVE Holds(t, m, "free")'
  <2>1. PICK x \in Kinds : (x = "free" <=> lock[m] # t) /\ Leads(<<>>, m, x, "free")
    BY DEF FlagsInv, Holds
  <2>2. x = "free"
    <3>1. PICK s : s = <<>>
      OBVIOUS
    <3>2. Len(s) = 0 /\ \E h : h[0] = x /\ h[Len(s)] = "free"
      BY <2>1, <3>1 DEF Leads
    <3>3. QED  BY <3>2
  <2>3. Leads(c, m, "free", "free")
    BY DEF Alone
  <2>4. QED  BY <1>1, <2>1, <2>2, <2>3 DEF Holds, Means
<1>5. ASSUME NEW m \in Flags, NEW u \in Threads \ {t} PROVE \E x \in Kinds : Holds(u, m, x)'
  <2>1. PICK x \in Kinds : Holds(u, m, x)
    BY DEF FlagsInv
  <2>2. Means(m, x)'
    BY <1>2, <2>1, KeptMeans DEF Holds
  <2>3. Holds(u, m, x)'
    BY <1>1, <2>1, <2>2 DEF Holds
  <2>4. QED  BY <2>3
<1>6. QED  BY <1>3, <1>4, <1>5, KindsAre DEF FlagsInv

LEMMA FlagsInit == NodesInit => FlagsInv
<1> SUFFICES ASSUME NodesInit PROVE FlagsInv
  OBVIOUS
<1>1. Alone(<<>>)
  BY HarmlessAlone
<1>2. \A t \in Threads : Alone(todo[t])
  <2>1. CASE ZedInit
    <3>1. todo = [t \in Threads |-> IF t = G THEN Do("top", "-") ELSE IF t = X THEN StartCamera ELSE <<>>]
      BY <2>1 DEF ZedInit
    <3>2. QED  BY <1>1, <3>1, StartAlone
  <2>2. CASE OneInit
    <3>1. todo = [t \in Threads |-> IF t = G THEN Do("begin", "-")
                                    ELSE IF t = X THEN Do("open", "-") \o Do("register", "-") ELSE <<>>]
      BY <2>2 DEF OneInit
    <3>2. QED  BY <1>1, <3>1, StartAlone
  <2>3. QED  BY <2>1, <2>2 DEF NodesInit
<1>3. /\ \A l \in Locks : lock[l] = None
      /\ running = {} /\ sdk = {} /\ (~asked => "map" \notin wanted)
  BY DEF NodesInit, ZedInit, OneInit
<1>4. ASSUME NEW m \in Flags PROVE Same(m)
  BY <1>3 DEF Same
<1>5. ASSUME NEW m \in Flags, NEW t \in Threads PROVE Holds(t, m, "free")
  <2>1. lock[m] = None /\ None # t
    BY <1>3, FlagsAreLocks, ZedControlAssumption DEF ZedControlAssumption
  <2>2. QED  BY <1>2, <2>1 DEF Holds, Means, Alone
<1>6. QED  BY <1>4, <1>5, KindsAre DEF FlagsInv

\* What a step of either node is, for the flags.
LEMMA NodesObey ==
  ASSUME FlagsInv, Shaped, NodesNext
  PROVE  \/ \E t \in Threads : Obeys(t)
         \/ Idles
         \/ UNCHANGED <<lock, input, sdk, running, wanted, asked>>
            /\ \/ /\ todo[X] = <<>>
                  /\ \E c : Alone(c) /\ todo' = [todo EXCEPT ![X] = c]
               \/ /\ ~deinit
                  /\ \E c : Alone(c) /\ todo' = [todo EXCEPT ![S] = c]
<1> G \in Threads /\ X \in Threads /\ S \in Threads
  BY DEF Threads
<1>1. CASE NodeGrabStep
  <2>1. AnyStep(G) \/ OneCalls(G) \/ Top \/ CountFailure \/ Kill \/ Begin \/ OneTop \/ End
    BY <1>1 DEF NodeGrabStep, Zed, One, GrabStep
  <2>2. Obeys(G) \/ Idles
    BY <2>1, AnyStepObeys, OneCallsObey, GrabStepsObey
  <2>3. QED  BY <2>2
<1>2. CASE NodeServiceStep
  <2>1. \/ AnyStep(X) \/ OneCalls(X)
        \/ Connect \/ Configure \/ Launch \/ EnableDepth \/ EnableDetector \/ EnableMapping
        \/ Record \/ PauseSvo \/ Replay \/ Open \/ OneReplay
    BY <1>2 DEF NodeServiceStep, Zed, One, ServiceStep
  <2>2. Obeys(X) \/ Idles
    BY <2>1, AnyStepObeys, OneCallsObey, ServiceStepsObey
  <2>3. QED  BY <2>2
<1>3. CASE NodeShutdownStep
  <2>1. AnyStep(S) \/ OneCalls(S) \/ CloseCamera \/ ContextDown
    BY <1>3 DEF NodeShutdownStep, Zed, One, ShutdownStep
  <2>2. Obeys(S) \/ Idles
    BY <2>1, AnyStepObeys, OneCallsObey, ShutdownStepsObey
  <2>3. QED  BY <2>2
<1>4. CASE NodeWorkersEnd \/ Zed(Sense) \/ One(Sense)
  <2>1. WorkersEnd \/ Sense
    BY <1>4 DEF NodeWorkersEnd, SensorsEnd, Zed, One
  <2>2. Idles
    BY <2>1 DEF WorkersEnd, Sense, Idles
  <2>3. QED  BY <2>2
<1>5. CASE Zed(Call) \/ One(OneCall)
  <2>1. /\ todo[X] = <<>> /\ UNCHANGED <<lock, input, sdk, running, wanted, asked>>
        /\ \E c \in Services \cup Callbacks \cup OneServices : todo' = [todo EXCEPT ![X] = c]
    BY <1>5 DEF Zed, One, Call, OneCall
  <2>2. PICK c \in Services \cup Callbacks \cup OneServices : todo' = [todo EXCEPT ![X] = c]
    BY <2>1
  <2>3. Alone(c)
    BY ServicesAlone, OneServicesAlone
  <2>4. QED  BY <2>1, <2>2, <2>3
<1>6. CASE Zed(Interrupt) \/ One(OneInterrupt)
  <2>1. /\ ~deinit /\ UNCHANGED <<lock, input, sdk, running, wanted, asked>>
        /\ \E steps \in {DeInit, OneDeInit} :
             todo' = [todo EXCEPT ![S] = (IF Hooked THEN <<>> ELSE Do("spun", "-")) \o steps]
    BY <1>6 DEF Zed, One, Interrupt, OneInterrupt, Interrupted
  <2>2. PICK steps \in {DeInit, OneDeInit} :
             todo' = [todo EXCEPT ![S] = (IF Hooked THEN <<>> ELSE Do("spun", "-")) \o steps]
    BY <2>1
  <2>3. PICK c : c = (IF Hooked THEN <<>> ELSE Do("spun", "-")) \o steps
    OBVIOUS
  <2>4. Alone(c) /\ todo' = [todo EXCEPT ![S] = c]
    BY <2>2, <2>3, DeInitAlone
  <2>5. QED  BY <2>1, <2>4
<1>7. QED  BY <1>1, <1>2, <1>3, <1>4, <1>5, <1>6 DEF NodesNext

LEMMA FlagsNext == GrabInv /\ CameraInv /\ FlagsInv /\ [NodesNext]_nodeVars => FlagsInv'
<1> SUFFICES ASSUME GrabInv, CameraInv, FlagsInv, [NodesNext]_nodeVars PROVE FlagsInv'
  OBVIOUS
<1>1. Shaped /\ lock \in [Locks -> Threads \cup {None}]
  BY DEF GrabInv
<1>2. ~deinit => todo[S] = <<>>
  BY DEF CameraInv
<1>3. X \in Threads /\ S \in Threads
  BY DEF Threads
<1>4. CASE UNCHANGED nodeVars \/ Idles
  <2>1. Idles
    BY <1>4 DEF nodeVars, zedVars, Idles
  <2>2. QED  BY <2>1, FlagsRest
<1>5. ASSUME NEW t \in Threads, Obeys(t) PROVE FlagsInv'
  <2>1. PICK op, c : At(t, op) /\ c \in Seq(StepSet) /\ Continue(t, c) /\ Does(Step(t), c)
    BY <1>5 DEF Obeys
  <2>2. QED  BY <1>1, <2>1, FlagsMove
<1>6. ASSUME UNCHANGED <<lock, input, sdk, running, wanted, asked>>,
             NEW t \in {X, S}, todo[t] = <<>>, NEW c, Alone(c), todo' = [todo EXCEPT ![t] = c]
      PROVE  FlagsInv'
  BY <1>1, <1>3, <1>6, FlagsCall
<1>7. QED  BY <1>1, <1>2, <1>4, <1>5, <1>6, NodesObey

\* The variables have their types; the third failure in a row is the last one.
TypesInv == ZedTypeOK /\ (exited = "no" => failures # 3)

LEMMA TypesInit == NodesInit => TypesInv
<1> SUFFICES ASSUME NodesInit PROVE TypesInv
  OBVIOUS
<1>1. /\ lock = [l \in Locks |-> None]
      /\ camera = "closed" /\ sdk = {} /\ running = {}
      /\ noDepth = FALSE /\ paused = FALSE /\ once = FALSE /\ imuOnce = FALSE /\ failures = 0
      /\ stop = FALSE /\ ok = TRUE /\ deinit = FALSE /\ ended = Workers \cup {G}
      /\ calls = 0 /\ exited = "no"
  BY DEF NodesInit, ZedInit, OneInit
<1>2. input \in Inputs /\ wanted \subseteq Modules /\ asked \in BOOLEAN
  <2>1. CASE ZedInit
    <3>1. PICK setup \in Setups :
            input = setup.input /\ wanted = setup.enabled /\ asked = ("map" \in setup.enabled)
      BY <2>1 DEF ZedInit
    <3>2. setup.input \in Inputs /\ setup.enabled \in SUBSET ({"map", "stream"} \cup Detectors)
      BY ZedControlAssumption DEF ZedControlAssumption
    <3>3. QED  BY <3>1, <3>2 DEF Modules
  <2>2. CASE OneInit
    BY <2>2 DEF OneInit, Modules
  <2>3. QED  BY <2>1, <2>2 DEF NodesInit
<1>3. MaxCalls \in Nat
  BY ZedControlAssumption DEF ZedControlAssumption
<1>4. lock \in [Locks -> Threads \cup {None}]
  BY <1>1
<1>5. calls \in 0..MaxCalls /\ failures \in 0..3 /\ failures # 3
  BY <1>1, <1>3
<1>6. QED  BY <1>1, <1>2, <1>4, <1>5 DEF TypesInv, ZedTypeOK

\* Every step of a thread but the few below leaves the parameters alone.
LEMMA TypesQuiet ==
  ASSUME TypesInv, lock' \in [Locks -> Threads \cup {None}],
         UNCHANGED <<input, sdk, running, wanted, asked, playVars, failures, endVars, calls>>
  PROVE  TypesInv'
  BY DEF TypesInv, ZedTypeOK, playVars, endVars

LEMMA TypesAnyStep ==
  ASSUME TypesInv, FlagsInv, Shaped, lock' \in [Locks -> Threads \cup {None}],
         NEW t \in Threads, AnyStep(t)
  PROVE  TypesInv'
<1> USE DEF TypesInv, ZedTypeOK, playVars, endVars
<1>1. CASE Calls(t)
  BY <1>1, TypesQuiet DEF Calls
<1>2. CASE NullCamera(t)
  BY <1>2 DEF NullCamera
<1>3. CASE Enable(t)
  <2>1. At(t, "enable") /\ Step(t).op = "enable"
    BY <1>3 DEF Enable, At
  <2>2. Arg(t) \in Modules
    BY <2>1, StepTyped DEF Typed, Arg
  <2>3. QED  BY <1>3, <2>2 DEF Enable, AfterRefusal
<1>4. CASE Started(t)
  BY <1>4 DEF Started
<1>5. CASE Disable(t)
  BY <1>5 DEF Disable
<1>6. CASE Halt(t)
  <2>1. running' \subseteq running /\ wanted' \subseteq wanted
    BY <1>6 DEF Halt
  <2>2. QED  BY <1>6, <2>1 DEF Halt
<1>7. CASE Stopped(t) \/ Unwanted(t)
  BY <1>7 DEF Stopped, Unwanted
<1>8. CASE StopThreads(t)
  BY <1>8 DEF StopThreads
<1>9. QED  BY <1>1, <1>2, <1>3, <1>4, <1>5, <1>6, <1>7, <1>8 DEF AnyStep

LEMMA TypesGrab ==
  ASSUME TypesInv, lock' \in [Locks -> Threads \cup {None}],
         Top \/ CountFailure \/ Kill \/ Begin \/ OneTop \/ End \/ WorkersEnd \/ Sense
  PROVE  TypesInv'
<1> USE DEF TypesInv, ZedTypeOK
<1>1. CASE Top
  BY <1>1 DEF Top
<1>2. CASE CountFailure
  <2>1. exited = "no" /\ failures \in 0..2
    BY <1>2 DEF CountFailure, At
  <2>2. failures' \in 0..3 /\ exited' \in {"no", "exit"} /\ (exited' = "no" => failures' # 3)
    BY <1>2, <2>1 DEF CountFailure
  <2>3. QED  BY <1>2, <2>2 DEF CountFailure, playVars
<1>3. CASE Kill
  BY <1>3 DEF Kill, playVars
<1>4. CASE Begin
  BY <1>4 DEF Begin, playVars
<1>5. CASE OneTop
  BY <1>5 DEF OneTop
<1>6. CASE End
  BY <1>6 DEF End, playVars
<1>7. CASE WorkersEnd
  BY <1>7 DEF WorkersEnd, playVars, control
<1>8. CASE Sense
  BY <1>8 DEF Sense, ReadSensors, control
<1>9. QED  BY <1>1, <1>2, <1>3, <1>4, <1>5, <1>6, <1>7, <1>8

LEMMA TypesService ==
  ASSUME TypesInv, FlagsInv, Shaped, lock' \in [Locks -> Threads \cup {None}],
         \/ Connect \/ Configure \/ Launch \/ EnableDepth \/ EnableDetector \/ EnableMapping
         \/ Record \/ PauseSvo \/ Replay \/ Open \/ OneReplay
  PROVE  TypesInv'
<1> USE DEF TypesInv, ZedTypeOK
<1> X \in Threads
  BY DEF Threads
<1>0. \A op : At(X, op) => Typed(Step(X)) /\ Step(X).op = op /\ exited = "no"
  BY StepTyped DEF At
<1>1. CASE Connect
  <2>1. exited = "no"
    BY <1>1 DEF Connect, At
  <2>2. QED  BY <1>1, <2>1 DEF Connect, playVars
<1>2. CASE Configure
  <2>1. exited = "no" /\ exited' \in {"no", "exit"}
    BY <1>2 DEF Configure, DefaultSettings, At
  <2>2. QED  BY <1>2, <2>1 DEF Configure, playVars
<1>3. CASE Launch
  BY <1>3 DEF Launch, playVars
<1>4. CASE EnableDepth
  <2>1. noDepth' \in BOOLEAN
    BY <1>4 DEF EnableDepth
  <2>2. QED  BY <1>4, <2>1 DEF EnableDepth, endVars
<1>5. CASE EnableDetector
  <2>1. At(X, "detect")
    BY <1>5 DEF EnableDetector
  <2>2. Arg(X) \in Modules
    BY <1>0, <2>1 DEF Typed, Arg, Modules
  <2>3. QED  BY <1>5, <2>2 DEF EnableDetector, playVars, endVars
<1>6. CASE EnableMapping
  <2>1. At(X, "mapping")
    BY <1>6 DEF EnableMapping
  <2>2. Arg(X) \in BOOLEAN
    BY <1>0, <2>1 DEF Typed, Arg
  <2>3. running' \subseteq Modules /\ wanted' \subseteq Modules /\ asked' \in BOOLEAN
    BY <1>6, <2>2 DEF EnableMapping, Modules
  <2>4. QED  BY <1>6, <2>3 DEF EnableMapping, playVars, endVars
<1>7. CASE Record
  <2>1. running' \subseteq Modules
    BY <1>7 DEF Record
  <2>2. QED  BY <1>7, <2>1 DEF Record, playVars, endVars
<1>8. CASE PauseSvo
  <2>1. paused' \in BOOLEAN
    BY <1>8 DEF PauseSvo
  <2>2. QED  BY <1>8, <2>1 DEF PauseSvo, endVars
<1>9. CASE Replay \/ OneReplay
  BY <1>9 DEF Replay, OneReplay, endVars
<1>10. CASE Open
  <2>1. exited = "no" /\ ended' \subseteq Workers \cup {G}
    BY <1>10 DEF Open, At, Workers
  <2>2. QED  BY <1>10, <2>1 DEF Open, OpenCamera, playVars
<1>11. QED  BY <1>1, <1>2, <1>3, <1>4, <1>5, <1>6, <1>7, <1>8, <1>9, <1>10

LEMMA TypesOther ==
  ASSUME TypesInv, lock' \in [Locks -> Threads \cup {None}],
         CloseCamera \/ ContextDown \/ Call \/ OneCall \/ Interrupt \/ OneInterrupt
  PROVE  TypesInv'
<1> USE DEF TypesInv, ZedTypeOK
<1>1. CASE CloseCamera
  BY <1>1 DEF CloseCamera, playVars
<1>2. CASE ContextDown
  BY <1>2 DEF ContextDown, playVars
<1>3. CASE Call \/ OneCall
  <2>1. MaxCalls \in Nat
    BY ZedControlAssumption DEF ZedControlAssumption
  <2>2. calls < MaxCalls /\ calls' \in {calls, calls + 1}
    BY <1>3, <2>1 DEF Call, OneCall
  <2>3. calls' \in 0..MaxCalls
    BY <2>1, <2>2
  <2>4. QED  BY <1>3, <2>3 DEF Call, OneCall, playVars, endVars
<1>4. CASE Interrupt \/ OneInterrupt
  <2>1. ok' \in BOOLEAN /\ deinit' \in BOOLEAN
    BY <1>4 DEF Interrupt, OneInterrupt, Interrupted, Hooked
  <2>2. QED  BY <1>4, <2>1 DEF Interrupt, OneInterrupt, Interrupted, playVars
<1>5. QED  BY <1>1, <1>2, <1>3, <1>4

LEMMA TypesNext ==
  TypesInv /\ FlagsInv /\ GrabInv /\ GrabInv' /\ [NodesNext]_nodeVars => TypesInv'
<1> SUFFICES ASSUME TypesInv, FlagsInv, GrabInv, GrabInv', [NodesNext]_nodeVars PROVE TypesInv'
  OBVIOUS
<1>1. Shaped /\ lock' \in [Locks -> Threads \cup {None}]
  BY DEF GrabInv
<1>2. G \in Threads /\ X \in Threads /\ S \in Threads
  BY DEF Threads
<1>3. CASE UNCHANGED nodeVars
  <2>1. UNCHANGED <<input, sdk, running, wanted, asked, playVars, failures, endVars, calls>>
    BY <1>3 DEF nodeVars, zedVars
  <2>2. QED  BY <1>1, <2>1, TypesQuiet
<1>4. ASSUME NEW t \in Threads, OneCalls(t) PROVE TypesInv'
  BY <1>1, <1>4, TypesQuiet DEF OneCalls
<1>5. CASE NodeGrabStep
  BY <1>1, <1>2, <1>4, <1>5, TypesAnyStep, TypesGrab DEF NodeGrabStep, Zed, One, GrabStep
<1>6. CASE NodeServiceStep
  BY <1>1, <1>2, <1>4, <1>6, TypesAnyStep, TypesService DEF NodeServiceStep, Zed, One, ServiceStep
<1>7. CASE NodeShutdownStep
  BY <1>1, <1>2, <1>4, <1>7, TypesAnyStep, TypesOther DEF NodeShutdownStep, Zed, One, ShutdownStep
<1>8. CASE NodeWorkersEnd \/ Zed(Sense) \/ One(Sense)
  BY <1>1, <1>8, TypesGrab DEF NodeWorkersEnd, SensorsEnd, Zed, One
<1>9. CASE Zed(Call) \/ One(OneCall) \/ Zed(Interrupt) \/ One(OneInterrupt)
  BY <1>1, <1>9, TypesOther DEF Zed, One
<1>10. QED  BY <1>3, <1>5, <1>6, <1>7, <1>8, <1>9 DEF NodesNext

\* The variables of the control have their types; the flags of the node say what
\* the SDK does whenever nobody holds the module's mutex, although three threads
\* start and stop the modules and any start may fail; and mapping that was asked
\* to stop does not run again: for the ZED and for the ZED One node.
THEOREM NodesFlagsMatchSdk == NodesFairSpec => []ZedInv
<1>1. NodesInit => GrabInv /\ CameraInv /\ FlagsInv /\ TypesInv
  BY GrabInit, CameraInit, FlagsInit, TypesInit
<1>2. GrabInv /\ CameraInv /\ FlagsInv /\ TypesInv /\ [NodesNext]_nodeVars
        => GrabInv' /\ CameraInv' /\ FlagsInv' /\ TypesInv'
  BY GrabNext, CameraNext, FlagsNext, TypesNext
<1>3. FlagsInv /\ TypesInv => ZedInv
  <2> SUFFICES ASSUME FlagsInv, TypesInv PROVE ZedInv
    OBVIOUS
  <2>1. FlagsMatchSdk
    BY DEF FlagsMatchSdk, FlagsInv, Flags, Same
  <2>2. MappingObeys
    BY FlagsAre DEF MappingObeys, FlagsInv, Same
  <2>3. QED  BY <2>1, <2>2 DEF ZedInv, TypesInv
<1>4. QED  BY <1>1, <1>2, <1>3, PTL DEF NodesFairSpec

=============================================================================
