-------------------------- MODULE H264SourceProofs --------------------------
(***************************************************************************)
(* H264Source for any number of viewers, transcoders and frames.           *)
(*                                                                         *)
(* The lock makes starting a transcoder exclusive, so the one that runs is *)
(* the published one and was started last (Lifecycle).  A transcoder that  *)
(* is withdrawn therefore leaves no older one that could still send: its   *)
(* end marker is the last thing its viewers get (EndsStay).                *)
(*                                                                         *)
(* Frames come from one transcoder at a time, and a client that is not     *)
(* waiting for a key frame has had the last one: what it is sent next goes *)
(* on from there (FedInv).                                                 *)
(***************************************************************************)
EXTENDS H264Source, SequenceTheorems, TLAPS

Serving == {"spawning", "first", "watching", "sending", "leaving"}

\* Exactly the viewers between attach and detach are registered.
Registered == \A v \in Viewers : v \in clients <=> viewer[v].at \in Serving

\* One viewer at a time starts a transcoder, and only when none is published.
Exclusive ==
    \A v \in Viewers : viewer[v].at = "spawning" =>
        proc = NoProc /\ \A u \in Viewers : viewer[u].at = "spawning" => u = v

\* The published transcoder is the last one started; its pump has not finished.
Published ==
    proc # NoProc =>
        proc = procs /\ pump[proc] \in {"reading", "ending"} /\ ffmpeg[proc] \in {"running", "dead"}

Pumps ==
    \A g \in Procs :
        /\ ffmpeg[g] = "running" => proc = g /\ pump[g] = "reading"
        /\ ffmpeg[g] = "dead" => pump[g] \in {"ending", "ended"}
        /\ ffmpeg[g] = "none" => pump[g] = "none"
        /\ g > procs => ffmpeg[g] = "none"

Lifecycle == Registered /\ Exclusive /\ Published /\ Pumps

HasEnd(v) == \E i \in DOMAIN backlog[v] : backlog[v][i] = End

\* A viewer of a withdrawn source has the end marker, and no pump can send after it.
EndsStay ==
    \A v \in Watchers : proc = NoProc =>
        HasEnd(v) /\ \A g \in Procs : pump[g] = "reading" => PipeDrained(g)

LEMMA Constants == MaxProcs \in Nat /\ MaxFrames \in Nat /\ QueueLength \in Nat \ {0}
  BY SourceAssumption

LEMMA EndIsNoFrame == End \notin Frames /\ End \in Items /\ NoProc \notin Procs
  BY Constants DEF End, Frames, NoProc, Procs, Items

-----------------------------------------------------------------------------
(* Types.                                                                  *)

LEMMA PostTypes ==
  /\ Away \in Posts
  /\ At("attaching") \in Posts /\ At("spawning") \in Posts /\ At("first") \in Posts
  /\ At("watching") \in Posts /\ At("sending") \in Posts /\ At("leaving") \in Posts
  /\ \A g \in Procs : [at |-> "reaping", reaps |-> g] \in Posts
  BY DEF Posts, Away, At, ViewerPlaces

LEMMA InitTypes == SourceInit => SourceTypeOK
<1> SUFFICES ASSUME SourceInit PROVE SourceTypeOK
  OBVIOUS
<1>1. procs \in 0 .. MaxProcs /\ emitted \in [Procs -> 0 .. MaxFrames]
  BY Constants DEF SourceInit
<1>2. viewer \in [Viewers -> Posts]
  BY PostTypes DEF SourceInit
<1>3. backlog \in [Viewers -> Seq(Items)] /\ \A v \in Viewers : Len(backlog[v]) <= QueueLength
  BY Constants DEF SourceInit
<1> QED
  BY <1>1, <1>2, <1>3 DEF SourceInit, SourceTypeOK

\* A client as it is made has an empty queue.
LEMMA NewClientTypes ==
  ASSUME SourceTypeOK, NEW v \in Viewers, NEW w \in BOOLEAN, NewClient(v, w)
  PROVE  /\ backlog' \in [Viewers -> Seq(Items)]
         /\ \A u \in Viewers : Len(backlog'[u]) <= QueueLength
         /\ waitIdr' \in [Viewers -> BOOLEAN]
         /\ shown' \in [Viewers -> Frames \cup {NoFrame}]
  BY Constants DEF SourceTypeOK, NewClient, Items

\* _fan keeps every queue within its limit.
LEMMA FanTypes ==
  ASSUME SourceTypeOK, NEW f \in Frames, Fan(f)
  PROVE  /\ backlog' \in [Viewers -> Seq(Items)]
         /\ \A u \in Viewers : Len(backlog'[u]) <= QueueLength
         /\ waitIdr' \in [Viewers -> BOOLEAN]
<1> DEFINE listens == {v \in clients : ~waitIdr[v] \/ IsKey(f)}
           full == {v \in listens : Len(backlog[v]) = QueueLength}
<1>1. ASSUME NEW v \in Viewers
      PROVE  backlog'[v] \in Seq(Items) /\ Len(backlog'[v]) <= QueueLength
  <2>1. backlog[v] \in Seq(Items) /\ Len(backlog[v]) \in Nat /\ Len(backlog[v]) <= QueueLength
    BY DEF SourceTypeOK, Items
  <2>2. backlog'[v] = IF v \in full THEN <<>>
                      ELSE IF v \in listens THEN Append(backlog[v], f) ELSE backlog[v]
    BY DEF Fan
  <2>3. CASE v \in full
    BY <2>2, <2>3, Constants
  <2>4. CASE v \in listens /\ v \notin full
    <3>1. Len(backlog[v]) # QueueLength
      BY <2>4
    <3>2. backlog'[v] = Append(backlog[v], f) /\ f \in Items
      BY <2>2, <2>4 DEF Items
    <3> HIDE DEF listens, full
    <3> QED
      BY <2>1, <3>1, <3>2, Constants
  <2>5. CASE v \notin listens
    BY <2>1, <2>2, <2>5
  <2> QED
    BY <2>3, <2>4, <2>5
<1>2. waitIdr' \in [Viewers -> BOOLEAN]
  BY DEF Fan, SourceTypeOK
<1>3. backlog' = [v \in Viewers |-> backlog'[v]]
  BY DEF Fan
<1> QED
  BY <1>1, <1>2, <1>3

LEMMA TypeStep ==
  ASSUME SourceTypeOK, [SourceNext]_sourceVars
  PROVE  SourceTypeOK'
<1> USE Constants, EndIsNoFrame, PostTypes DEF SourceTypeOK, processes, streams
<1>1. ASSUME NEW v \in Viewers, ViewerStep(v) PROVE SourceTypeOK'
  <2>1. CASE Connect(v)  BY <2>1 DEF Connect
  <2>2. CASE Attach(v)  BY <2>2, NewClientTypes DEF Attach, Items
  <2>3. CASE Spawned(v)
    <3>1. procs' \in Procs /\ procs' \in 0 .. MaxProcs
      BY <2>3 DEF Spawned, Procs
    <3> QED
      BY <2>3, <3>1 DEF Spawned
  <2>4. CASE SpawnFails(v)  BY <2>4, NewClientTypes DEF SpawnFails, Items
  <2>5. CASE AttachTimesOut(v)  BY <2>5 DEF AttachTimesOut
  <2>6. CASE Take(v)
    <3>1. backlog[v] \in Seq(Items) /\ backlog[v] # <<>> /\ Len(backlog[v]) <= QueueLength
      BY <2>6 DEF Take, Items
    <3>2. Head(backlog[v]) \in Items /\ Tail(backlog[v]) \in Seq(Items)
          /\ Len(Tail(backlog[v])) <= QueueLength
      BY <3>1, HeadTailProperties
    <3>3. viewer' \in [Viewers -> Posts]
      BY <2>6 DEF Take
    <3>4. shown' \in [Viewers -> Frames \cup {NoFrame}]
      <4>1. CASE Head(backlog[v]) = End  BY <2>6, <4>1 DEF Take
      <4>2. CASE Head(backlog[v]) # End
        <5>1. Head(backlog[v]) \in Frames
          BY <3>2, <4>2 DEF Items
        <5> QED
          BY <2>6, <4>2, <5>1 DEF Take
      <4> QED
        BY <4>1, <4>2
    <3> QED
      BY <2>6, <3>2, <3>3, <3>4 DEF Take, Items
  <2>7. CASE Send(v)  BY <2>7 DEF Send
  <2>8. CASE NoFirstFrame(v)  BY <2>8 DEF NoFirstFrame
  <2>9. CASE Detach(v)
    <3>0. proc \in Procs => [at |-> "reaping", reaps |-> proc] \in Posts
      OBVIOUS
    <3>1. clients' \subseteq Viewers /\ NewClient(v, TRUE)
      BY <2>9 DEF Detach
    <3>2. /\ proc' \in Procs \cup {NoProc}
          /\ ffmpeg' \in [Procs -> {"none", "running", "killed", "dead"}]
          /\ viewer' \in [Viewers -> Posts]
      <4>1. CASE LastLeaves(v)
        <5>1. proc \in Procs
          BY <4>1 DEF LastLeaves
        <5>2. viewer' = [viewer EXCEPT ![v] = [at |-> "reaping", reaps |-> proc]]
          BY <2>9, <4>1 DEF Detach
        <5>3. viewer' \in [Viewers -> Posts]
          BY <3>0, <5>1, <5>2
        <5>4. proc' = NoProc /\ ffmpeg' \in [Procs -> {"none", "running", "killed", "dead"}]
          BY <2>9, <4>1, <5>1 DEF Detach
        <5> QED
          BY <5>3, <5>4
      <4>2. CASE ~LastLeaves(v)  BY <2>9, <4>2 DEF Detach
      <4> QED
        BY <4>1, <4>2
    <3> QED
      BY <2>9, <3>1, <3>2, NewClientTypes DEF Detach, Items
  <2>10. CASE Reaped(v)  BY <2>10 DEF Reaped
  <2>11. CASE ReapTimesOut(v)  BY <2>11 DEF ReapTimesOut
  <2> QED
    BY <1>1, <2>1, <2>2, <2>3, <2>4, <2>5, <2>6, <2>7, <2>8, <2>9, <2>10, <2>11 DEF ViewerStep
<1>2. ASSUME NEW g \in Procs, PumpStep(g) PROVE SourceTypeOK'
  <2>1. CASE Read(g)
    <3>1. [of |-> g, n |-> emitted'[g]] \in Frames /\ emitted' \in [Procs -> 0 .. MaxFrames]
      BY <2>1 DEF Read, Frames
    <3> QED
      BY <2>1, <3>1, FanTypes DEF Read, Items
  <2>2. CASE FfmpegEnds(g)  BY <2>2 DEF FfmpegEnds
  <2>3. CASE PumpEnds(g)  BY <2>3 DEF PumpEnds
  <2>4. CASE PumpFinishes(g)
    <3> DEFINE marker == <<End>>
    <3>1. marker \in Seq(Items) /\ Len(marker) = 1
      OBVIOUS
    <3>2. backlog' = [v \in Viewers |-> IF v \in clients THEN marker ELSE backlog[v]]
      BY <2>4 DEF PumpFinishes
    <3> HIDE DEF marker
    <3>0. 1 <= QueueLength
      OBVIOUS
    <3>a. ASSUME NEW v \in Viewers
          PROVE  backlog'[v] \in Seq(Items) /\ Len(backlog'[v]) <= QueueLength
      <4>1. CASE v \in clients  BY <3>0, <3>1, <3>2, <4>1
      <4>2. CASE v \notin clients
        <5>1. backlog'[v] = backlog[v]
          BY <3>2, <4>2
        <5> QED
          BY <5>1
      <4> QED
        BY <4>1, <4>2
    <3>3. backlog' \in [Viewers -> Seq(Items)] /\ \A v \in Viewers : Len(backlog'[v]) <= QueueLength
      BY <3>2, <3>a
    <3>4. /\ pump' \in [Procs -> {"none", "reading", "ending", "ended"}]
          /\ proc' \in Procs \cup {NoProc}
      BY <2>4 DEF PumpFinishes
    <3> QED
      BY <2>4, <3>3, <3>4 DEF PumpFinishes
  <2> QED
    BY <1>2, <2>1, <2>2, <2>3, <2>4 DEF PumpStep
<1>3. CASE UNCHANGED sourceVars
  BY <1>3 DEF sourceVars
<1> QED
  BY <1>1, <1>2, <1>3 DEF SourceNext

\* The transcoder, its viewers and their queues keep their types; no queue grows past its
\* limit.
THEOREM SourceTypes == SourceSpec => []SourceTypeOK
<1>1. SourceInit => SourceTypeOK
  BY InitTypes
<1>2. SourceTypeOK /\ [SourceNext]_sourceVars => SourceTypeOK'
  BY TypeStep
<1> QED
  BY <1>1, <1>2, PTL DEF SourceSpec

-----------------------------------------------------------------------------
(* One transcoder at a time.                                               *)

LEMMA PlaceOf ==
  /\ Away.at = "away"
  /\ At("attaching").at = "attaching" /\ At("spawning").at = "spawning"
  /\ At("first").at = "first" /\ At("watching").at = "watching"
  /\ At("sending").at = "sending" /\ At("leaving").at = "leaving"
  BY DEF Away, At

\* Where the viewers are after a step of one of them.
LEMMA Moves ==
  ASSUME SourceTypeOK, NEW v \in Viewers, NEW post, viewer' = [viewer EXCEPT ![v] = post]
  PROVE  viewer'[v] = post /\ \A u \in Viewers : u # v => viewer'[u] = viewer[u]
  BY DEF SourceTypeOK

LEMMA InitLifecycle == SourceInit => Lifecycle /\ NoOrphan /\ EndsStay
<1> SUFFICES ASSUME SourceInit PROVE Lifecycle /\ NoOrphan /\ EndsStay
  OBVIOUS
<1>1. \A v \in Viewers : viewer[v].at = "away"
  BY PlaceOf DEF SourceInit
<1>2. \A g \in Procs : ffmpeg[g] = "none" /\ pump[g] = "none"
  BY DEF SourceInit
<1>3. clients = {} /\ proc = NoProc
  BY DEF SourceInit
<1> QED
  BY <1>1, <1>2, <1>3
  DEF Lifecycle, Registered, Exclusive, Published, Pumps, NoOrphan, EndsStay, Serving, Watchers

LEMMA LifecycleStep ==
  ASSUME SourceTypeOK, Lifecycle, NoOrphan, [SourceNext]_sourceVars
  PROVE  Lifecycle' /\ NoOrphan'
<1> USE Constants, EndIsNoFrame, PlaceOf
    DEF Lifecycle, Registered, Exclusive, Published, Pumps, NoOrphan, Serving, processes, streams
<1>0. /\ proc \in Procs \cup {NoProc} /\ procs \in Nat /\ clients \subseteq Viewers
      /\ ffmpeg \in [Procs -> {"none", "running", "killed", "dead"}]
      /\ pump \in [Procs -> {"none", "reading", "ending", "ended"}]
  BY DEF SourceTypeOK
<1>1. ASSUME NEW v \in Viewers, ViewerStep(v) PROVE Lifecycle' /\ NoOrphan'
  <2>1. CASE Connect(v)
    BY <1>0, <2>1, Moves DEF Connect
  <2>2. CASE Attach(v)
    <3>1. /\ clients' = clients \cup {v} /\ ghost' = ghost
          /\ proc' = proc /\ procs' = procs /\ ffmpeg' = ffmpeg /\ pump' = pump
      BY <2>2 DEF Attach
    <3>2. \A u \in Viewers : u # v => viewer'[u] = viewer[u] /\ viewer[u].at # "spawning"
      BY <2>2, Moves DEF Attach, Locked
    <3>3. CASE proc = NoProc
      <4>1. viewer'[v] = At("spawning")
        BY <2>2, <3>3, Moves DEF Attach
      <4> QED
        BY <1>0, <3>1, <3>2, <3>3, <4>1
    <3>4. CASE proc # NoProc
      <4>1. viewer'[v] = At("first")
        BY <2>2, <3>4, Moves DEF Attach
      <4> QED
        BY <1>0, <3>1, <3>2, <3>4, <4>1
    <3> QED
      BY <3>3, <3>4
  <2>3. CASE Spawned(v)
    <3>1. /\ procs' = procs + 1 /\ proc' = procs' /\ procs' \in Procs /\ procs' # NoProc
          /\ clients' = clients /\ ghost' = ghost
      BY <1>0, <2>3 DEF Spawned, Procs, NoProc
    <3>2. viewer'[v] = At("first") /\ \A u \in Viewers : u # v => viewer'[u] = viewer[u]
      BY <2>3, Moves DEF Spawned
    <3>3. /\ ffmpeg'[procs'] = "running" /\ pump'[procs'] = "reading"
          /\ \A g \in Procs : g # procs' => ffmpeg'[g] = ffmpeg[g] /\ pump'[g] = pump[g]
      BY <1>0, <2>3, <3>1 DEF Spawned
    <3>4. proc = NoProc /\ v \in clients /\ \A u \in Viewers : viewer[u].at = "spawning" => u = v
      BY <2>3 DEF Spawned
    <3>5. Registered' /\ Exclusive'
      BY <3>1, <3>2, <3>4
    <3>6. \A g \in Procs : ffmpeg[g] # "running"
      BY <3>4
    <3>7. Published' /\ Pumps' /\ NoOrphan'
      BY <1>0, <3>1, <3>3, <3>4, <3>6 DEF Procs
    <3> QED
      BY <3>5, <3>7
  <2>4. CASE SpawnFails(v)
    <3>1. /\ viewer'[v].at = "away" /\ viewer[v].at = "spawning"
          /\ \A u \in Viewers : u # v => viewer'[u] = viewer[u]
      BY <2>4, Moves DEF SpawnFails
    <3>2. clients' = clients \ {v} /\ ghost' = TRUE /\ UNCHANGED processes
      BY <2>4 DEF SpawnFails
    <3> QED
      BY <1>0, <3>1, <3>2
  <2>5. CASE AttachTimesOut(v)
    BY <1>0, <2>5, Moves DEF AttachTimesOut
  <2>6. CASE Take(v)
    <3>1. /\ viewer'[v].at \in {"leaving", "sending"} /\ viewer[v].at \in {"first", "watching"}
          /\ \A u \in Viewers : u # v => viewer'[u] = viewer[u]
      <4>1. CASE Head(backlog[v]) = End
        <5>1. viewer' = [viewer EXCEPT ![v] = At("leaving")]
          BY <2>6, <4>1 DEF Take
        <5> QED
          BY <2>6, <5>1, Moves DEF Take
      <4>2. CASE Head(backlog[v]) # End
        <5>1. viewer' = [viewer EXCEPT ![v] = At("sending")]
          BY <2>6, <4>2 DEF Take
        <5> QED
          BY <2>6, <5>1, Moves DEF Take
      <4> QED
        BY <4>1, <4>2
    <3>2. UNCHANGED <<clients, ghost, processes>>
      BY <2>6 DEF Take
    <3> QED
      BY <1>0, <3>1, <3>2
  <2>7. CASE Send(v)
    <3>1. PICK place \in {"watching", "leaving"} : viewer' = [viewer EXCEPT ![v] = At(place)]
      BY <2>7 DEF Send
    <3>2. /\ viewer'[v].at \in {"watching", "leaving"}
          /\ \A u \in Viewers : u # v => viewer'[u] = viewer[u]
      <4>1. CASE place = "watching"
        <5>1. viewer' = [viewer EXCEPT ![v] = At("watching")]
          BY <3>1, <4>1
        <5>2. viewer'[v] = At("watching") /\ \A u \in Viewers : u # v => viewer'[u] = viewer[u]
          BY <5>1, Moves
        <5> QED
          BY <5>2
      <4>2. CASE place = "leaving"
        <5>1. viewer' = [viewer EXCEPT ![v] = At("leaving")]
          BY <3>1, <4>2
        <5>2. viewer'[v] = At("leaving") /\ \A u \in Viewers : u # v => viewer'[u] = viewer[u]
          BY <5>1, Moves
        <5> QED
          BY <5>2
      <4> QED
        BY <3>1, <4>1, <4>2
    <3>3. viewer[v].at = "sending" /\ UNCHANGED <<clients, ghost, processes>>
      BY <2>7 DEF Send
    <3> QED
      BY <1>0, <3>2, <3>3
  <2>8. CASE NoFirstFrame(v)
    BY <1>0, <2>8, Moves DEF NoFirstFrame
  <2>9. CASE Detach(v)
    <3>1. viewer'[v].at \notin Serving /\ \A u \in Viewers : u # v => viewer'[u] = viewer[u]
      <4>1. CASE LastLeaves(v)
        <5>1. viewer' = [viewer EXCEPT ![v] = [at |-> "reaping", reaps |-> proc]]
          BY <2>9, <4>1 DEF Detach
        <5>2. viewer'[v] = [at |-> "reaping", reaps |-> proc]
              /\ \A u \in Viewers : u # v => viewer'[u] = viewer[u]
          BY <5>1, Moves
        <5> QED
          BY <5>2
      <4>2. CASE ~LastLeaves(v)  BY <2>9, <4>2, Moves DEF Detach
      <4> QED
        BY <4>1, <4>2
    <3>2. /\ clients' = clients \ {v} /\ ghost' = ghost /\ procs' = procs /\ pump' = pump
      BY <2>9 DEF Detach
    <3>3. Registered'
      BY <1>0, <3>1, <3>2
    <3>4. CASE LastLeaves(v)
      <4>1. /\ proc' = NoProc /\ proc \in Procs
            /\ ffmpeg' = [ffmpeg EXCEPT ![proc] = IF ffmpeg[proc] = "running" THEN "killed"
                                                  ELSE ffmpeg[proc]]
        BY <1>0, <2>9, <3>4 DEF Detach, LastLeaves
      <4>2. \A g \in Procs : ffmpeg'[g] # "running" /\ (ffmpeg[g] # "running" => ffmpeg'[g] = ffmpeg[g])
        BY <1>0, <4>1
      <4>3. \A g \in Procs : ffmpeg'[g] \in {"none", "dead"} => ffmpeg'[g] = ffmpeg[g]
        BY <1>0, <4>1, <4>2
      <4>4. \A g \in Procs : ffmpeg[g] = "none" => ffmpeg'[g] = "none"
        BY <4>2
      <4>5. Exclusive' /\ Published'
        BY <3>1, <4>1
      <4>6. Pumps' /\ NoOrphan'
        BY <3>2, <4>2, <4>3, <4>4
      <4> QED
        BY <3>3, <4>5, <4>6
    <3>5. CASE ~LastLeaves(v)
      BY <1>0, <2>9, <3>1, <3>2, <3>3, <3>5 DEF Detach, LastLeaves
    <3> QED
      BY <3>4, <3>5
  <2>10. CASE Reaped(v)
    BY <1>0, <2>10, Moves DEF Reaped
  <2>11. CASE ReapTimesOut(v)
    BY <1>0, <2>11, Moves DEF ReapTimesOut
  <2> QED
    BY <1>1, <2>1, <2>2, <2>3, <2>4, <2>5, <2>6, <2>7, <2>8, <2>9, <2>10, <2>11 DEF ViewerStep
<1>2. ASSUME NEW g \in Procs, PumpStep(g) PROVE Lifecycle' /\ NoOrphan'
  <2>1. CASE Read(g)
    BY <2>1 DEF Read
  <2>2. CASE FfmpegEnds(g)
    BY <1>0, <2>2 DEF FfmpegEnds
  <2>3. CASE PumpEnds(g)
    BY <1>0, <2>3 DEF PumpEnds
  <2>4. CASE PumpFinishes(g)
    BY <1>0, <2>4 DEF PumpFinishes
  <2> QED
    BY <1>2, <2>1, <2>2, <2>3, <2>4 DEF PumpStep
<1>3. CASE UNCHANGED sourceVars
  BY <1>3 DEF sourceVars
<1> QED
  BY <1>1, <1>2, <1>3 DEF SourceNext

-----------------------------------------------------------------------------
(* Nobody is left behind.                                                  *)

\* What a step may do to a viewer who waits without a source: nothing.
LEMMA StaysIf ==
  ASSUME EndsStay,
         \A v \in Watchers' : proc' = NoProc =>
             v \in Watchers /\ proc = NoProc /\ (HasEnd(v) => HasEnd(v)'),
         \A g \in Procs : pump'[g] = "reading" =>
             pump[g] = "reading" /\ (PipeDrained(g) => PipeDrained(g)')
  PROVE  EndsStay'
  BY DEF EndsStay

LEMMA TailKeepsEnd ==
  ASSUME SourceTypeOK, NEW v \in Viewers, backlog[v] # <<>>, Head(backlog[v]) # End, HasEnd(v),
         backlog' = [backlog EXCEPT ![v] = Tail(@)]
  PROVE  HasEnd(v)'
<1>1. backlog[v] \in Seq(Items) /\ backlog'[v] = Tail(backlog[v])
  BY DEF SourceTypeOK
<1>2. PICK i \in 1 .. Len(backlog[v]) : backlog[v][i] = End
  BY <1>1 DEF HasEnd
<1>3. Head(backlog[v]) = backlog[v][1]
  BY <1>1
<1>4. i # 1 /\ Len(Tail(backlog[v])) = Len(backlog[v]) - 1
  BY <1>1, <1>2, <1>3
<1>5. i - 1 \in 1 .. Len(Tail(backlog[v])) /\ Tail(backlog[v])[i - 1] = End
  BY <1>1, <1>2, <1>4
<1>6. DOMAIN backlog'[v] = 1 .. Len(backlog'[v])
  BY <1>1
<1> QED
  BY <1>1, <1>5, <1>6 DEF HasEnd

\* The end marker replaces whatever the queue of a client held.
LEMMA MarkerIsEnd ==
  ASSUME NEW v \in Viewers, backlog'[v] = <<End>>
  PROVE  HasEnd(v)'
  BY DEF HasEnd

\* A frame that is read shows the older pipes drained for good.
LEMMA ReadKeepsDrained ==
  ASSUME SourceTypeOK, NEW g \in Procs, Read(g), NEW h \in Procs, PipeDrained(h)
  PROVE  PipeDrained(h)'
<1>1. \A k \in Procs : emitted[k] \in Nat /\ (emitted[k] > 0 => emitted'[k] > 0)
  BY Constants DEF SourceTypeOK, Read
<1> QED
  BY <1>1 DEF PipeDrained, Read

LEMMA EndsStayStep ==
  ASSUME SourceTypeOK, Lifecycle, Lifecycle', EndsStay, [SourceNext]_sourceVars
  PROVE  EndsStay'
<1> USE Constants, EndIsNoFrame, PlaceOf DEF processes, streams
<1>0. /\ proc \in Procs \cup {NoProc} /\ procs \in Nat /\ clients \subseteq Viewers
      /\ ffmpeg \in [Procs -> {"none", "running", "killed", "dead"}]
      /\ pump \in [Procs -> {"none", "reading", "ending", "ended"}]
      /\ backlog \in [Viewers -> Seq(Items)]
  BY DEF SourceTypeOK
<1>1. ASSUME NEW v \in Viewers, ViewerStep(v) PROVE EndsStay'
  <2>1. ASSUME UNCHANGED <<proc, ffmpeg, pump, emitted>>,
               viewer'[v].at \notin {"first", "watching", "sending"},
               \A u \in Viewers : u # v => viewer'[u] = viewer[u] /\ backlog'[u] = backlog[u]
        PROVE  EndsStay'
    <3>1. \A u \in Watchers' : u \in Watchers /\ backlog'[u] = backlog[u]
      BY <2>1 DEF Watchers
    <3> QED
      BY <2>1, <3>1, StaysIf DEF HasEnd, PipeDrained
  <2>2. ASSUME NewClient(v, TRUE) PROVE \A u \in Viewers : u # v => backlog'[u] = backlog[u]
    BY <1>0, <2>2 DEF NewClient
  <2>3. CASE Connect(v)
    BY <2>1, <2>3, Moves DEF Connect
  <2>4. CASE Attach(v)
    <3>1. CASE proc = NoProc
      <4>1. viewer' = [viewer EXCEPT ![v] = At("spawning")]
        BY <2>4, <3>1 DEF Attach
      <4> QED
        BY <2>1, <2>2, <2>4, <4>1, Moves DEF Attach
    <3>2. CASE proc # NoProc
      BY <2>4, <3>2 DEF Attach, EndsStay
    <3> QED
      BY <3>1, <3>2
  <2>5. CASE Spawned(v)
    BY <1>0, <2>5 DEF Spawned, EndsStay, NoProc
  <2>6. CASE SpawnFails(v)
    BY <2>1, <2>2, <2>6, Moves DEF SpawnFails
  <2>7. CASE AttachTimesOut(v)
    BY <2>1, <2>7, Moves DEF AttachTimesOut
  <2>8. CASE Take(v)
    <3>1. CASE Head(backlog[v]) = End
      <4>1. viewer' = [viewer EXCEPT ![v] = At("leaving")]
        BY <2>8, <3>1 DEF Take
      <4> QED
        BY <1>0, <2>1, <2>8, <4>1, Moves DEF Take
    <3>2. CASE Head(backlog[v]) # End
      <4>1. viewer' = [viewer EXCEPT ![v] = At("sending")]
        BY <2>8, <3>2 DEF Take
      <4>2. Watchers' \subseteq Watchers
        BY <2>8, <4>1, Moves DEF Watchers, Take
      <4>3. \A u \in Watchers' : HasEnd(u) => HasEnd(u)'
        <5>1. HasEnd(v) => HasEnd(v)'
          BY <2>8, <3>2, TailKeepsEnd DEF Take
        <5>2. \A u \in Viewers : u # v => backlog'[u] = backlog[u]
          BY <1>0, <2>8 DEF Take
        <5> QED
          BY <5>1, <5>2 DEF HasEnd, Watchers
      <4> QED
        BY <2>8, <4>2, <4>3, StaysIf DEF Take, PipeDrained
    <3> QED
      BY <3>1, <3>2
  <2>9. CASE Send(v)
    <3>1. PICK place \in {"watching", "leaving"} : viewer' = [viewer EXCEPT ![v] = At(place)]
      BY <2>9 DEF Send
    <3>2. Watchers' \subseteq Watchers
      BY <2>9, <3>1, Moves DEF Watchers, Send
    <3> QED
      BY <2>9, <3>2, StaysIf DEF Send, PipeDrained, HasEnd
  <2>10. CASE NoFirstFrame(v)
    BY <2>1, <2>10, Moves DEF NoFirstFrame
  <2>11. CASE Detach(v)
    <3>1. CASE LastLeaves(v)
      <4>1. clients' = {}
        BY <2>11, <3>1 DEF Detach, LastLeaves
      <4>2. Watchers' = {}
        BY <4>1 DEF Watchers, Lifecycle, Registered, Serving
      <4> QED
        BY <4>2 DEF EndsStay
    <3>2. CASE ~LastLeaves(v)
      BY <2>1, <2>2, <2>11, <3>2, Moves DEF Detach
    <3> QED
      BY <3>1, <3>2
  <2>12. CASE Reaped(v)
    BY <2>1, <2>12, Moves DEF Reaped
  <2>13. CASE ReapTimesOut(v)
    BY <2>1, <2>13, Moves DEF ReapTimesOut
  <2> QED
    BY <1>1, <2>3, <2>4, <2>5, <2>6, <2>7, <2>8, <2>9, <2>10, <2>11, <2>12, <2>13 DEF ViewerStep
<1>2. ASSUME NEW g \in Procs, PumpStep(g) PROVE EndsStay'
  <2>1. CASE Read(g)
    <3>1. Watchers' = Watchers /\ proc' = proc /\ pump' = pump
      BY <2>1 DEF Read, Watchers
    <3>2. proc = NoProc => Watchers = {}
      BY <2>1 DEF Read, EndsStay
    <3>3. \A h \in Procs : PipeDrained(h) => PipeDrained(h)'
      BY <2>1, ReadKeepsDrained
    <3> QED
      BY <3>1, <3>2, <3>3, StaysIf
  <2>2. CASE FfmpegEnds(g)
    <3>1. proc' # NoProc
      BY <2>2 DEF FfmpegEnds, Lifecycle, Pumps
    <3> QED
      BY <3>1 DEF EndsStay
  <2>3. CASE PumpEnds(g)
    BY <1>0, <2>3, StaysIf DEF PumpEnds, PipeDrained, Watchers, HasEnd
  <2>4. CASE PumpFinishes(g)
    <3>1. \A v \in Watchers' : v \in Watchers /\ HasEnd(v)'
      <4>1. ASSUME NEW v \in Watchers' PROVE v \in Watchers /\ HasEnd(v)'
        <5>1. v \in Watchers /\ v \in Viewers /\ v \in clients
          BY <2>4 DEF PumpFinishes, Watchers, Lifecycle, Registered, Serving
        <5>2. backlog'[v] = <<End>>
          BY <2>4, <5>1 DEF PumpFinishes
        <5> QED
          BY <5>1, <5>2, MarkerIsEnd
      <4> QED
        BY <4>1
    <3>2. /\ ffmpeg' = ffmpeg /\ emitted' = emitted /\ pump[g] = "ending"
          /\ \A h \in Procs : pump'[h] = "reading" => pump[h] = "reading" /\ h # g
          /\ proc # g => proc' = proc
      BY <1>0, <2>4 DEF PumpFinishes
    <3>3. CASE proc = g
      <4>1. ffmpeg[g] = "dead" /\ g = procs
        BY <1>0, <3>2, <3>3 DEF Lifecycle, Published, Pumps
      <4>2. ASSUME NEW h \in Procs, pump'[h] = "reading" PROVE PipeDrained(h)'
        <5>1. pump[h] = "reading" /\ h # g
          BY <3>2, <4>2
        <5>2. ffmpeg[h] = "killed" /\ ~(h > procs)
          BY <1>0, <3>3, <5>1 DEF Lifecycle, Pumps
        <5>3. g > h
          BY <1>0, <4>1, <5>1, <5>2 DEF Procs
        <5> QED
          BY <3>2, <4>1, <5>2, <5>3 DEF PipeDrained
      <4> QED
        BY <3>1, <4>2 DEF EndsStay
    <3>4. CASE proc # g
      BY <3>1, <3>2, <3>4, StaysIf DEF PipeDrained
    <3> QED
      BY <3>3, <3>4
  <2> QED
    BY <1>2, <2>1, <2>2, <2>3, <2>4 DEF PumpStep
<1>3. CASE UNCHANGED sourceVars
  BY <1>3 DEF sourceVars, EndsStay, HasEnd, PipeDrained, Watchers
<1> QED
  BY <1>1, <1>2, <1>3 DEF SourceNext

LEMMA Invariants == SourceSpec => [](SourceTypeOK /\ Lifecycle /\ NoOrphan /\ EndsStay)
<1> DEFINE IInv == SourceTypeOK /\ Lifecycle /\ NoOrphan /\ EndsStay
<1>1. SourceInit => IInv
  BY InitTypes, InitLifecycle
<1>2. IInv /\ [SourceNext]_sourceVars => IInv'
  BY TypeStep, LifecycleStep, EndsStayStep
<1> QED
  BY <1>1, <1>2, PTL DEF SourceSpec

\* A running ffmpeg is the published one and somebody is registered to watch it, for any
\* number of viewers who attach and leave in any order.
THEOREM NoOrphans == SourceSpec => []NoOrphan
  BY Invariants, PTL

\* A viewer that waits for a frame has a source that will yet end it, or its end marker.
THEOREM NobodyIsLeft == SourceSpec => []NobodyLeftBehind
<1>1. Lifecycle /\ EndsStay => NobodyLeftBehind
  BY DEF Lifecycle, Published, EndsStay, HasEnd, NobodyLeftBehind
<1> QED
  BY <1>1, Invariants, PTL

-----------------------------------------------------------------------------
(* What a decoder is fed.                                                  *)

Reading(g) == pump[g] = "reading" /\ ~PipeDrained(g)

\* A transcoder that was never started has read nothing; once a newer one has a frame, the
\* older pipes are drained.
OneReads ==
    /\ \A g \in Procs : ffmpeg[g] = "none" => emitted[g] = 0
    /\ \A g, h \in Procs : Reading(g) /\ g < h => emitted[h] = 0

Fed == {v \in Viewers : viewer[v].at \in Serving \ {"leaving"}}

\* Queue q can follow frame s, up to the end marker.
GoesOn(s, q) ==
    \A i \in DOMAIN q : (\A j \in 1 .. i : q[j] # End) => Follows(IF i = 1 THEN s ELSE q[i - 1], q[i])

LastOf(s, q) == IF q = <<>> THEN s ELSE q[Len(q)]

InOrder == \A v \in Fed : GoesOn(shown[v], backlog[v])

\* A client that does not wait for a key frame had the last frame of whatever may send next.
InStep(v) ==
    waitIdr[v] \/ HasEnd(v) \/
    \A g \in Procs : Reading(g) =>
        emitted[g] = 0 \/ LastOf(shown[v], backlog[v]) = [of |-> g, n |-> emitted[g]]

FedInv == OneReads /\ InOrder /\ \A v \in Fed : InStep(v)

\* The first frame of a transcoder is a key frame.
LEMMA FirstIsKey == ASSUME NEW f, f.n = 1 PROVE IsKey(f)
<1>1. Gop \in Nat /\ Gop > 0
  BY SourceAssumption
<1>2. CASE Gop = 1
  BY <1>2 DEF IsKey
<1>3. CASE Gop > 1
  <2>1. 1 % Gop = 1
    BY <1>1, <1>3
  <2> QED
    BY <2>1 DEF IsKey
<1> QED
  BY <1>1, <1>2, <1>3

\* A queue may be lengthened by a frame that follows its last one, or by any after the end
\* marker.
LEMMA AppendGoesOn ==
  ASSUME NEW s, NEW q \in Seq(Items), NEW f \in Items, GoesOn(s, q),
         (\A j \in DOMAIN q : q[j] # End) => Follows(LastOf(s, q), f)
  PROVE  GoesOn(s, Append(q, f)) /\ LastOf(s, Append(q, f)) = f
<1> DEFINE r == Append(q, f)
<1>1. /\ r \in Seq(Items) /\ Len(r) = Len(q) + 1 /\ r[Len(q) + 1] = f
      /\ \A i \in 1 .. Len(q) : r[i] = q[i]
      /\ DOMAIN r = 1 .. Len(q) + 1 /\ DOMAIN q = 1 .. Len(q) /\ Len(q) \in Nat
  OBVIOUS
<1>2. LastOf(s, r) = f
  BY <1>1 DEF LastOf
<1> HIDE DEF r
<1>3. GoesOn(s, r)
  <2> SUFFICES ASSUME NEW i \in 1 .. Len(q) + 1, \A j \in 1 .. i : r[j] # End
               PROVE  Follows(IF i = 1 THEN s ELSE r[i - 1], r[i])
    BY <1>1 DEF GoesOn
  <2>1. CASE i <= Len(q)
    <3>1. i \in DOMAIN q /\ r[i] = q[i] /\ (i # 1 => r[i - 1] = q[i - 1])
          /\ \A j \in 1 .. i : q[j] # End
      BY <1>1, <2>1
    <3>2. Follows(IF i = 1 THEN s ELSE q[i - 1], q[i])
      BY <3>1 DEF GoesOn
    <3> QED
      BY <3>1, <3>2
  <2>2. CASE i = Len(q) + 1
    <3>1. \A j \in DOMAIN q : q[j] # End
      BY <1>1, <2>2
    <3>2. LastOf(s, q) = IF i = 1 THEN s ELSE r[i - 1]
      BY <1>1, <2>2 DEF LastOf
    <3> QED
      BY <1>1, <2>2, <3>1, <3>2
  <2> QED
    BY <1>1, <2>1, <2>2
<1> QED
  BY <1>2, <1>3 DEF r

\* The first frame of a queue is sent.
LEMMA TailGoesOn ==
  ASSUME NEW s, NEW q \in Seq(Items), q # <<>>, Head(q) # End, GoesOn(s, q)
  PROVE  GoesOn(Head(q), Tail(q)) /\ LastOf(Head(q), Tail(q)) = LastOf(s, q)
<1> DEFINE r == Tail(q)
<1>1. /\ r \in Seq(Items) /\ Len(r) = Len(q) - 1 /\ \A i \in 1 .. Len(q) - 1 : r[i] = q[i + 1]
      /\ DOMAIN r = 1 .. Len(q) - 1 /\ DOMAIN q = 1 .. Len(q) /\ Len(q) \in Nat /\ Len(q) >= 1
      /\ Head(q) = q[1]
  OBVIOUS
<1> HIDE DEF r
<1>2. GoesOn(Head(q), r)
  <2> SUFFICES ASSUME NEW i \in 1 .. Len(q) - 1, \A j \in 1 .. i : r[j] # End
               PROVE  Follows(IF i = 1 THEN Head(q) ELSE r[i - 1], r[i])
    BY <1>1 DEF GoesOn
  <2>1. \A j \in 1 .. i + 1 : q[j] # End
    <3> SUFFICES ASSUME NEW j \in 1 .. i + 1 PROVE q[j] # End
      OBVIOUS
    <3>1. CASE j = 1
      BY <1>1, <3>1
    <3>2. CASE j # 1
      <4>1. j - 1 \in 1 .. i /\ r[j - 1] = q[j]
        BY <1>1, <3>2
      <4> QED
        BY <4>1
    <3> QED
      BY <3>1, <3>2
  <2>2. PICK k \in Nat : k = i + 1
    OBVIOUS
  <2>3. k \in DOMAIN q /\ k # 1 /\ k - 1 = i /\ r[i] = q[k] /\ (i # 1 => r[i - 1] = q[i])
    BY <1>1, <2>2
  <2>4. Follows(IF k = 1 THEN s ELSE q[k - 1], q[k])
    BY <2>1, <2>2, <2>3 DEF GoesOn
  <2>5. Follows(q[i], q[k])
    BY <2>3, <2>4
  <2>6. q[i] = IF i = 1 THEN Head(q) ELSE r[i - 1]
    BY <1>1, <2>3
  <2> QED
    BY <2>3, <2>5, <2>6
<1>3. LastOf(Head(q), r) = LastOf(s, q)
  <2>1. CASE r = <<>>
    BY <1>1, <2>1 DEF LastOf
  <2>2. CASE r # <<>>
    <3>1. Len(q) - 1 \in 1 .. Len(q) - 1
      BY <1>1, <2>2
    <3>2. r[Len(r)] = q[Len(q)]
      BY <1>1, <3>1
    <3> QED
      BY <2>2, <3>2 DEF LastOf
  <2> QED
    BY <2>1, <2>2
<1> QED
  BY <1>2, <1>3 DEF r

\* A client that was made, or whose queue the end marker replaced.
LEMMA Restarted ==
  /\ \A s : GoesOn(s, <<>>)
  /\ \A s : GoesOn(s, <<End>>)
<1>1. \A s : GoesOn(s, <<>>)
  BY DEF GoesOn
<1>2. DOMAIN <<End>> = 1 .. 1 /\ <<End>>[1] = End
  OBVIOUS
<1>3. ASSUME NEW s PROVE GoesOn(s, <<End>>)
  <2> SUFFICES ASSUME NEW i \in 1 .. 1 PROVE ~(\A j \in 1 .. i : <<End>>[j] # End)
    BY <1>2 DEF GoesOn
  <2>1. 1 \in 1 .. i
    OBVIOUS
  <2> QED
    BY <1>2, <2>1
<1> QED
  BY <1>1, <1>3

\* A drained pipe stays so.
LEMMA DrainedStays ==
  ASSUME SourceTypeOK, Lifecycle, [SourceNext]_sourceVars, NEW k \in Procs, PipeDrained(k)
  PROVE  PipeDrained(k)'
<1> USE DEF processes, streams, SourceTypeOK
<1>1. PICK h \in Procs : h > k /\ (emitted[h] > 0 \/ ffmpeg[h] = "dead")
  BY DEF PipeDrained
<1>2. ffmpeg[k] = "killed"
  BY DEF PipeDrained
<1>3. ffmpeg'[k] = "killed" /\ (emitted[h] > 0 => emitted'[h] > 0)
      /\ (ffmpeg[h] = "dead" => ffmpeg'[h] = "dead")
  <2>1. ASSUME NEW v \in Viewers, ViewerStep(v)
        PROVE  emitted' = emitted /\ ffmpeg'[k] = "killed" /\ (ffmpeg[h] = "dead" => ffmpeg'[h] = "dead")
    <3>1. CASE Spawned(v)
      <4>1. procs + 1 \in Procs /\ ffmpeg[procs + 1] = "none"
        BY <3>1, Constants DEF Spawned, Procs, Lifecycle, Pumps
      <4>2. \A g \in Procs : g # procs + 1 => ffmpeg'[g] = ffmpeg[g]
        BY <3>1 DEF Spawned
      <4> QED
        BY <1>2, <3>1, <4>1, <4>2 DEF Spawned
    <3>2. CASE Detach(v)
      BY <1>2, <3>2 DEF Detach
    <3>3. CASE ~Spawned(v) /\ ~Detach(v)
      BY <1>2, <2>1, <3>3
      DEF ViewerStep, Connect, Attach, SpawnFails, AttachTimesOut, Take, Send, NoFirstFrame, Reaped,
          ReapTimesOut
    <3> QED
      BY <3>1, <3>2, <3>3
  <2>2. ASSUME NEW g \in Procs, PumpStep(g)
        PROVE  /\ ffmpeg'[k] = "killed" /\ (ffmpeg[h] = "dead" => ffmpeg'[h] = "dead")
               /\ emitted[h] > 0 => emitted'[h] > 0
    <3>1. CASE Read(g)
      <4>1. emitted[g] \in Nat /\ emitted'[g] = emitted[g] + 1 /\ (h # g => emitted'[h] = emitted[h])
        BY <3>1, Constants DEF Read
      <4> QED
        BY <1>2, <3>1, <4>1 DEF Read
    <3>2. CASE FfmpegEnds(g)
      BY <1>2, <3>2 DEF FfmpegEnds
    <3>3. CASE PumpEnds(g)
      BY <1>2, <3>3 DEF PumpEnds
    <3>4. CASE PumpFinishes(g)
      BY <1>2, <3>4 DEF PumpFinishes
    <3> QED
      BY <2>2, <3>1, <3>2, <3>3, <3>4 DEF PumpStep
  <2>3. CASE UNCHANGED sourceVars
    BY <1>2, <2>3 DEF sourceVars
  <2> QED
    BY <2>1, <2>2, <2>3 DEF SourceNext
<1> QED
  BY <1>1, <1>3 DEF PipeDrained

\* Who may send next: nobody new but the transcoder that is started.
LEMMA ReadingGoesOn ==
  ASSUME SourceTypeOK, Lifecycle, OneReads, [SourceNext]_sourceVars, NEW k \in Procs, Reading(k)'
  PROVE  Reading(k) \/ emitted'[k] = 0
<1> USE DEF processes, streams, SourceTypeOK
<1>1. pump'[k] = "reading" /\ ~PipeDrained(k)
  BY DrainedStays DEF Reading
<1>2. pump[k] = "reading" \/ emitted'[k] = 0
  <2>1. ASSUME NEW v \in Viewers, ViewerStep(v) PROVE pump[k] = "reading" \/ emitted'[k] = 0
    <3>1. CASE Spawned(v)
      <4>1. procs + 1 \in Procs /\ emitted[procs + 1] = 0
        BY <3>1, Constants DEF Spawned, Procs, Lifecycle, Pumps, OneReads
      <4>2. \A g \in Procs : g # procs + 1 => pump'[g] = pump[g]
        BY <3>1 DEF Spawned
      <4> QED
        BY <1>1, <3>1, <4>1, <4>2 DEF Spawned
    <3>2. CASE ~Spawned(v)
      BY <1>1, <2>1, <3>2
      DEF ViewerStep, Connect, Attach, SpawnFails, AttachTimesOut, Take, Send, NoFirstFrame, Detach,
          Reaped, ReapTimesOut
    <3> QED
      BY <3>1, <3>2
  <2>2. ASSUME NEW g \in Procs, PumpStep(g) PROVE pump[k] = "reading"
    BY <1>1, <2>2 DEF PumpStep, Read, FfmpegEnds, PumpEnds, PumpFinishes
  <2>3. CASE UNCHANGED sourceVars
    BY <1>1, <2>3 DEF sourceVars
  <2> QED
    BY <2>1, <2>2, <2>3 DEF SourceNext
<1> QED
  BY <1>1, <1>2 DEF Reading

\* Only a read counts a frame, and then every older pipe is drained.
LEMMA EmittedBy ==
  ASSUME SourceTypeOK, [SourceNext]_sourceVars
  PROVE  emitted' = emitted \/ \E g \in Procs : Read(g)
  BY DEF SourceNext, sourceVars, processes, streams, ViewerStep, PumpStep, Connect, Attach, Spawned,
         SpawnFails, AttachTimesOut, Take, Send, NoFirstFrame, Detach, Reaped, ReapTimesOut,
         FfmpegEnds, PumpEnds, PumpFinishes

LEMMA ReadDrains ==
  ASSUME SourceTypeOK, Lifecycle, NEW g \in Procs, Read(g), NEW k \in Procs, k < g
  PROVE  ~Reading(k)'
<1> SUFFICES ASSUME pump[k] = "reading" PROVE PipeDrained(k)'
  BY DEF Reading, Read
<1>1. emitted'[g] = emitted[g] + 1 /\ emitted[g] \in Nat /\ ffmpeg' = ffmpeg
  BY Constants DEF Read, SourceTypeOK
<1>2. ffmpeg[g] # "none" /\ procs \in Nat /\ k \in Nat /\ g \in Nat
  BY Constants DEF Read, Lifecycle, Pumps, SourceTypeOK, Procs
<1>3. ~(g > procs)
  BY <1>2 DEF Lifecycle, Pumps
<1>4. ffmpeg[k] # "running"
  BY <1>2, <1>3 DEF Lifecycle, Pumps, Published, NoProc, Procs
<1>5. ffmpeg[k] = "killed"
  BY <1>4 DEF Lifecycle, Pumps, SourceTypeOK
<1> QED
  BY <1>1, <1>5 DEF PipeDrained

LEMMA OneReadsStep ==
  ASSUME SourceTypeOK, Lifecycle, Lifecycle', OneReads, [SourceNext]_sourceVars
  PROVE  OneReads'
<1>0. procs \in Nat /\ \A g \in Procs : g \in Nat /\ emitted[g] \in Nat
  BY Constants DEF SourceTypeOK, Procs
<1>1. ASSUME NEW g \in Procs, ffmpeg'[g] = "none" PROVE emitted'[g] = 0
  <2>1. pump'[g] = "none"
    BY <1>1 DEF Lifecycle, Pumps
  <2>2. CASE emitted' = emitted
    <3>1. ffmpeg[g] = "none"
      <4>1. ASSUME NEW v \in Viewers, ViewerStep(v) PROVE ffmpeg[g] = "none"
        <5>1. CASE Spawned(v)
          BY <1>0, <1>1, <5>1 DEF Spawned, SourceTypeOK
        <5>2. CASE Detach(v)
          BY <1>0, <1>1, <5>2 DEF Detach, SourceTypeOK
        <5>3. CASE ~Spawned(v) /\ ~Detach(v)
          BY <1>1, <4>1, <5>3
          DEF ViewerStep, Connect, Attach, SpawnFails, AttachTimesOut, Take, Send, NoFirstFrame,
              Reaped, ReapTimesOut, processes
        <5> QED
          BY <5>1, <5>2, <5>3
      <4>2. ASSUME NEW h \in Procs, PumpStep(h) PROVE ffmpeg[g] = "none"
        BY <1>1, <4>2 DEF PumpStep, Read, FfmpegEnds, PumpEnds, PumpFinishes, SourceTypeOK
      <4>3. CASE UNCHANGED sourceVars
        BY <1>1, <4>3 DEF sourceVars
      <4> QED
        BY <4>1, <4>2, <4>3 DEF SourceNext
    <3> QED
      BY <2>2, <3>1 DEF OneReads
  <2>3. ASSUME NEW h \in Procs, Read(h) PROVE emitted'[g] = 0
    <3>1. ffmpeg[g] = "none" /\ pump[g] = "none" /\ pump[h] = "reading"
      BY <1>1, <2>1, <2>3 DEF Read
    <3>2. emitted'[g] = emitted[g]
      BY <2>3, <3>1 DEF Read, SourceTypeOK
    <3> QED
      BY <3>1, <3>2 DEF OneReads
  <2> QED
    BY <2>2, <2>3, EmittedBy
<1>2. ASSUME NEW g \in Procs, NEW h \in Procs, Reading(g)', g < h PROVE emitted'[h] = 0
  <2>1. ASSUME NEW k \in Procs, Read(k) PROVE emitted'[h] = 0
    <3>1. ~(h = k)
      BY <1>2, <2>1, ReadDrains
    <3>2. emitted'[h] = emitted[h] /\ pump[g] = "reading" /\ ~PipeDrained(g)
      BY <1>2, <2>1, <3>1, DrainedStays DEF Read, SourceTypeOK, Reading
    <3> QED
      BY <1>2, <3>2 DEF OneReads, Reading
  <2>2. CASE emitted' = emitted
    <3>1. CASE Reading(g)
      BY <1>2, <2>2, <3>1 DEF OneReads
    <3>2. CASE ~Reading(g)
      <4>1. pump[g] # "reading"
        BY <1>2, <3>2, DrainedStays DEF Reading
      <4>2. PICK v \in Viewers : Spawned(v)
        <5>1. CASE UNCHANGED sourceVars
          BY <1>2, <4>1, <5>1 DEF sourceVars, Reading
        <5>2. ASSUME NEW k \in Procs, PumpStep(k) PROVE FALSE
          BY <1>2, <4>1, <5>2
          DEF PumpStep, Read, FfmpegEnds, PumpEnds, PumpFinishes, SourceTypeOK, Reading
        <5>3. ASSUME NEW v \in Viewers, ViewerStep(v) PROVE Spawned(v)
          BY <1>2, <4>1, <5>3
          DEF ViewerStep, Connect, Attach, SpawnFails, AttachTimesOut, Take, Send, NoFirstFrame,
              Detach, Reaped, ReapTimesOut, processes, Reading
        <5> QED
          BY <5>1, <5>2, <5>3 DEF SourceNext
      <4>3. g = procs + 1
        BY <1>2, <4>1, <4>2 DEF Spawned, SourceTypeOK, Reading
      <4>4. h > procs
        BY <1>0, <1>2, <4>3
      <4> QED
        BY <2>2, <4>4 DEF Lifecycle, Pumps, OneReads
    <3> QED
      BY <3>1, <3>2
  <2> QED
    BY <2>1, <2>2, EmittedBy
<1> QED
  BY <1>1, <1>2 DEF OneReads

\* The queue of a fed viewer, as the invariant has it.
Follow(u) == GoesOn(shown[u], backlog[u]) /\ InStep(u)

LEMMA FedIs ==
  ASSUME OneReads
  PROVE  FedInv <=> \A u \in Fed : Follow(u)
  BY DEF FedInv, InOrder, Follow

\* A queue that a step leaves alone, or takes a frame from: nothing new can send.
LEMMA KeptInStep ==
  ASSUME SourceTypeOK, Lifecycle, OneReads, [SourceNext]_sourceVars, emitted' = emitted,
         NEW u \in Viewers, Follow(u), GoesOn(shown'[u], backlog'[u]), waitIdr'[u] = waitIdr[u],
         HasEnd(u) => HasEnd(u)', LastOf(shown'[u], backlog'[u]) = LastOf(shown[u], backlog[u])
  PROVE  Follow(u)'
<1>1. ASSUME NEW g \in Procs, Reading(g)' PROVE Reading(g) \/ emitted'[g] = 0
  BY <1>1, ReadingGoesOn
<1>2. InStep(u)'
  BY <1>1 DEF InStep, Follow
<1> QED
  BY <1>2 DEF Follow

LEMMA LeftAlone ==
  ASSUME SourceTypeOK, Lifecycle, OneReads, [SourceNext]_sourceVars, emitted' = emitted,
         NEW u \in Viewers, Follow(u), shown'[u] = shown[u], backlog'[u] = backlog[u],
         waitIdr'[u] = waitIdr[u]
  PROVE  Follow(u)'
<1>1. GoesOn(shown'[u], backlog'[u])
  BY DEF Follow
<1>2. HasEnd(u) => HasEnd(u)'
  BY DEF HasEnd
<1> QED
  BY <1>1, <1>2, KeptInStep

\* A client as it is made waits for a key frame.
LEMMA MadeAnew ==
  ASSUME SourceTypeOK, NEW u \in Viewers, NewClient(u, TRUE)
  PROVE  Follow(u)'
<1>1. backlog'[u] = <<>> /\ waitIdr'[u] = TRUE
  BY DEF NewClient, SourceTypeOK
<1> QED
  BY <1>1, Restarted DEF Follow, InStep

\* _fan: whoever is handed the frame was waiting for it or had the one before it.
LEMMA FannedOut ==
  ASSUME SourceTypeOK, Lifecycle, FedInv, [SourceNext]_sourceVars, NEW g \in Procs, Read(g),
         NEW u \in Fed
  PROVE  Follow(u)'
<1> DEFINE f == [of |-> g, n |-> emitted'[g]]
           listens == {v \in clients : ~waitIdr[v] \/ IsKey(f)}
           full == {v \in listens : Len(backlog[v]) = QueueLength}
<1>0. /\ u \in Viewers /\ u \in clients /\ backlog[u] \in Seq(Items)
      /\ f \in Frames /\ f \in Items /\ Follow(u)
      /\ emitted[g] \in Nat /\ emitted'[g] = emitted[g] + 1
  BY FedIs, Constants
  DEF Fed, SourceTypeOK, Lifecycle, Registered, Read, Frames, Items, FedInv, InOrder, Follow
<1>1. shown'[u] = shown[u]
  BY DEF Read
<1>2. /\ backlog'[u] = IF u \in full THEN <<>>
                       ELSE IF u \in listens THEN Append(backlog[u], f) ELSE backlog[u]
      /\ waitIdr'[u] = ((waitIdr[u] \/ u \in full) /\ u \notin listens \ full)
  BY <1>0 DEF Read, Fan
<1>3. Reading(g)
  BY DEF Read, Reading
<1>4. f.of = g /\ f.n = emitted'[g]
  OBVIOUS
<1> HIDE DEF f
<1>5. CASE u \in full
  <2>1. backlog'[u] = <<>> /\ waitIdr'[u]
    BY <1>2, <1>5
  <2> QED
    BY <2>1, Restarted DEF Follow, InStep
<1>6. CASE u \notin listens
  <2>1. backlog'[u] = backlog[u] /\ waitIdr[u] /\ waitIdr'[u]
    BY <1>0, <1>2, <1>6
  <2> QED
    BY <1>0, <1>1, <2>1 DEF Follow, InStep
<1>7. CASE u \in listens \ full
  <2>1. backlog'[u] = Append(backlog[u], f) /\ (IsKey(f) \/ ~waitIdr[u])
    BY <1>2, <1>7
  <2>2. (\A j \in DOMAIN backlog[u] : backlog[u][j] # End) => Follows(LastOf(shown[u], backlog[u]), f)
    <3> SUFFICES ASSUME \A j \in DOMAIN backlog[u] : backlog[u][j] # End, ~IsKey(f)
                 PROVE  Follows(LastOf(shown[u], backlog[u]), f)
      BY DEF Follows
    <3>1. emitted[g] = 0 \/ LastOf(shown[u], backlog[u]) = [of |-> g, n |-> emitted[g]]
      BY <1>0, <1>3, <2>1 DEF Follow, InStep, HasEnd
    <3>2. emitted[g] # 0
      BY <1>0, <1>4, FirstIsKey
    <3> QED
      BY <1>0, <1>4, <3>1, <3>2 DEF Follows
  <2>3. GoesOn(shown[u], backlog'[u]) /\ LastOf(shown[u], backlog'[u]) = f
    BY <1>0, <2>1, <2>2, AppendGoesOn DEF Follow
  <2>4. ASSUME NEW h \in Procs, Reading(h)', h # g PROVE emitted'[h] = 0
    <3>1. ~(h < g)
      BY <2>4, ReadDrains
    <3>2. g < h
      BY <2>4, <3>1, Constants DEF Procs
    <3> QED
      BY <1>3, <2>4, <3>2 DEF FedInv, OneReads, Read, SourceTypeOK
  <2>5. InStep(u)'
    <3> SUFFICES ASSUME NEW h \in Procs, Reading(h)'
                 PROVE  emitted'[h] = 0 \/ LastOf(shown'[u], backlog'[u]) = [of |-> h, n |-> emitted'[h]]
      BY DEF InStep
    <3>1. CASE h = g
      BY <1>1, <2>3, <3>1 DEF f
    <3>2. CASE h # g
      BY <2>4, <3>2
    <3> QED
      BY <3>1, <3>2
  <2> QED
    BY <1>1, <2>3, <2>5 DEF Follow
<1> QED
  BY <1>5, <1>6, <1>7

\* The next frame of the queue is sent.
LEMMA TakenFrom ==
  ASSUME SourceTypeOK, Lifecycle, FedInv, [SourceNext]_sourceVars, NEW v \in Viewers, Take(v),
         Head(backlog[v]) # End
  PROVE  Follow(v)'
<1>1. /\ backlog[v] \in Seq(Items) /\ backlog[v] # <<>>
      /\ backlog' = [backlog EXCEPT ![v] = Tail(@)] /\ backlog'[v] = Tail(backlog[v])
      /\ shown'[v] = Head(backlog[v]) /\ waitIdr' = waitIdr /\ emitted' = emitted
  BY DEF Take, SourceTypeOK, processes
<1>2. OneReads /\ Follow(v)
  BY DEF Take, Fed, Serving, FedInv, InOrder, Follow
<1>3. GoesOn(shown'[v], backlog'[v])
      /\ LastOf(shown'[v], backlog'[v]) = LastOf(shown[v], backlog[v])
  BY <1>1, <1>2, TailGoesOn DEF Follow
<1>4. HasEnd(v) => HasEnd(v)'
  BY <1>1, TailKeepsEnd
<1> QED
  BY <1>1, <1>2, <1>3, <1>4, KeptInStep

LEMMA FedStep ==
  ASSUME SourceTypeOK, Lifecycle, Lifecycle', FedInv, [SourceNext]_sourceVars
  PROVE  FedInv'
<1> USE PlaceOf DEF processes, streams
<1>0. OneReads /\ OneReads'
  BY OneReadsStep DEF FedInv
<1>f. \A u \in Fed : u \in Viewers /\ Follow(u)
  BY DEF FedInv, InOrder, Follow, Fed
<1> SUFFICES ASSUME NEW u \in Fed' PROVE Follow(u)'
  BY <1>0 DEF FedInv, InOrder, Follow
<1>u. u \in Viewers
  BY DEF Fed
<1>1. ASSUME NEW v \in Viewers, ViewerStep(v) PROVE Follow(u)'
  <2>1. ASSUME u # v, emitted' = emitted, viewer'[u] = viewer[u], shown'[u] = shown[u],
               backlog'[u] = backlog[u], waitIdr'[u] = waitIdr[u]
        PROVE  Follow(u)'
    <3>1. u \in Fed
      BY <2>1 DEF Fed
    <3> QED
      BY <1>0, <1>f, <1>u, <2>1, <3>1, LeftAlone
  <2>2. ASSUME NewClient(v, TRUE), emitted' = emitted, u # v => viewer'[u] = viewer[u]
        PROVE  Follow(u)'
    <3>1. CASE u = v
      BY <2>2, <3>1, MadeAnew
    <3>2. CASE u # v
      <4>1. shown'[u] = shown[u] /\ backlog'[u] = backlog[u] /\ waitIdr'[u] = waitIdr[u]
        BY <2>2, <3>2, <1>u DEF NewClient, SourceTypeOK
      <4> QED
        BY <2>1, <2>2, <3>2, <4>1
    <3> QED
      BY <3>1, <3>2
  <2>3. ASSUME UNCHANGED streams, emitted' = emitted, v \in Fed' => v \in Fed,
               u # v => viewer'[u] = viewer[u]
        PROVE  Follow(u)'
    <3>1. u \in Fed
      BY <2>3 DEF Fed
    <3> QED
      BY <1>0, <1>f, <1>u, <2>3, <3>1, LeftAlone
  <2>4. ASSUME NEW post, viewer' = [viewer EXCEPT ![v] = post] PROVE u # v => viewer'[u] = viewer[u]
    BY <1>u, <2>4, Moves
  <2>5. ASSUME NEW post, viewer' = [viewer EXCEPT ![v] = post], post.at \notin Serving \ {"leaving"}
        PROVE  v \notin Fed'
    BY <2>5, Moves DEF Fed
  <2>6. CASE Connect(v)
    BY <2>3, <2>4, <2>5, <2>6 DEF Connect, Serving
  <2>7. CASE Attach(v)
    BY <2>2, <2>4, <2>7 DEF Attach
  <2>8. CASE Spawned(v)
    BY <2>3, <2>4, <2>8 DEF Spawned, Fed, Serving
  <2>9. CASE SpawnFails(v)
    BY <2>2, <2>4, <2>9 DEF SpawnFails
  <2>10. CASE AttachTimesOut(v)
    BY <2>3, <2>4, <2>5, <2>10 DEF AttachTimesOut, Serving
  <2>11. CASE Take(v)
    <3>1. CASE u = v
      <4>1. CASE Head(backlog[v]) = End
        <5>1. viewer' = [viewer EXCEPT ![v] = At("leaving")]
          BY <2>11, <4>1 DEF Take
        <5> QED
          BY <2>5, <3>1, <5>1
      <4>2. CASE Head(backlog[v]) # End
        BY <2>11, <3>1, <4>2, TakenFrom
      <4> QED
        BY <4>1, <4>2
    <3>2. CASE u # v
      <4>1. shown'[u] = shown[u] /\ backlog'[u] = backlog[u] /\ viewer'[u] = viewer[u]
        BY <1>u, <2>11, <3>2 DEF Take, SourceTypeOK
      <4> QED
        BY <2>1, <2>11, <3>2, <4>1 DEF Take
    <3> QED
      BY <3>1, <3>2
  <2>12. CASE Send(v)
    <3>1. v \in Fed
      BY <2>12 DEF Send, Fed, Serving
    <3> QED
      BY <2>3, <2>4, <2>12, <3>1 DEF Send
  <2>13. CASE NoFirstFrame(v)
    BY <2>3, <2>4, <2>5, <2>13 DEF NoFirstFrame, Serving
  <2>14. CASE Detach(v)
    <3>1. u # v => viewer'[u] = viewer[u]
      BY <2>4, <2>14 DEF Detach
    <3> QED
      BY <2>2, <2>14, <3>1 DEF Detach
  <2>15. CASE Reaped(v)
    BY <2>3, <2>4, <2>5, <2>15 DEF Reaped, Serving
  <2>16. CASE ReapTimesOut(v)
    BY <2>3, <2>4, <2>5, <2>16 DEF ReapTimesOut, Serving
  <2> QED
    BY <1>1, <2>6, <2>7, <2>8, <2>9, <2>10, <2>11, <2>12, <2>13, <2>14, <2>15, <2>16 DEF ViewerStep
<1>2. ASSUME NEW g \in Procs, PumpStep(g) PROVE Follow(u)'
  <2>1. viewer' = viewer /\ u \in Fed
    BY <1>2 DEF PumpStep, Read, FfmpegEnds, PumpEnds, PumpFinishes, Fed
  <2>2. CASE Read(g)
    BY <2>1, <2>2, FannedOut
  <2>3. CASE FfmpegEnds(g)
    BY <1>0, <1>f, <1>u, <2>1, <2>3, LeftAlone DEF FfmpegEnds
  <2>4. CASE PumpEnds(g)
    BY <1>0, <1>f, <1>u, <2>1, <2>4, LeftAlone DEF PumpEnds
  <2>5. CASE PumpFinishes(g)
    <3>1. u \in clients
      BY <1>u, <2>1 DEF Fed, Lifecycle, Registered
    <3>2. backlog'[u] = <<End>>
      BY <1>u, <2>5, <3>1 DEF PumpFinishes
    <3>3. GoesOn(shown'[u], backlog'[u])
      BY <3>2, Restarted
    <3> QED
      BY <1>u, <3>2, <3>3, MarkerIsEnd DEF Follow, InStep
  <2> QED
    BY <1>2, <2>2, <2>3, <2>4, <2>5 DEF PumpStep
<1>3. CASE UNCHANGED sourceVars
  <2>1. u \in Fed
    BY <1>3 DEF Fed, sourceVars
  <2> QED
    BY <1>0, <1>f, <1>u, <1>3, <2>1, LeftAlone DEF sourceVars
<1> QED
  BY <1>1, <1>2, <1>3 DEF SourceNext

LEMMA FedInit == SourceInit => FedInv
<1> SUFFICES ASSUME SourceInit PROVE FedInv
  OBVIOUS
<1>1. Fed = {}
  BY PlaceOf DEF SourceInit, Fed, Serving
<1>2. OneReads
  BY DEF SourceInit, OneReads
<1> QED
  BY <1>1, <1>2 DEF FedInv, InOrder

\* What any viewer is sent can be decoded up to the end marker, however the transcoders come
\* and go and whatever is dumped from its queue on the way.
THEOREM EverythingDecodes == SourceSpec => []Decodable
<1>1. FedInv => Decodable
  BY DEF FedInv, InOrder, Fed, Serving, Watchers, GoesOn, Decodable, Before
<1>2. SourceInit => FedInv
  BY FedInit
<1>3. SourceTypeOK /\ Lifecycle /\ SourceTypeOK' /\ Lifecycle' /\ FedInv /\ [SourceNext]_sourceVars
      => FedInv'
  BY FedStep
<1> QED
  BY <1>1, <1>2, <1>3, Invariants, PTL DEF SourceSpec

=============================================================================
