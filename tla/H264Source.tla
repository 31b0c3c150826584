----------------------------- MODULE H264Source -----------------------------
(***************************************************************************)
(* The shared H.264 transcoder (_H264Source) and the viewers' handlers     *)
(* (ws_h264).  The first viewer starts ffmpeg, the last one kills it; a    *)
(* pump task per ffmpeg fans its frames out to the viewers' queues and     *)
(* ends them when ffmpeg ends.                                             *)
(*                                                                         *)
(* The source's lock is held across an await only while attach() starts    *)
(* ffmpeg, so it is taken exactly while a viewer is "spawning".            *)
(***************************************************************************)
EXTENDS Naturals, Sequences, FiniteSets

CONSTANTS
    Viewers,        \* pages that may watch
    MaxProcs,       \* bound: transcoders ever started
    MaxFrames,      \* bound: frames of one transcoder
    Gop,            \* every Gop-th frame of a transcoder is a key frame (-g)
    QueueLength     \* slots of a client's queue (30)

ASSUME SourceAssumption ==
    /\ {MaxProcs, MaxFrames, Gop, QueueLength} \subseteq Nat \ {0}

VARIABLES
    clients,    \* viewers whose _H264Client is registered
    ghost,      \* a registered _H264Client nobody serves any more
    proc,       \* the published ffmpeg, NoProc for None
    procs,      \* how many have been started
    ffmpeg,     \* per ffmpeg: "none", "running", "killed", "dead"
    pump,       \* its pump task: "none", "reading", "ending", "ended"
    emitted,    \* frames it has read so far
    viewer,     \* where each page's ws_h264 is, and the ffmpeg it reaps
    backlog,    \* its client's queue
    waitIdr,    \* its client skips to the next key frame
    shown       \* the last frame this connection was sent

sourceVars == <<clients, ghost, proc, procs, ffmpeg, pump, emitted, viewer, backlog,
                waitIdr, shown>>
processes == <<proc, procs, ffmpeg, pump, emitted>>
streams == <<backlog, waitIdr, shown>>

NoProc == 0
Procs == 1 .. MaxProcs
Frames == [of : Procs, n : 1 .. MaxFrames]
NoFrame == [of |-> NoProc, n |-> 0]
End == [of |-> NoProc, n |-> 1]     \* q.put_nowait(None)
IsKey(frame) == frame.n % Gop = 1 \/ Gop = 1

Away == [at |-> "away", reaps |-> NoProc]
At(place) == [at |-> place, reaps |-> NoProc]

\* A client as it is made, and the place of one that is gone.
NewClient(v, waits) ==
    /\ backlog' = [backlog EXCEPT ![v] = <<>>]
    /\ waitIdr' = [waitIdr EXCEPT ![v] = waits]
    /\ shown' = [shown EXCEPT ![v] = NoFrame]

\* Slip: detach() awaits the pump with the lock held.
LockedWhileReaping == \E v \in Viewers : viewer[v].at \in {"spawning", "reaping"}

Locked == \E v \in Viewers : viewer[v].at = "spawning"

SourceInit ==
    /\ clients = {} /\ ghost = FALSE
    /\ proc = NoProc /\ procs = 0
    /\ ffmpeg = [g \in Procs |-> "none"]
    /\ pump = [g \in Procs |-> "none"]
    /\ emitted = [g \in Procs |-> 0]
    /\ viewer = [v \in Viewers |-> Away]
    /\ backlog = [v \in Viewers |-> <<>>]
    /\ waitIdr = [v \in Viewers |-> TRUE]
    /\ shown = [v \in Viewers |-> NoFrame]

-----------------------------------------------------------------------------
(* attach().                                                               *)

\* A page connects, authorised and with H.264 enabled; any other is closed at once.
Connect(v) ==
    /\ viewer[v] = Away
    /\ viewer' = [viewer EXCEPT ![v] = At("attaching")]
    /\ UNCHANGED <<clients, ghost, processes, streams>>

\* Slip: attach() does not take the lock.
AttachUnlocked(v) ==
    /\ viewer[v].at = "attaching"
    /\ clients' = clients \cup {v}
    /\ NewClient(v, TRUE)
    /\ viewer' = [viewer EXCEPT ![v] = At(IF proc = NoProc THEN "spawning" ELSE "first")]
    /\ UNCHANGED <<ghost, processes>>

Attach(v) ==
    /\ viewer[v].at = "attaching" /\ ~Locked
    /\ clients' = clients \cup {v}
    /\ NewClient(v, TRUE)
    /\ viewer' = [viewer EXCEPT ![v] = At(IF proc = NoProc THEN "spawning" ELSE "first")]
    /\ UNCHANGED <<ghost, processes>>

\* create_subprocess_exec returns.
Spawned(v) ==
    /\ viewer[v].at = "spawning" /\ procs < MaxProcs
    /\ procs' = procs + 1 /\ proc' = procs'
    /\ ffmpeg' = [ffmpeg EXCEPT ![procs'] = "running"]
    /\ pump' = [pump EXCEPT ![procs'] = "reading"]
    /\ viewer' = [viewer EXCEPT ![v] = At("first")]
    /\ UNCHANGED <<clients, ghost, emitted, streams>>

\* It raises, or the 8 seconds of the handler are over and attach() is cancelled in it
\* (asyncio kills a half-started child): the handler closes the socket, and nobody takes
\* the client out of the set again.
SpawnFails(v) ==
    /\ viewer[v].at = "spawning"
    /\ viewer' = [viewer EXCEPT ![v] = Away]
    /\ clients' = clients \ {v} /\ ghost' = TRUE
    /\ NewClient(v, TRUE)
    /\ UNCHANGED processes

\* The 8 seconds pass while it waits for the lock.
AttachTimesOut(v) ==
    /\ viewer[v].at = "attaching" /\ Locked
    /\ viewer' = [viewer EXCEPT ![v] = Away]
    /\ UNCHANGED <<clients, ghost, processes, streams>>

-----------------------------------------------------------------------------
(* ws_h264 once attached, and detach().                                    *)

\* The next item of the queue: a frame to send, or the end of the source.
Take(v) ==
    /\ viewer[v].at \in {"first", "watching"} /\ backlog[v] # <<>>
    /\ backlog' = [backlog EXCEPT ![v] = Tail(@)]
    /\ IF Head(backlog[v]) = End
       THEN /\ viewer' = [viewer EXCEPT ![v] = At("leaving")]
            /\ UNCHANGED shown
       ELSE /\ viewer' = [viewer EXCEPT ![v] = At("sending")]
            /\ shown' = [shown EXCEPT ![v] = Head(backlog[v])]
    /\ UNCHANGED <<clients, ghost, processes, waitIdr>>

\* sock.send_bytes returns, at the speed of the viewer's link, or raises when the page is
\* gone: it is only noticed here.
Send(v) ==
    /\ viewer[v].at = "sending"
    /\ \E place \in {"watching", "leaving"} : viewer' = [viewer EXCEPT ![v] = At(place)]
    /\ UNCHANGED <<clients, ghost, processes, streams>>

\* No first frame within 10 seconds.
NoFirstFrame(v) ==
    /\ viewer[v].at = "first"
    /\ viewer' = [viewer EXCEPT ![v] = At("leaving")]
    /\ UNCHANGED <<clients, ghost, processes, streams>>

LastLeaves(v) == clients \ {v} = {} /\ ~ghost /\ proc # NoProc

\* The last one out unpublishes the source and kills ffmpeg, then waits for the pump.
Detach(v) ==
    /\ viewer[v].at = "leaving" /\ ~Locked
    /\ clients' = clients \ {v} /\ NewClient(v, TRUE)
    /\ IF LastLeaves(v)
       THEN /\ proc' = NoProc
            /\ ffmpeg' = [ffmpeg EXCEPT ![proc] = IF @ = "running" THEN "killed" ELSE @]
            /\ viewer' = [viewer EXCEPT ![v] = [at |-> "reaping", reaps |-> proc]]
       ELSE /\ viewer' = [viewer EXCEPT ![v] = Away]
            /\ UNCHANGED <<proc, ffmpeg>>
    /\ UNCHANGED <<ghost, procs, pump, emitted>>

Reaped(v) ==
    /\ viewer[v].at = "reaping" /\ pump[viewer[v].reaps] = "ended"
    /\ viewer' = [viewer EXCEPT ![v] = Away]
    /\ UNCHANGED <<clients, ghost, processes, streams>>

\* The wait is bounded by 3 seconds.
ReapTimesOut(v) ==
    /\ viewer[v].at = "reaping" /\ pump[viewer[v].reaps] # "ended"
    /\ viewer' = [viewer EXCEPT ![v] = Away]
    /\ UNCHANGED <<clients, ghost, processes, streams>>

-----------------------------------------------------------------------------
(* ffmpeg and its pump.                                                    *)

\* Slip: a client whose backlog was dumped goes on without waiting for a key frame.
FanWithoutResync(frame) ==
    LET listens == {v \in clients : ~waitIdr[v] \/ IsKey(frame)}
        full == {v \in listens : Len(backlog[v]) = QueueLength}
    IN  /\ backlog' = [v \in Viewers |-> IF v \in full THEN <<>>
                                        ELSE IF v \in listens THEN Append(backlog[v], frame)
                                        ELSE backlog[v]]
        /\ waitIdr' = [v \in Viewers |-> waitIdr[v] /\ v \notin listens]

\* Slip: a client's queue has no limit.
FanUnbounded(frame) ==
    LET listens == {v \in clients : ~waitIdr[v] \/ IsKey(frame)}
    IN  /\ backlog' = [v \in Viewers |-> IF v \in listens THEN Append(backlog[v], frame)
                                                          ELSE backlog[v]]
        /\ waitIdr' = [v \in Viewers |-> waitIdr[v] /\ v \notin listens]

\* _fan: a client that waits for a key frame skips everything else; one whose queue is
\* full has it dumped, end marker included, and waits for the next key frame.
Fan(frame) ==
    LET listens == {v \in clients : ~waitIdr[v] \/ IsKey(frame)}
        full == {v \in listens : Len(backlog[v]) = QueueLength}
    IN  /\ backlog' = [v \in Viewers |-> IF v \in full THEN <<>>
                                        ELSE IF v \in listens THEN Append(backlog[v], frame)
                                        ELSE backlog[v]]
        /\ waitIdr' = [v \in Viewers |-> (waitIdr[v] \/ v \in full) /\ v \notin listens \ full]

\* The pipe of an ffmpeg that was killed may still hold frames; it is empty long before the
\* next ffmpeg has a first one (1.7 s at best) or gives up.
PipeDrained(g) ==
    ffmpeg[g] = "killed" /\ \E h \in Procs : h > g /\ (emitted[h] > 0 \/ ffmpeg[h] = "dead")

\* The pump reads one more access unit.
Read(g) ==
    /\ pump[g] = "reading" /\ ~PipeDrained(g)
    /\ emitted[g] < MaxFrames
    /\ emitted' = [emitted EXCEPT ![g] = @ + 1]
    /\ Fan([of |-> g, n |-> emitted'[g]])
    /\ UNCHANGED <<clients, ghost, proc, procs, ffmpeg, pump, viewer, shown>>

\* End of file: ffmpeg has ended by itself, say because the streamer was restarted ...
FfmpegEnds(g) ==
    /\ ffmpeg[g] = "running"
    /\ ffmpeg' = [ffmpeg EXCEPT ![g] = "dead"]
    /\ pump' = [pump EXCEPT ![g] = "ending"]
    /\ UNCHANGED <<clients, ghost, proc, procs, emitted, viewer, streams>>

\* ... or was killed some time ago.
PumpEnds(g) ==
    /\ pump[g] = "reading" /\ ffmpeg[g] = "killed"
    /\ pump' = [pump EXCEPT ![g] = "ending"]
    /\ UNCHANGED <<clients, ghost, proc, procs, ffmpeg, emitted, viewer, streams>>

\* Slip: the pump of a source that ended by itself leaves it published.
PumpFinishesPublished(g) ==
    /\ pump[g] = "ending" /\ ~Locked
    /\ pump' = [pump EXCEPT ![g] = "ended"]
    /\ backlog' = [v \in Viewers |-> IF v \in clients THEN <<End>> ELSE backlog[v]]
    /\ UNCHANGED <<clients, ghost, proc, procs, ffmpeg, emitted, viewer, waitIdr, shown>>

\* With the lock, it withdraws the source if that is still its own; then it dumps the
\* queue of every client there is now and puts the end marker there.
PumpFinishes(g) ==
    /\ pump[g] = "ending" /\ ~Locked
    /\ pump' = [pump EXCEPT ![g] = "ended"]
    /\ proc' = IF proc = g THEN NoProc ELSE proc
    /\ backlog' = [v \in Viewers |-> IF v \in clients THEN <<End>> ELSE backlog[v]]
    /\ UNCHANGED <<clients, ghost, procs, ffmpeg, emitted, viewer, waitIdr, shown>>

-----------------------------------------------------------------------------

ViewerStep(v) ==
    \/ Connect(v) \/ Attach(v) \/ Spawned(v) \/ SpawnFails(v) \/ AttachTimesOut(v)
    \/ Take(v) \/ Send(v) \/ NoFirstFrame(v)
    \/ Detach(v) \/ Reaped(v) \/ ReapTimesOut(v)

PumpStep(g) == Read(g) \/ FfmpegEnds(g) \/ PumpEnds(g) \/ PumpFinishes(g)

SourceNext ==
    \/ \E v \in Viewers : ViewerStep(v)
    \/ \E g \in Procs : PumpStep(g)

\* The loop runs what can run; asyncio.Lock is first come, first served, so a pump that
\* waits for it gets it.  A kill takes effect.  Nothing is owed to the time-outs of
\* attach and of the wait for the pump.
SourceFairness ==
    /\ \A v \in Viewers : WF_sourceVars(Spawned(v) \/ SpawnFails(v) \/ Reaped(v))
    /\ \A g \in Procs : SF_sourceVars(PumpEnds(g) \/ PumpFinishes(g))

SourceSpec == SourceInit /\ [][SourceNext]_sourceVars /\ SourceFairness

-----------------------------------------------------------------------------
(* Properties.                                                             *)

ViewerPlaces == {"away", "attaching", "spawning", "first", "watching", "sending", "leaving",
                 "reaping"}
Posts == [at : ViewerPlaces, reaps : Procs \cup {NoProc}]
Items == Frames \cup {End}

SourceTypeOK ==
    /\ clients \subseteq Viewers /\ ghost \in BOOLEAN
    /\ proc \in Procs \cup {NoProc} /\ procs \in 0 .. MaxProcs
    /\ ffmpeg \in [Procs -> {"none", "running", "killed", "dead"}]
    /\ pump \in [Procs -> {"none", "reading", "ending", "ended"}]
    /\ emitted \in [Procs -> 0 .. MaxFrames]
    /\ viewer \in [Viewers -> Posts]
    /\ backlog \in [Viewers -> Seq(Items)]
    /\ \A v \in Viewers : Len(backlog[v]) <= QueueLength
    /\ waitIdr \in [Viewers -> BOOLEAN]
    /\ shown \in [Viewers -> Frames \cup {NoFrame}]

\* A running ffmpeg that nobody has killed is the published one, and somebody is
\* registered to watch it: two viewers who attach and leave at once never start two, or
\* orphan one ("Ref-counted shared transcoder", the lock in attach and detach).
NoOrphan ==
    \A g \in Procs : ffmpeg[g] = "running" => proc = g /\ (clients # {} \/ ghost)

\* "kills it with the last": no ffmpeg runs on when every page is gone.
KilledWithTheLast ==
    (\A v \in Viewers : viewer[v] = Away) => \A g \in Procs : ffmpeg[g] # "running"

Watchers == {v \in Viewers : viewer[v].at \in {"first", "watching", "sending"}}

\* A viewer that waits for a frame waits for a source that is published and whose pump
\* will yet end it, or has the end marker in its queue: it is never left at an open,
\* silent socket by a source that is gone.
NobodyLeftBehind ==
    \A v \in Watchers :
        \/ \E i \in DOMAIN backlog[v] : backlog[v][i] = End
        \/ proc # NoProc /\ pump[proc] \in {"reading", "ending"}

\* What the page of v is sent before the i-th item of its queue.
Before(v, i) == IF i = 1 THEN shown[v] ELSE backlog[v][i - 1]

\* A decoder that was just fed frame a can go on with frame b.
Follows(a, b) == IsKey(b) \/ (b.of = a.of /\ b.n = a.n + 1)

\* A decoder can follow what it is sent, up to the end marker: each frame is a key frame, or
\* the one before it of the same ffmpeg came just before it, whatever was dumped, restarted
\* or taken over ("a decoder must join (and rejoin) on a keyframe").
Decodable ==
    \A v \in Watchers : \A i \in DOMAIN backlog[v] :
        (\A j \in 1 .. i : backlog[v][j] # End) => Follows(Before(v, i), backlog[v][i])

\* Nobody is stuck in detach(): the viewer that killed ffmpeg sees its pump end, without the
\* help of the time-out (the comment there: awaiting it with the lock held would be for
\* ever).  An ffmpeg is reaped once, so only a viewer that reaps for ever could fail this.
Reaps == []<>(\A v \in Viewers : viewer[v].at # "reaping")

=============================================================================
