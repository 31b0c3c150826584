------------------------------ MODULE VideoTap ------------------------------
(***************************************************************************)
(* One MJPEG viewer and its tap (_MJPEGTap): a pump task that keeps the    *)
(* newest complete part of the streamer's output, and the viewer's         *)
(* handler, either the plain relay (/stream) or the one the client paces   *)
(* (/ws/video), that takes it whenever the viewer is ready.  A part is its *)
(* number.                                                                 *)
(***************************************************************************)
EXTENDS Naturals

CONSTANT
    MaxParts        \* bound: parts the streamer sends on one connection

ASSUME TapAssumption == MaxParts \in Nat \ {0}

VARIABLES
    handler,    \* where the viewer's handler is
    transport,  \* "relay" or "paced"
    pumping,    \* the pump task runs
    part,       \* parts received on this connection
    latest,     \* the newest one not taken, 0 for None
    fresh, done,    \* the two asyncio.Events
    inFlight    \* the part taken for the viewer

tapVars == <<handler, transport, pumping, part, latest, fresh, done, inFlight>>
tap == <<pumping, part, latest, fresh, done>>

TapInit ==
    /\ handler = "away" /\ transport \in {"relay", "paced"}
    /\ pumping = FALSE /\ part = 0 /\ latest = 0 /\ fresh = FALSE /\ done = FALSE
    /\ inFlight = 0

-----------------------------------------------------------------------------

\* open() reaches the streamer and starts the pump; when it does not, the request ends
\* there and leaves nothing.
OpenTap ==
    /\ handler = "away"
    /\ handler' = "taking"
    /\ pumping' = TRUE /\ part' = 0 /\ latest' = 0 /\ fresh' = FALSE /\ done' = FALSE
    /\ UNCHANGED <<transport, inFlight>>

\* Slip: a part that has not been taken keeps its place.
PumpKeepsUnsent ==
    /\ pumping /\ part < MaxParts
    /\ part' = part + 1
    /\ latest' = IF latest = 0 THEN part' ELSE latest
    /\ fresh' = TRUE
    /\ UNCHANGED <<handler, transport, pumping, done, inFlight>>

\* One more complete part: it replaces any that was not taken.
PumpReceives ==
    /\ pumping /\ part < MaxParts
    /\ part' = part + 1 /\ latest' = part'
    /\ fresh' = TRUE
    /\ UNCHANGED <<handler, transport, pumping, done, inFlight>>

\* The streamer has ended: whoever waits is woken.
StreamerEnds ==
    /\ pumping
    /\ pumping' = FALSE /\ done' = TRUE /\ fresh' = TRUE
    /\ UNCHANGED <<handler, transport, part, latest, inFlight>>

\* Slip: the event is cleared before it is waited for.
TakeClearsFirst ==
    /\ handler = "taking"
    /\ handler' = IF done THEN "closing" ELSE "waiting"
    /\ fresh' = FALSE
    /\ UNCHANGED <<transport, pumping, part, latest, done, inFlight>>

\* take() at the head of its loop: it ends with the stream, or waits for a part.
TakeBegins ==
    /\ handler = "taking"
    /\ handler' = IF done THEN "closing" ELSE "waiting"
    /\ UNCHANGED <<transport, tap, inFlight>>

\* The event is set: cleared, and the newest part taken; without one, another round.  On a
\* slow link the paced handler has it re-encoded first.
TakeWakes ==
    /\ handler = "waiting" /\ fresh
    /\ fresh' = FALSE /\ latest' = 0
    /\ inFlight' = latest
    /\ \/ latest = 0 /\ handler' = "taking"
       \/ latest # 0 /\ handler' = "sending"
       \/ latest # 0 /\ transport = "paced" /\ handler' = "encoding"
    /\ UNCHANGED <<transport, pumping, part, done>>

\* The pool has re-encoded the part; the pump may have received others meanwhile.
Encoded ==
    /\ handler = "encoding"
    /\ handler' = "sending"
    /\ UNCHANGED <<transport, tap, inFlight>>

\* The relay goes on when the socket has taken the part ...
RelaySends ==
    /\ handler = "sending" /\ transport = "relay"
    /\ handler' = "taking" /\ inFlight' = 0
    /\ UNCHANGED <<transport, tap>>

\* ... and the paced handler when the viewer has answered.
Acknowledged ==
    /\ handler = "sending" /\ transport = "paced"
    /\ handler' = "taking" /\ inFlight' = 0
    /\ UNCHANGED <<transport, tap>>

\* The viewer is gone.  The paced handler finds out when it sends or waits for the answer;
\* the relay is also cancelled while it waits for a part.
ViewerGone ==
    /\ handler = "sending" \/ (handler = "waiting" /\ transport = "relay")
    /\ handler' = "closing" /\ inFlight' = 0
    /\ UNCHANGED <<transport, tap>>

\* close(): the pump is cancelled, if it still runs, and its finally sets both events.
CloseTap ==
    /\ handler = "closing"
    /\ handler' = "away"
    /\ pumping' = FALSE /\ done' = TRUE /\ fresh' = TRUE
    /\ UNCHANGED <<transport, part, latest, inFlight>>

-----------------------------------------------------------------------------

TakeSteps == TakeBegins \/ TakeWakes \/ CloseTap

TapNext ==
    \/ OpenTap \/ PumpReceives \/ StreamerEnds
    \/ TakeSteps
    \/ Encoded \/ RelaySends \/ Acknowledged \/ ViewerGone

\* The loop runs the handler; streamer, viewer and network owe nothing.
TapFairness == WF_tapVars(TakeSteps)

TapSpec == TapInit /\ [][TapNext]_tapVars /\ TapFairness

-----------------------------------------------------------------------------

\* A slow viewer gets fewer frames, never a backlog: what is taken for it is always the
\* newest part there is at that moment ("a lower frame RATE, never a growing frame QUEUE").
\* Re-encoding may let that part age by one pass of the pool before it is sent.
SendsTheNewest ==
    [][handler = "waiting" /\ handler' \in {"encoding", "sending"} => inFlight' = part]_tapVars

\* No wake-up is lost: a handler that waits when a part or the end of the stream has come, or
\* came while it was sending, goes on.  (A part the stream ends on may still go unsent: the
\* handler looks at the end first.)
TapWakes == (handler = "waiting" /\ (latest # 0 \/ done)) ~> handler # "waiting"

=============================================================================
