----------------------------- MODULE SerialPort -----------------------------
(***************************************************************************)
(* The serial console of one device.  SerialManager keeps at most one      *)
(* _Port for it; a _Port owns a pyserial handle and a drain task that      *)
(* reads it on a pool thread and fans the chunks out to the attached       *)
(* WebSocket sessions, or keeps a backlog while nobody is attached.        *)
(*                                                                         *)
(* Coroutines run one at a time between their awaits, so a step here is    *)
(* what one of them does from one await to the next.  Work given to the   *)
(* pool goes on by itself: a cancelled coroutine stops waiting for it, it  *)
(* does not stop the thread.                                               *)
(***************************************************************************)
EXTENDS Naturals, Sequences, FiniteSets

CONSTANTS
    Clients,        \* pages that hold a /ws/serial connection or none
    Requests,       \* the API handlers and the autostart loop
    Free,           \* a lock nobody holds
    Drain,          \* the drain task, as a holder of _iolock
    MaxPorts, MaxHandles, MaxChunks,    \* bounds on what is ever made or read
    QueueSize, BufSize                  \* a session's queue, a port's backlog

ASSUME SerialAssumption ==
    /\ {MaxPorts, MaxHandles, MaxChunks, QueueSize, BufSize} \subseteq Nat \ {0}
    /\ Clients \cap Requests = {}
    /\ {Free, Drain} \cap (Clients \cup Requests) = {} /\ Free # Drain

VARIABLES
    registered,     \* SerialManager._ports[device], 0 for no entry
    devLock,        \* SerialManager._locks[device]
    made,           \* how many _Ports have been constructed
    port,           \* the _Ports
    opened,         \* the serial handles that are open
    handles,        \* how many handles have been opened
    call,           \* where each caller of SerialManager.open and close is
    session,        \* where each page's ws_serial is
    queue,          \* its asyncio.Queue
    writer,         \* its writer task, as far as port.write goes
    orphans,        \* handles that an abandoned pool thread still writes to
    chunks,         \* how many chunks the device has sent
    last,           \* the last chunk each page was sent, over all its sessions
    given,          \* the newest chunk that some session was given
    missed          \* the sessions whose queue had no room for the sentinel

vars == <<registered, devLock, made, port, opened, handles, call, session, queue, writer,
          orphans, chunks, last, given, missed>>

Actors == Clients \cup Requests
Ports == 1 .. MaxPorts
Handles == 1 .. MaxHandles
Nowhere == 0        \* no port
Sentinel == 0       \* q.put_nowait(None); a chunk is its number, from 1

\* A port as it is constructed and started, around handle h; and the place of one that has
\* not been made.
NewPort(h) == [drain |-> "starting", stop |-> FALSE, reopen |-> FALSE, reading |-> FALSE,
               io |-> Free, ser |-> h, buf |-> <<>>]
NoPort == [NewPort(0) EXCEPT !.drain = "done", !.stop = TRUE]

Idle == [at |-> "idle", verb |-> "open", port |-> Nowhere]
Away == [at |-> "away", port |-> Nowhere]

Over == {"done", "cancelled"}     \* the drain task is done()
Alive(g) == g # Nowhere /\ port[g].drain \notin Over
Reconnecting(g) == port[g].drain \in {"toClose", "closing", "backoff", "toOpen", "opening"}

\* _subs: a session is in the set exactly while it is attached.
Subs(g) == {c \in Clients : session[c] = [at |-> "attached", port |-> g]}

Init ==
    /\ registered = Nowhere /\ devLock = Free /\ made = 0
    /\ port = [g \in Ports |-> NoPort]
    /\ opened = {} /\ handles = 0
    /\ call = [a \in Actors |-> Idle]
    /\ session = [c \in Clients |-> Away]
    /\ queue = [c \in Clients |-> <<>>]
    /\ writer = [c \in Clients |-> "idle"]
    /\ orphans = {} /\ chunks = 0
    /\ last = [c \in Clients |-> 0]
    /\ given = 0 /\ missed = {}

\* _make_serial: the tty is there and can be opened.
NewHandle ==
    /\ handles < MaxHandles
    /\ handles' = handles + 1 /\ opened' = opened \cup {handles'}

\* clear_buffer, and the buffer's part of subscribe.
Emptied(g) == port' = [port EXCEPT ![g].buf = <<>>]

-----------------------------------------------------------------------------
(* The drain of port g.                                                    *)

\* put_nowait(x) to every subscriber; QueueFull drops it.
Posted(qs, g, x) ==
    [c \in Clients |-> IF c \in Subs(g) /\ Len(qs[c]) < QueueSize THEN Append(qs[c], x) ELSE qs[c]]

\* The drain ends: its `finally' clause.
Ended(p) == [p EXCEPT !.stop = TRUE, !.drain = "done"]

\* The head of the loop, reached with no await from the end of a turn.
Turn(p) ==
    IF p.stop THEN Ended(p)
    ELSE IF p.reopen THEN [p EXCEPT !.reopen = FALSE, !.drain = "toClose"]
    ELSE [p EXCEPT !.drain = "reading", !.reading = TRUE]

\* The drain goes on as p; qs are the queues so far.  When it ends, the sentinel follows.
Continue(g, p, qs) ==
    /\ port' = [port EXCEPT ![g] = p]
    /\ queue' = IF p.drain \in Over THEN Posted(qs, g, Sentinel) ELSE qs
    /\ missed' = IF p.drain \in Over
                 THEN missed \cup {c \in Subs(g) : Len(qs[c]) = QueueSize} ELSE missed

DrainUnchanged == UNCHANGED <<registered, devLock, made, call, session, writer, orphans, last>>

DrainStarts(g) ==
    /\ port[g].drain = "starting"
    /\ Continue(g, Turn(port[g]), queue)
    /\ DrainUnchanged /\ UNCHANGED <<opened, handles, chunks, given>>

\* Slip: the oldest chunks are kept.
TrimmedToOldest(b) == IF Len(b) > BufSize THEN SubSeq(b, 1, BufSize) ELSE b

\* The newest BufSize chunks of the backlog.
Trimmed(b) == IF Len(b) > BufSize THEN SubSeq(b, Len(b) - BufSize + 1, Len(b)) ELSE b

\* Slip: the scrollback also keeps what live clients have received.
ReceivedAndKept(g, x) == [port[g] EXCEPT !.buf = Trimmed(Append(@, x))]

\* What a chunk does to the port: it is kept only while nobody is attached.
Received(g, x) ==
    IF Subs(g) # {} THEN port[g] ELSE [port[g] EXCEPT !.buf = Trimmed(Append(@, x))]

ReadData(g) ==
    /\ port[g].drain = "reading" /\ chunks < MaxChunks
    /\ chunks' = chunks + 1
    /\ given' = IF Subs(g) # {} THEN chunks' ELSE given
    /\ Continue(g, Turn([Received(g, chunks') EXCEPT !.reading = FALSE]),
                Posted(queue, g, chunks'))
    /\ DrainUnchanged /\ UNCHANGED <<opened, handles>>

\* Slip: an empty read is handled like data.
ReadNothingKept(g) ==
    /\ port[g].drain = "reading"
    /\ Continue(g, Turn([port[g] EXCEPT !.reading = FALSE, !.buf = Append(@, 0)]), queue)
    /\ DrainUnchanged /\ UNCHANGED <<opened, handles, chunks, given>>

\* The 0.1 s poll runs out.
ReadNothing(g) ==
    /\ port[g].drain = "reading"
    /\ Continue(g, Turn([port[g] EXCEPT !.reading = FALSE]), queue)
    /\ DrainUnchanged /\ UNCHANGED <<opened, handles, chunks, given>>

\* The device went away.  Any open() may flip _reconnect, which says what follows.
ReadError(g) ==
    /\ port[g].drain = "reading"
    /\ LET p == [port[g] EXCEPT !.reading = FALSE] IN
       \/ Continue(g, [p EXCEPT !.drain = "toClose"], queue)
       \/ Continue(g, Ended(p), queue)
    /\ DrainUnchanged /\ UNCHANGED <<opened, handles, chunks, given>>

\* Slip: _reopen does not take _iolock for the close.
ReopenClosesUnlocked(g) ==
    /\ port[g].drain = "toClose"
    /\ opened' = opened \ {port[g].ser}
    /\ Continue(g, [port[g] EXCEPT !.drain = "closing", !.io = Drain], queue)
    /\ DrainUnchanged /\ UNCHANGED <<handles, chunks, given>>

\* _reopen takes _iolock and has the handle closed, for at most 5 s.
ReopenCloses(g) ==
    /\ port[g].drain = "toClose" /\ port[g].io = Free
    /\ opened' = opened \ {port[g].ser}
    /\ Continue(g, [port[g] EXCEPT !.drain = "closing", !.io = Drain], queue)
    /\ DrainUnchanged /\ UNCHANGED <<handles, chunks, given>>

ReopenClosed(g) ==
    /\ port[g].drain = "closing"
    /\ LET p == [port[g] EXCEPT !.io = Free] IN
       Continue(g, IF p.stop THEN Ended(p) ELSE [p EXCEPT !.drain = "backoff"], queue)
    /\ DrainUnchanged /\ UNCHANGED <<opened, handles, chunks, given>>

\* The wait for _stop: it is set, or the back-off has run out.
ReopenWaited(g) ==
    /\ port[g].drain = "backoff"
    /\ \/ port[g].stop /\ Continue(g, Ended(port[g]), queue)
       \/ ~port[g].stop /\ Continue(g, [port[g] EXCEPT !.drain = "toOpen"], queue)
    /\ DrainUnchanged /\ UNCHANGED <<opened, handles, chunks, given>>

ReopenOpens(g) ==
    /\ port[g].drain = "toOpen" /\ port[g].io = Free
    /\ Continue(g, [port[g] EXCEPT !.drain = "opening", !.io = Drain], queue)
    /\ DrainUnchanged /\ UNCHANGED <<opened, handles, chunks, given>>

ReopenSucceeds(g) ==
    /\ port[g].drain = "opening" /\ NewHandle
    /\ Continue(g, Turn([port[g] EXCEPT !.ser = handles', !.io = Free]), queue)
    /\ DrainUnchanged /\ UNCHANGED <<chunks, given>>

ReopenFails(g) ==
    /\ port[g].drain = "opening"
    /\ LET p == [port[g] EXCEPT !.io = Free] IN
       Continue(g, IF p.stop THEN Ended(p) ELSE [p EXCEPT !.drain = "backoff"], queue)
    /\ DrainUnchanged /\ UNCHANGED <<opened, handles, chunks, given>>

\* A read whose drain was cancelled comes back to nobody.
WedgedReadEnds(g) ==
    /\ port[g].drain = "cancelled" /\ port[g].reading
    /\ port' = [port EXCEPT ![g].reading = FALSE]
    /\ UNCHANGED <<registered, devLock, made, opened, handles, call, session, queue, writer,
                   orphans, chunks, last, given, missed>>

-----------------------------------------------------------------------------
(* SerialManager.open and close, one at a time per device, and _Port.close. *)

\* The caller goes on, with port g or with an error; a session with no port ends.
Answer(a, g) ==
    /\ call' = [call EXCEPT ![a] = Idle]
    /\ session' = [c \in Clients |->
         IF c # a THEN session[c]
         ELSE IF g = Nowhere THEN Away ELSE [at |-> "greeting", port |-> g]]

CallUnchanged == UNCHANGED <<writer, orphans, chunks, last, given>>
QuietCall == CallUnchanged /\ UNCHANGED <<queue, missed>>

\* Slip: open() and close() without the lock of the device.
GetsNoLock(a, verb) ==
    /\ call[a].at = "idle"
    /\ a \in Clients => verb = "open" /\ session[a].at = "opening"

\* The caller gets the lock of the device.  A request waits for it from when it comes in, a
\* session from when get() found no live port; neither does anything while it waits.
GetsLock(a, verb) ==
    /\ devLock = Free /\ call[a].at = "idle"
    /\ a \in Clients => verb = "open" /\ session[a].at = "opening"

\* Already open with the same settings.
OpenReuses(a) ==
    /\ GetsLock(a, "open") /\ Alive(registered)
    /\ Answer(a, registered)
    /\ QuietCall /\ UNCHANGED <<registered, devLock, made, port, opened, handles>>

\* _Port() and start(), or a SerialError; kept is the entry that an error leaves behind.
Construct(a, kept) ==
    \/ /\ made < MaxPorts /\ NewHandle
       /\ made' = made + 1 /\ registered' = made'
       /\ port' = [port EXCEPT ![made'] = NewPort(handles')]
       /\ Answer(a, made')
    \/ /\ registered' = kept
       /\ Answer(a, Nowhere)
       /\ UNCHANGED <<made, handles, opened, port>>

OpenMakes(a) ==
    /\ GetsLock(a, "open") /\ ~Alive(registered)
    /\ Construct(a, registered)
    /\ QuietCall /\ UNCHANGED devLock

\* _Port.close begins: the drain is told to stop and is waited for.
CloseBegins(a, verb, g) ==
    /\ devLock' = a
    /\ port' = [port EXCEPT ![g].stop = TRUE]
    /\ call' = [call EXCEPT ![a] = [at |-> "wait", verb |-> verb, port |-> g]]
    /\ QuietCall /\ UNCHANGED <<made, opened, handles, session>>

\* Other settings, or reopen=True.
OpenReplaces(a) ==
    /\ GetsLock(a, "open") /\ Alive(registered)
    /\ CloseBegins(a, "open", registered)
    /\ UNCHANGED registered

CloseTakes(a) ==
    /\ GetsLock(a, "close") /\ registered # Nowhere
    /\ registered' = Nowhere
    /\ CloseBegins(a, "close", registered)

CloseFindsNone(a) ==
    /\ GetsLock(a, "close") /\ registered = Nowhere
    /\ Answer(a, Nowhere)
    /\ QuietCall /\ UNCHANGED <<registered, devLock, made, port, opened, handles>>

\* wait_for(t, 2.0) returns.
DrainAwaited(a) ==
    /\ call[a].at = "wait" /\ port[call[a].port].drain = "done"
    /\ call' = [call EXCEPT ![a].at = "handle"]
    /\ QuietCall
    /\ UNCHANGED <<registered, devLock, made, port, opened, handles, session>>

\* Slip: close() swallows the CancelledError of the drain and closes the handle.
CloseGoesOn(a) ==
    /\ call' = [call EXCEPT ![a].at = "handle"]
    /\ CallUnchanged /\ UNCHANGED <<registered, devLock, made, opened, handles, session>>

\* The CancelledError of the drain is not an Exception: it ends the close and its caller,
\* and the handle stays as it is.
CloseAborts(a) ==
    /\ devLock' = Free
    /\ Answer(a, Nowhere)
    /\ CallUnchanged /\ UNCHANGED <<registered, made, opened, handles>>

\* The drain was cancelled by an earlier close.
CancelledAwaited(a) ==
    /\ call[a].at = "wait" /\ port[call[a].port].drain = "cancelled"
    /\ CloseAborts(a)
    /\ UNCHANGED <<port, queue, missed>>

\* 2 s pass while the drain is stuck in the pool or behind a write: it is cancelled.  The
\* back-off and a task that has yet to start do not last that long.
DrainTimesOut(a) ==
    LET g == call[a].port IN
    /\ call[a].at = "wait" /\ Alive(g) /\ port[g].drain \notin {"starting", "backoff"}
    /\ Continue(g, [port[g] EXCEPT !.drain = "cancelled", !.io = IF @ = Drain THEN Free ELSE @],
                queue)
    /\ CloseAborts(a)

\* _close_handle: the final close waits for _iolock.
HandleClosed(a) ==
    LET g == call[a].port IN
    /\ call[a].at = "handle" /\ port[g].io = Free
    /\ call' = [call EXCEPT ![a].at = "closed"]
    /\ opened' = opened \ {port[g].ser}
    /\ QuietCall /\ UNCHANGED <<registered, devLock, made, port, handles, session>>

\* wait_for(self._close_handle(), 3.0) gives up behind a write.
HandleAbandoned(a) ==
    /\ call[a].at = "handle" /\ port[call[a].port].io # Free
    /\ call' = [call EXCEPT ![a].at = "closed"]
    /\ QuietCall
    /\ UNCHANGED <<registered, devLock, made, port, opened, handles, session>>

CallReturns(a) ==
    /\ call[a].at = "closed"
    /\ devLock' = Free
    /\ \/ call[a].verb = "open" /\ Construct(a, Nowhere)
       \/ /\ call[a].verb = "close" /\ Answer(a, Nowhere)
          /\ UNCHANGED <<registered, made, port, opened, handles>>
    /\ QuietCall

-----------------------------------------------------------------------------
(* A /ws/serial session of page c.                                         *)

SessionUnchanged == UNCHANGED <<registered, devLock, made, opened, handles, chunks>>

\* get(), and open() when it finds no live port.
Connect(c) ==
    /\ session[c] = Away
    /\ \/ /\ Alive(registered)
          /\ session' = [session EXCEPT ![c] = [at |-> "greeting", port |-> registered]]
       \/ ~Alive(registered) /\ session' = [session EXCEPT ![c].at = "opening"]
    /\ SessionUnchanged /\ UNCHANGED <<port, call, queue, writer, orphans, last, given, missed>>

\* The greeting has been sent: subscribe() takes the backlog.
Subscribed(c) ==
    LET g == session[c].port  b == port[g].buf IN
    /\ Emptied(g)
    /\ IF b = <<>> THEN UNCHANGED <<last, given>>
       ELSE last' = [last EXCEPT ![c] = b[Len(b)]] /\ given' = b[Len(b)]

\* Slip: the port is not looked at again after subscribe().
AttachUnasked(c) ==
    /\ session[c].at = "greeting"
    /\ session' = [session EXCEPT ![c].at = "attached"]
    /\ Subscribed(c)
    /\ missed' = missed \ {c}
    /\ SessionUnchanged /\ UNCHANGED <<call, queue, writer, orphans>>

Attach(c) ==
    /\ session[c].at = "greeting" /\ Alive(session[c].port)
    /\ session' = [session EXCEPT ![c].at = "attached"]
    /\ Subscribed(c)
    /\ missed' = missed \ {c}
    /\ SessionUnchanged /\ UNCHANGED <<call, queue, writer, orphans>>

\* The port was closed meanwhile: its last sentinel went out before.
AttachTooLate(c) ==
    /\ session[c].at = "greeting" /\ ~Alive(session[c].port)
    /\ session' = [session EXCEPT ![c] = Away]
    /\ Emptied(session[c].port)
    /\ SessionUnchanged /\ UNCHANGED <<call, queue, writer, orphans, last, given, missed>>

ReaderSends(c) ==
    /\ session[c].at = "attached" /\ queue[c] # <<>> /\ Head(queue[c]) # Sentinel
    /\ last' = [last EXCEPT ![c] = Head(queue[c])]
    /\ queue' = [queue EXCEPT ![c] = Tail(@)]
    /\ SessionUnchanged /\ UNCHANGED <<port, call, session, writer, orphans, given, missed>>

\* Both tasks are cancelled and the session unsubscribes.  A write that was being awaited
\* lets go of _iolock; its pool thread goes on.
Leave(c) ==
    LET g == session[c].port IN
    /\ session' = [session EXCEPT ![c] = Away]
    /\ queue' = [queue EXCEPT ![c] = <<>>]
    /\ writer' = [writer EXCEPT ![c] = "idle"]
    /\ IF writer[c] = "writing"
       THEN /\ port' = [port EXCEPT ![g].io = Free]
            /\ orphans' = orphans \cup {port[g].ser}
       ELSE UNCHANGED <<port, orphans>>
    /\ missed' = missed \ {c}
    /\ SessionUnchanged /\ UNCHANGED <<call, last, given>>

\* The reader meets the sentinel, or a chunk it cannot send; the writer sees the
\* disconnect, when it is not in the middle of a write.
PortClosedSeen(c) ==
    /\ session[c].at = "attached" /\ queue[c] # <<>> /\ Head(queue[c]) = Sentinel
    /\ Leave(c)

Disconnected(c) ==
    /\ session[c].at = "attached" /\ (queue[c] # <<>> \/ writer[c] = "idle")
    /\ Leave(c)

WriteUnchanged == SessionUnchanged /\ UNCHANGED <<call, session, queue, last, given, missed>>

\* _iolock is free: a write goes to the pool, or fails at once on a closed handle.
WriteStarts(c) ==
    LET g == session[c].port IN
    /\ session[c].at = "attached" /\ writer[c] = "idle"
    /\ port[g].io = Free /\ port[g].ser \in opened
    /\ writer' = [writer EXCEPT ![c] = "writing"]
    /\ port' = [port EXCEPT ![g].io = c]
    /\ WriteUnchanged /\ UNCHANGED orphans

WriteEnds(c) ==
    /\ writer[c] = "writing"
    /\ writer' = [writer EXCEPT ![c] = "idle"]
    /\ port' = [port EXCEPT ![session[c].port].io = Free]
    /\ WriteUnchanged /\ UNCHANGED orphans

OrphanEnds(h) ==
    /\ h \in orphans
    /\ orphans' = orphans \ {h}
    /\ WriteUnchanged /\ UNCHANGED <<port, writer>>

-----------------------------------------------------------------------------
(* The other calls on the registered port, none of which waits.            *)

Clear ==
    /\ Alive(registered)
    /\ Emptied(registered)
    /\ WriteUnchanged /\ UNCHANGED <<writer, orphans>>

\* The poller saw the host configure the gadget.
ReopenGadgetPorts ==
    /\ Alive(registered) /\ ~Reconnecting(registered)
    /\ port' = [port EXCEPT ![registered].reopen = TRUE]
    /\ WriteUnchanged /\ UNCHANGED <<writer, orphans>>

DrainStep(g) ==
    \/ DrainStarts(g) \/ ReadData(g) \/ ReadNothing(g) \/ ReadError(g)
    \/ ReopenCloses(g) \/ ReopenClosed(g) \/ ReopenWaited(g)
    \/ ReopenOpens(g) \/ ReopenSucceeds(g) \/ ReopenFails(g)

CallStep(a) ==
    \/ OpenReuses(a) \/ OpenMakes(a) \/ OpenReplaces(a)
    \/ CloseTakes(a) \/ CloseFindsNone(a)
    \/ DrainAwaited(a) \/ CancelledAwaited(a) \/ DrainTimesOut(a)
    \/ HandleClosed(a) \/ HandleAbandoned(a) \/ CallReturns(a)

ReaderStep(c) == ReaderSends(c) \/ PortClosedSeen(c)

SessionStep(c) ==
    \/ Connect(c) \/ Attach(c) \/ AttachTooLate(c) \/ Disconnected(c)
    \/ WriteStarts(c) \/ WriteEnds(c)

Next ==
    \/ \E g \in Ports : DrainStep(g) \/ WedgedReadEnds(g)
    \/ \E a \in Actors : CallStep(a)
    \/ \E c \in Clients : SessionStep(c) \/ ReaderStep(c)
    \/ \E h \in Handles : OrphanEnds(h)
    \/ Clear \/ ReopenGadgetPorts

Spec == Init /\ [][Next]_vars

-----------------------------------------------------------------------------
(* Properties.                                                             *)

Chunk == 1 .. MaxChunks

TypeOK ==
    /\ registered \in 0 .. MaxPorts /\ made \in 0 .. MaxPorts
    /\ devLock \in Actors \cup {Free}
    /\ port \in [Ports -> [drain : {"starting", "reading", "toClose", "closing", "backoff",
                                    "toOpen", "opening"} \cup Over,
                           stop : BOOLEAN, reopen : BOOLEAN, reading : BOOLEAN,
                           io : Clients \cup {Free, Drain},
                           ser : 0 .. MaxHandles, buf : Seq(Chunk)]]
    /\ opened \subseteq Handles /\ handles \in 0 .. MaxHandles /\ orphans \subseteq Handles
    /\ call \in [Actors -> [at : {"idle", "wait", "handle", "closed"},
                            verb : {"open", "close"}, port : 0 .. MaxPorts]]
    /\ session \in [Clients -> [at : {"away", "opening", "greeting", "attached"},
                                port : 0 .. MaxPorts]]
    /\ queue \in [Clients -> Seq(Chunk \cup {Sentinel})]
    /\ writer \in [Clients -> {"idle", "writing"}]
    /\ chunks \in 0 .. MaxChunks /\ given \in 0 .. MaxChunks
    /\ last \in [Clients -> 0 .. MaxChunks] /\ missed \subseteq Clients

\* Where the chunks are in a queue: what its page has yet to be sent.
Waiting(c) == {i \in DOMAIN queue[c] : queue[c][i] # Sentinel}

\* No chunk is shown twice: what a session has yet to send is newer than all its page was
\* sent before, and a live backlog is newer than all that any session was given
\* (_drain and subscribe, over every reconnection).
ShownOnce ==
    /\ \A c \in Clients : \A i \in Waiting(c) :
         /\ queue[c][i] > last[c]
         /\ \A j \in Waiting(c) : i < j => queue[c][i] < queue[c][j]
    /\ \A g \in Ports : Alive(g) => \A i \in DOMAIN port[g].buf : port[g].buf[i] > given

\* What a detached port keeps is the end of what it received: no more than the buffer
\* holds, without a gap, up to the last chunk (_drain, the ring buffer).
BacklogIsTheTail ==
    \A g \in Ports :
        LET b == port[g].buf IN
        Alive(g) /\ b # <<>> =>
            /\ Len(b) <= BufSize
            /\ \A i \in DOMAIN b : b[i] = b[1] + i - 1
            /\ Subs(g) = {} /\ b[Len(b)] = chunks

\* A drain that runs belongs to the registered port or to one that is being closed: there
\* is no second reader on the tty and none that nobody can reach (_lock_for).
OneDrain ==
    \A g, h \in Ports : Alive(g) =>
        /\ Alive(h) => g = h
        /\ g = registered \/ \E a \in Actors : call[a].at = "wait" /\ call[a].port = g

\* No handle is closed under a pool thread that reads it, not even by a close that ran
\* out of patience (close and _reopen).
ReadKeepsHandle == \A g \in Ports : port[g].reading => port[g].ser \in opened

\* A write that its session still waits for keeps the handle it began on (_iolock).
AwaitedWriteKeepsHandle ==
    \A c \in Clients : writer[c] = "writing" =>
        /\ port[session[c].port].io = c
        /\ port[session[c].port].ser \in opened

\* A session of a dead port has the sentinel in front of it, unless its queue was full
\* when the drain ended; one that comes later finds out by itself (_drain, ws_serial).
DeathIsAnnounced ==
    \A c \in Clients : session[c].at = "attached" /\ ~Alive(session[c].port) =>
        c \in missed \/ \E i \in DOMAIN queue[c] : queue[c][i] = Sentinel

\* No pool thread uses a handle that the event loop closes or has closed, whoever awaits
\* the write (the comment on _iolock).
NoCloseUnderWrite ==
    /\ orphans \subseteq opened
    /\ \A c \in Clients : writer[c] = "writing" => port[session[c].port].ser \in opened
=============================================================================
