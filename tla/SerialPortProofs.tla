-------------------------- MODULE SerialPortProofs --------------------------
(***************************************************************************)
(* The serial port for any number of pages, callers, ports and chunks:     *)
(* its type, that the lock of the device leaves one drain at a time, that  *)
(* neither a read nor a write that is awaited loses its handle, and that   *)
(* pages are shown each chunk once, in order, and learn that a port ended. *)
(***************************************************************************)
EXTENDS SerialPort, SequenceTheorems, TLAPS

Drains == {"starting", "reading", "toClose", "closing", "backoff", "toOpen", "opening"} \cup Over

PortRecord == [drain : Drains, stop : BOOLEAN, reopen : BOOLEAN, reading : BOOLEAN,
               io : Clients \cup {Free, Drain}, ser : 0 .. MaxHandles, buf : Seq(Chunk)]

Queues == [Clients -> Seq(Chunk \cup {Sentinel})]

\* The part of the type that the drains change.
PortsOK == port \in [Ports -> PortRecord] /\ queue \in Queues /\ missed \subseteq Clients

-----------------------------------------------------------------------------
(* Lemmas about the operators of the drain.                                *)

\* The head of the loop makes a port of a port.
LEMMA TurnType == ASSUME NEW p \in PortRecord PROVE Turn(p) \in PortRecord
<1>1. Ended(p) \in PortRecord
  BY DEF Ended, PortRecord, Drains, Over
<1>2. [p EXCEPT !.reopen = FALSE, !.drain = "toClose"] \in PortRecord
  BY DEF PortRecord, Drains, Over
<1>3. [p EXCEPT !.drain = "reading", !.reading = TRUE] \in PortRecord
  BY DEF PortRecord, Drains, Over
<1> QED BY <1>1, <1>2, <1>3 DEF Turn

\* Trimming a backlog leaves a backlog.
LEMMA TrimmedType == ASSUME NEW b \in Seq(Chunk) PROVE Trimmed(b) \in Seq(Chunk)
<1>1. CASE ~(Len(b) > BufSize)
  BY <1>1 DEF Trimmed
<1>2. CASE Len(b) > BufSize
  <2>1. Len(b) \in Nat /\ BufSize \in Nat \ {0}
    BY SerialAssumption
  <2>2. SubSeq(b, Len(b) - BufSize + 1, Len(b)) \in Seq(Chunk)
    BY <1>2, <2>1, SubSeqProperties
  <2> QED BY <1>2, <2>2 DEF Trimmed
<1> QED BY <1>1, <1>2

\* A post leaves queues.
LEMMA PostedType ==
  ASSUME NEW qs \in Queues, NEW g, NEW x \in Chunk \cup {Sentinel}
  PROVE  Posted(qs, g, x) \in Queues
<1>1. \A c \in Clients : Append(qs[c], x) \in Seq(Chunk \cup {Sentinel})
  BY DEF Queues
<1> QED BY <1>1 DEF Posted, Queues

\* What Continue does to the ports: g goes on as p, the others stay.
LEMMA ContinueType ==
  ASSUME PortsOK, NEW g \in Ports, NEW p \in PortRecord, NEW qs \in Queues, Continue(g, p, qs)
  PROVE  /\ PortsOK'
         /\ port' = [port EXCEPT ![g] = p]
<1>1. port' = [port EXCEPT ![g] = p]
  BY DEF Continue
<1>2. port' \in [Ports -> PortRecord]
  BY <1>1 DEF PortsOK
<1>3. Posted(qs, g, Sentinel) \in Queues
  BY PostedType
<1>4. queue' \in Queues
  BY <1>3 DEF Continue
<1>5. missed' \subseteq Clients
  BY DEF Continue, PortsOK, Subs
<1> QED BY <1>1, <1>2, <1>4, <1>5 DEF PortsOK

-----------------------------------------------------------------------------
(* Type correctness.                                                       *)

CallRecord == [at : {"idle", "wait", "handle", "closed"}, verb : {"open", "close"},
               port : 0 .. MaxPorts]
SessionRecord == [at : {"away", "opening", "greeting", "attached"}, port : 0 .. MaxPorts]

\* What the drains leave alone, and what they count.
CallsOK ==
    /\ registered \in 0 .. MaxPorts /\ made \in 0 .. MaxPorts
    /\ devLock \in Actors \cup {Free}
    /\ call \in [Actors -> CallRecord] /\ session \in [Clients -> SessionRecord]
    /\ writer \in [Clients -> {"idle", "writing"}] /\ orphans \subseteq Handles
    /\ last \in [Clients -> 0 .. MaxChunks]

CountsOK ==
    /\ opened \subseteq Handles /\ handles \in 0 .. MaxHandles
    /\ chunks \in 0 .. MaxChunks /\ given \in 0 .. MaxChunks

\* The type invariant in three parts, before and after a step.
LEMMA TypeParts ==
    /\ TypeOK <=> PortsOK /\ CallsOK /\ CountsOK
    /\ TypeOK' <=> PortsOK' /\ CallsOK' /\ CountsOK'
BY DEF TypeOK, PortsOK, CallsOK, CountsOK, PortRecord, Drains, Queues, CallRecord, SessionRecord

\* A new port is a port.
LEMMA NewPortType == ASSUME NEW h \in 0 .. MaxHandles PROVE NewPort(h) \in PortRecord
<1>1. <<>> \in Seq(Chunk)
  OBVIOUS
<1> QED BY <1>1 DEF NewPort, PortRecord, Drains

\* The type holds initially.
LEMMA InitType == Init => TypeOK
<1> SUFFICES ASSUME Init PROVE PortsOK /\ CallsOK /\ CountsOK
  BY TypeParts
<1>1. NoPort \in PortRecord
  <2>1. NewPort(0) \in PortRecord
    BY SerialAssumption, NewPortType
  <2> QED BY <2>1 DEF NoPort, PortRecord, Drains, Over
<1>2. PortsOK
  BY <1>1 DEF Init, PortsOK, Queues
<1>3. CallsOK
  BY SerialAssumption DEF Init, CallsOK, Idle, Away, CallRecord, SessionRecord, Nowhere, Handles
<1>4. CountsOK
  BY SerialAssumption DEF Init, CountsOK, Handles
<1> QED BY <1>2, <1>3, <1>4

\* A handle that is opened is a handle.
LEMMA NewHandleType ==
  ASSUME CountsOK, NewHandle
  PROVE  handles' \in 0 .. MaxHandles /\ opened' \subseteq Handles
BY SerialAssumption DEF CountsOK, NewHandle, Handles

\* A chunk that comes in leaves a port, with the same handle and lock.
LEMMA ReceivedType ==
  ASSUME PortsOK, NEW g \in Ports, NEW x \in Chunk
  PROVE  /\ Received(g, x) \in PortRecord
         /\ Received(g, x).ser = port[g].ser /\ Received(g, x).io = port[g].io
<1>0. port[g] \in PortRecord
  BY DEF PortsOK
<1>1. port[g].buf \in Seq(Chunk)
  BY <1>0 DEF PortRecord
<1>2. Append(port[g].buf, x) \in Seq(Chunk)
  BY <1>1
<1>3. Trimmed(Append(port[g].buf, x)) \in Seq(Chunk)
  BY <1>2, TrimmedType
<1> QED BY <1>3, <1>0 DEF Received, PortRecord

\* A drain keeps the type, in every one of its steps.
LEMMA DrainType ==
  ASSUME TypeOK, NEW g \in Ports, DrainStep(g)
  PROVE  TypeOK'
<1> USE DEF Ports
<1>0. PortsOK /\ CallsOK /\ CountsOK /\ port[g] \in PortRecord /\ queue \in Queues
  BY TypeParts DEF PortsOK
<1>1. SUFFICES PortsOK' /\ CountsOK'
  <2>1. CallsOK'
    BY <1>0 DEF CallsOK, DrainStep, DrainUnchanged, DrainStarts, ReadData, ReadNothing, ReadError,
       ReopenCloses, ReopenClosed, ReopenWaited, ReopenOpens, ReopenSucceeds, ReopenFails
  <2> QED BY <2>1, TypeParts
<1>2. [port[g] EXCEPT !.reading = FALSE] \in PortRecord
  BY <1>0 DEF PortRecord
<1>3. ASSUME NEW p \in PortRecord PROVE Ended(p) \in PortRecord
  BY DEF Ended, PortRecord, Drains, Over
<1>4. [port[g] EXCEPT !.io = Free] \in PortRecord
  BY <1>0 DEF PortRecord
<1>5. ASSUME NEW p \in PortRecord, NEW d \in Drains PROVE [p EXCEPT !.drain = d] \in PortRecord
  BY DEF PortRecord
<1>6. {"toClose", "closing", "backoff", "toOpen", "opening"} \subseteq Drains
  BY DEF Drains
<1>7. ASSUME NEW d \in Drains
      PROVE [port[g] EXCEPT !.drain = d, !.io = Drain] \in PortRecord
  BY <1>0 DEF PortRecord
<1>8. CASE DrainStarts(g)
  <2>1. PortsOK'
    BY <1>0, <1>8, TurnType, ContinueType DEF DrainStarts
  <2> QED BY <2>1, <1>0, <1>8 DEF DrainStarts, CountsOK
<1>9. CASE ReadData(g)
  <2>1. chunks' \in Chunk
    BY <1>0, <1>9, SerialAssumption DEF ReadData, CountsOK, Chunk
  <2>2. Received(g, chunks') \in PortRecord
    BY <1>0, <2>1, ReceivedType
  <2>3. [Received(g, chunks') EXCEPT !.reading = FALSE] \in PortRecord
    BY <2>2 DEF PortRecord
  <2>4. Posted(queue, g, chunks') \in Queues
    BY <2>1, <1>0, PostedType
  <2>5. PortsOK'
    BY <1>0, <1>9, <2>3, <2>4, TurnType, ContinueType DEF ReadData
  <2>6. CountsOK'
    BY <1>0, <1>9, <2>1 DEF ReadData, CountsOK, Chunk
  <2> QED BY <2>5, <2>6
<1>10. CASE ReadNothing(g)
  <2>1. PortsOK'
    BY <1>0, <1>2, <1>10, TurnType, ContinueType DEF ReadNothing
  <2> QED BY <2>1, <1>0, <1>10 DEF ReadNothing, CountsOK
<1>11. CASE ReadError(g)
  <2> DEFINE p == [port[g] EXCEPT !.reading = FALSE]
  <2>1. Ended(p) \in PortRecord /\ [p EXCEPT !.drain = "toClose"] \in PortRecord
    BY <1>2, <1>3, <1>5, <1>6
  <2>2. Continue(g, Ended(p), queue) \/ Continue(g, [p EXCEPT !.drain = "toClose"], queue)
    BY <1>11 DEF ReadError
  <2> HIDE DEF p
  <2>3. PortsOK'
    BY <1>0, <2>1, <2>2, ContinueType
  <2> QED BY <2>3, <1>0, <1>11 DEF ReadError, CountsOK
<1>12. CASE ReopenCloses(g)
  <2>1. PortsOK'
    BY <1>0, <1>6, <1>7, <1>12, ContinueType DEF ReopenCloses
  <2> QED BY <2>1, <1>0, <1>12 DEF ReopenCloses, CountsOK
<1>13. CASE ReopenClosed(g) \/ ReopenFails(g)
  <2> DEFINE p == [port[g] EXCEPT !.io = Free]
  <2>1. Ended(p) \in PortRecord /\ [p EXCEPT !.drain = "backoff"] \in PortRecord
    BY <1>3, <1>4, <1>5, <1>6
  <2>2. Continue(g, IF p.stop THEN Ended(p) ELSE [p EXCEPT !.drain = "backoff"], queue)
    BY <1>13 DEF ReopenClosed, ReopenFails
  <2> HIDE DEF p
  <2>3. PortsOK'
    BY <1>0, <2>1, <2>2, ContinueType
  <2> QED BY <2>3, <1>0, <1>13 DEF ReopenClosed, ReopenFails, CountsOK
<1>14. CASE ReopenWaited(g)
  <2>1. \/ Continue(g, Ended(port[g]), queue)
        \/ Continue(g, [port[g] EXCEPT !.drain = "toOpen"], queue)
    BY <1>14 DEF ReopenWaited
  <2>2. PortsOK'
    BY <1>0, <1>3, <1>5, <1>6, <2>1, ContinueType
  <2> QED BY <2>2, <1>0, <1>14 DEF ReopenWaited, CountsOK
<1>15. CASE ReopenOpens(g)
  <2>1. PortsOK'
    BY <1>0, <1>6, <1>7, <1>15, ContinueType DEF ReopenOpens
  <2> QED BY <2>1, <1>0, <1>15 DEF ReopenOpens, CountsOK
<1>16. CASE ReopenSucceeds(g)
  <2>1. handles' \in 0 .. MaxHandles /\ opened' \subseteq Handles
    BY <1>0, <1>16, NewHandleType DEF ReopenSucceeds
  <2>2. [port[g] EXCEPT !.ser = handles', !.io = Free] \in PortRecord
    BY <1>0, <2>1 DEF PortRecord
  <2>3. PortsOK'
    BY <1>0, <1>16, <2>2, TurnType, ContinueType DEF ReopenSucceeds
  <2> QED BY <2>1, <2>3, <1>0, <1>16 DEF ReopenSucceeds, CountsOK
<1> QED BY <1>8, <1>9, <1>10, <1>11, <1>12, <1>13, <1>14, <1>15, <1>16 DEF DrainStep

\* A live port is one of the ports.
LEMMA AlivePort == ASSUME NEW g \in 0 .. MaxPorts, Alive(g) PROVE g \in Ports
BY SerialAssumption DEF Alive, Ports, Nowhere

\* An answer keeps the type of calls and sessions.
LEMMA AnswerType ==
  ASSUME CallsOK, NEW a \in Actors, NEW g \in 0 .. MaxPorts, Answer(a, g)
  PROVE  call' \in [Actors -> CallRecord] /\ session' \in [Clients -> SessionRecord]
<1>1. Idle \in CallRecord /\ Away \in SessionRecord
  BY SerialAssumption DEF Idle, CallRecord, Away, SessionRecord, Nowhere
<1>2. [at |-> "greeting", port |-> g] \in SessionRecord
  BY DEF SessionRecord
<1> QED BY <1>1, <1>2 DEF Answer, CallsOK

\* A construction keeps the type of all that it changes.
LEMMA ConstructType ==
  ASSUME TypeOK, NEW a \in Actors, NEW kept \in 0 .. MaxPorts, Construct(a, kept)
  PROVE  /\ registered' \in 0 .. MaxPorts /\ made' \in 0 .. MaxPorts
         /\ handles' \in 0 .. MaxHandles /\ opened' \subseteq Handles
         /\ port' \in [Ports -> PortRecord]
         /\ call' \in [Actors -> CallRecord] /\ session' \in [Clients -> SessionRecord]
<1>0. PortsOK /\ CallsOK /\ CountsOK
  BY TypeParts
<1>1. CASE made < MaxPorts /\ NewHandle /\ made' = made + 1 /\ registered' = made'
           /\ port' = [port EXCEPT ![made'] = NewPort(handles')] /\ Answer(a, made')
  <2>1. made' \in 0 .. MaxPorts /\ registered' \in 0 .. MaxPorts
    BY <1>0, <1>1, SerialAssumption DEF CallsOK
  <2>2. handles' \in 0 .. MaxHandles /\ opened' \subseteq Handles
    BY <1>0, <1>1, NewHandleType
  <2>3. port' \in [Ports -> PortRecord]
    BY <1>0, <1>1, <2>2, NewPortType DEF PortsOK
  <2> QED BY <1>0, <1>1, <2>1, <2>2, <2>3, AnswerType
<1>2. CASE registered' = kept /\ Answer(a, Nowhere) /\ UNCHANGED <<made, handles, opened, port>>
  <2>1. Nowhere \in 0 .. MaxPorts
    BY SerialAssumption DEF Nowhere
  <2> QED BY <1>0, <1>2, <2>1, AnswerType DEF PortsOK, CallsOK, CountsOK
<1> QED BY <1>1, <1>2 DEF Construct

\* So does the beginning of a close.
LEMMA CloseBeginsType ==
  ASSUME TypeOK, NEW a \in Actors, NEW verb \in {"open", "close"}, NEW g \in Ports,
         CloseBegins(a, verb, g)
  PROVE  /\ PortsOK' /\ CountsOK' /\ devLock' \in Actors \cup {Free}
         /\ call' \in [Actors -> CallRecord] /\ session' \in [Clients -> SessionRecord]
         /\ UNCHANGED <<made, writer, orphans, last>>
<1>0. PortsOK /\ CallsOK /\ CountsOK
  BY TypeParts
<1>1. port' \in [Ports -> PortRecord]
  BY <1>0 DEF PortsOK, CloseBegins, PortRecord
<1>2. [at |-> "wait", verb |-> verb, port |-> g] \in CallRecord
  BY DEF CallRecord, Ports
<1>3. call' \in [Actors -> CallRecord]
  BY <1>0, <1>2 DEF CloseBegins, CallsOK
<1> QED BY <1>0, <1>1, <1>3 DEF CloseBegins, QuietCall, CallUnchanged, PortsOK, CountsOK, CallsOK

\* A caller keeps the type, in every one of its steps.
LEMMA CallType ==
  ASSUME TypeOK, NEW a \in Actors, CallStep(a)
  PROVE  TypeOK'
<1>0. PortsOK /\ CallsOK /\ CountsOK
  BY TypeParts
<1> SUFFICES PortsOK' /\ CallsOK' /\ CountsOK'
  BY TypeParts
<1>n. Nowhere \in 0 .. MaxPorts
  BY SerialAssumption DEF Nowhere
<1>r. registered \in 0 .. MaxPorts /\ call[a] \in CallRecord
  BY <1>0 DEF CallsOK
<1>1. CASE OpenReuses(a)
  <2>1. call' \in [Actors -> CallRecord] /\ session' \in [Clients -> SessionRecord]
    BY <1>0, <1>1, <1>r, AnswerType DEF OpenReuses
  <2> QED BY <2>1, <1>0, <1>1 DEF OpenReuses, QuietCall, CallUnchanged, PortsOK, CallsOK, CountsOK
<1>2. CASE OpenMakes(a)
  <2>1. Construct(a, registered)
    BY <1>2 DEF OpenMakes
  <2> QED BY <2>1, <1>0, <1>2, <1>r, ConstructType
          DEF OpenMakes, QuietCall, CallUnchanged, PortsOK, CallsOK, CountsOK
<1>3. CASE OpenReplaces(a)
  <2>1. registered \in Ports /\ CloseBegins(a, "open", registered)
    BY <1>3, <1>r, AlivePort DEF OpenReplaces
  <2> QED BY <2>1, <1>0, <1>3, CloseBeginsType DEF OpenReplaces, CallsOK
<1>4. CASE CloseTakes(a)
  <2>1. registered \in Ports /\ CloseBegins(a, "close", registered)
    BY <1>4, <1>r, SerialAssumption DEF CloseTakes, Ports, Nowhere
  <2> QED BY <2>1, <1>0, <1>4, <1>n, CloseBeginsType DEF CloseTakes, CallsOK
<1>5. CASE CloseFindsNone(a)
  <2>1. call' \in [Actors -> CallRecord] /\ session' \in [Clients -> SessionRecord]
    BY <1>0, <1>5, <1>n, AnswerType DEF CloseFindsNone
  <2> QED BY <2>1, <1>0, <1>5 DEF CloseFindsNone, QuietCall, CallUnchanged, PortsOK, CallsOK, CountsOK
<1>6. CASE DrainAwaited(a) \/ HandleAbandoned(a)
  <2>1. call' \in [Actors -> CallRecord]
    BY <1>0, <1>6 DEF DrainAwaited, HandleAbandoned, CallsOK, CallRecord
  <2> QED BY <2>1, <1>0, <1>6
          DEF DrainAwaited, HandleAbandoned, QuietCall, CallUnchanged, PortsOK, CallsOK, CountsOK
<1>7. ASSUME CloseAborts(a) PROVE CallsOK' /\ CountsOK'
  <2>1. call' \in [Actors -> CallRecord] /\ session' \in [Clients -> SessionRecord]
    BY <1>0, <1>7, <1>n, AnswerType DEF CloseAborts
  <2> QED BY <2>1, <1>0, <1>7 DEF CloseAborts, CallUnchanged, CallsOK, CountsOK
<1>8. CASE CancelledAwaited(a)
  BY <1>0, <1>7, <1>8 DEF CancelledAwaited, PortsOK
<1>9. CASE DrainTimesOut(a)
  <2> DEFINE g == call[a].port
             i == IF port[g].io = Drain THEN Free ELSE port[g].io
  <2>1. g \in Ports
    BY <1>9, <1>r, AlivePort DEF DrainTimesOut, CallRecord
  <2>2. port[g] \in PortRecord
    BY <1>0, <2>1 DEF PortsOK
  <2>3. [port[g] EXCEPT !.drain = "cancelled", !.io = i] \in PortRecord
    BY <2>2 DEF PortRecord, Drains, Over
  <2>4. Continue(g, [port[g] EXCEPT !.drain = "cancelled", !.io = i], queue)
    BY <1>9 DEF DrainTimesOut
  <2> HIDE DEF g, i
  <2>5. PortsOK'
    BY <1>0, <2>1, <2>3, <2>4, ContinueType DEF PortsOK
  <2> QED BY <2>5, <1>7, <1>9 DEF DrainTimesOut
<1>10. CASE HandleClosed(a)
  <2>1. call' \in [Actors -> CallRecord]
    BY <1>0, <1>10 DEF HandleClosed, CallsOK, CallRecord
  <2> QED BY <2>1, <1>0, <1>10
          DEF HandleClosed, QuietCall, CallUnchanged, PortsOK, CallsOK, CountsOK
<1>11. CASE CallReturns(a)
  <2>1. CASE Construct(a, Nowhere)
    BY <2>1, <1>0, <1>11, <1>n, ConstructType
       DEF CallReturns, QuietCall, CallUnchanged, PortsOK, CallsOK, CountsOK
  <2>2. CASE Answer(a, Nowhere) /\ UNCHANGED <<registered, made, port, opened, handles>>
    <3>1. call' \in [Actors -> CallRecord] /\ session' \in [Clients -> SessionRecord]
      BY <1>0, <2>2, <1>n, AnswerType
    <3> QED BY <3>1, <2>2, <1>0, <1>11
            DEF CallReturns, QuietCall, CallUnchanged, PortsOK, CallsOK, CountsOK
  <2> QED BY <2>1, <2>2, <1>11 DEF CallReturns
<1> QED BY <1>1, <1>2, <1>3, <1>4, <1>5, <1>6, <1>8, <1>9, <1>10, <1>11 DEF CallStep

-----------------------------------------------------------------------------
(* The inductive invariant.                                                *)

\* _iolock is the drain's while it closes or opens a handle, and the session's while it
\* waits for its write, which then has an open handle.
IoInv ==
    /\ \A g \in Ports : port[g].drain \in {"closing", "opening"} => port[g].io = Drain
    /\ \A c \in Clients : writer[c] = "writing" =>
         LET g == session[c].port IN
         /\ session[c].at = "attached" /\ g \in Ports
         /\ port[g].io = c /\ port[g].ser \in opened

\* No two ports have a handle in common, and a port that is yet to be made has none.
HandleInv ==
    /\ \A g \in Ports : port[g].ser <= handles
    /\ \A g \in Ports : g > made => port[g].ser = 0 /\ port[g].drain = "done"
    /\ \A g, h \in Ports : port[g].ser = port[h].ser /\ port[g].ser # 0 => g = h

\* What a drain reads, or is about to read or to close, is open; only a running drain or a
\* cancelled one has a read in the pool.
ReadInv ==
    \A g \in Ports :
        /\ port[g].drain \in {"starting", "reading", "toClose"} \/ port[g].reading =>
             port[g].ser \in opened
        /\ port[g].reading => port[g].drain \in {"reading", "cancelled"}

\* A caller that is past the lock holds it; while it waits for the old port, that port is
\* the registered one or, in a close, none is; past the wait the old drain is done.
CallInv ==
    /\ registered <= made
    /\ \A c \in Clients : call[c].at # "idle" => session[c].at = "opening"
    /\ \A a \in Actors : call[a].at # "idle" =>
         /\ devLock = a
         /\ call[a].port \in Ports
         /\ registered = IF call[a].verb = "open" THEN call[a].port ELSE Nowhere
         /\ call[a].at \in {"handle", "closed"} => port[call[a].port].drain = "done"

\* A running drain is within reach.
ReachInv ==
    \A g \in Ports : Alive(g) =>
        g = registered \/ \E a \in Actors : call[a].at = "wait" /\ call[a].port = g

SerialInv == TypeOK /\ IoInv /\ HandleInv /\ ReadInv /\ CallInv /\ ReachInv

\* What a step of the drain of port g does to its port p, as far as the invariant goes: it
\* goes on to a read or out of _iolock, or it takes the lock, and only in two cases does it
\* touch a handle.
GoesOn(p, q) ==
    /\ p.drain \in {"starting", "reading", "backoff"}
    /\ q.drain \in {"done", "toClose", "reading", "toOpen"}
    /\ q.drain \in {"toClose", "reading"} => p.drain \in {"starting", "reading"}
    /\ q.reading => q.drain = "reading" \/ (p.reading /\ p.drain # "reading")
    /\ q.io = p.io
Takes(p, q) ==
    /\ p.drain \in {"toClose", "toOpen"} /\ p.io = Free /\ q.io = Drain
    /\ q.drain = IF p.drain = "toClose" THEN "closing" ELSE "opening"
    /\ q.reading = p.reading
Releases(p, q) ==
    /\ p.drain \in {"closing", "opening"} /\ q.io = Free
    /\ q.drain \in {"done", "backoff"}
    /\ q.reading = p.reading
Reopens(p, q) ==
    /\ p.drain = "opening" /\ q.io = Free
    /\ q.drain \in {"done", "toClose", "reading"}
    /\ q.reading => q.drain = "reading" \/ p.reading

DrainEffect(g, p, q) ==
    /\ port' = [port EXCEPT ![g] = q]
    /\ UNCHANGED <<registered, devLock, made, call, session, writer>>
    /\ \/ GoesOn(p, q) /\ q.ser = p.ser /\ UNCHANGED <<opened, handles>>
       \/ /\ Takes(p, q) /\ q.ser = p.ser /\ UNCHANGED handles
          /\ opened' = IF p.drain = "toClose" THEN opened \ {p.ser} ELSE opened
       \/ Releases(p, q) /\ q.ser = p.ser /\ UNCHANGED <<opened, handles>>
       \/ Reopens(p, q) /\ q.ser = handles' /\ NewHandle

\* The head of the loop.
LEMMA TurnEffect ==
  ASSUME NEW p \in PortRecord
  PROVE  /\ Turn(p).ser = p.ser /\ Turn(p).io = p.io
         /\ Turn(p).drain \in {"done", "toClose", "reading"}
         /\ Turn(p).reading => Turn(p).drain = "reading" \/ p.reading
<1>1. CASE p.stop
  BY <1>1 DEF Turn, Ended, PortRecord
<1>2. CASE ~p.stop /\ p.reopen
  BY <1>2 DEF Turn, PortRecord
<1>3. CASE ~p.stop /\ ~p.reopen
  <2>1. Turn(p) = [p EXCEPT !.drain = "reading", !.reading = TRUE]
    BY <1>3 DEF Turn
  <2> QED BY <2>1 DEF PortRecord
<1> QED BY <1>1, <1>2, <1>3 DEF PortRecord

\* Every step of a drain is such a step.
LEMMA DrainHasEffect ==
  ASSUME PortsOK, CountsOK, NEW g \in Ports, DrainStep(g)
  PROVE  DrainEffect(g, port[g], port'[g])
<1> DEFINE p == port[g]
           q == port'[g]
<1>0. p \in PortRecord /\ port \in [Ports -> PortRecord]
  BY DEF PortsOK
<1>1. ASSUME NEW r, NEW qs, Continue(g, r, qs)
      PROVE  q = r /\ port' = [port EXCEPT ![g] = q]
  BY <1>0, <1>1 DEF Continue
<1>2. UNCHANGED <<registered, devLock, made, call, session, writer>>
  BY DEF DrainStep, DrainUnchanged, DrainStarts, ReadData, ReadNothing, ReadError,
     ReopenCloses, ReopenClosed, ReopenWaited, ReopenOpens, ReopenSucceeds, ReopenFails
<1>3. ASSUME NEW r \in PortRecord, r.ser = p.ser, r.io = p.io,
             p.drain \in {"starting", "reading"}, r.reading => p.reading /\ p.drain # "reading",
             q = Turn(r)
      PROVE  GoesOn(p, q) /\ q.ser = p.ser
  <2> HIDE DEF p, q
  <2> QED BY <1>3, TurnEffect DEF GoesOn
<1>4. CASE DrainStarts(g)
  <2>1. q = Turn(p) /\ port' = [port EXCEPT ![g] = q]
    BY <1>1, <1>4 DEF DrainStarts
  <2>2. p.drain = "starting" /\ UNCHANGED <<opened, handles>>
    BY <1>4 DEF DrainStarts
  <2> HIDE DEF p, q
  <2>3. GoesOn(p, q) /\ q.ser = p.ser
    BY <1>0, <1>3, <2>1, <2>2
  <2> QED BY <1>2, <2>1, <2>2, <2>3 DEF DrainEffect, p, q
<1>5. CASE ReadData(g)
  <2> DEFINE r == [Received(g, chunks') EXCEPT !.reading = FALSE]
  <2>1. q = Turn(r) /\ port' = [port EXCEPT ![g] = q]
    BY <1>1, <1>5 DEF ReadData
  <2>2. chunks' \in Chunk
    BY <1>5, SerialAssumption DEF ReadData, CountsOK, Chunk
  <2>3. r \in PortRecord /\ r.ser = p.ser /\ r.io = p.io /\ ~r.reading
    BY <2>2, ReceivedType DEF PortRecord
  <2>4. p.drain = "reading" /\ UNCHANGED <<opened, handles>>
    BY <1>5 DEF ReadData, DrainUnchanged
  <2> HIDE DEF p, q, r
  <2>5. GoesOn(p, q) /\ q.ser = p.ser
    BY <1>3, <2>1, <2>3, <2>4
  <2> QED BY <1>2, <2>1, <2>4, <2>5 DEF DrainEffect, p, q
<1> DEFINE n == [p EXCEPT !.reading = FALSE]
<1>6. n \in PortRecord /\ n.ser = p.ser /\ n.io = p.io /\ ~n.reading
  BY <1>0 DEF PortRecord
<1>7. CASE ReadNothing(g)
  <2>1. q = Turn(n) /\ port' = [port EXCEPT ![g] = q]
    BY <1>1, <1>7 DEF ReadNothing
  <2>2. p.drain = "reading" /\ UNCHANGED <<opened, handles>>
    BY <1>7 DEF ReadNothing
  <2> HIDE DEF p, q, n
  <2>3. GoesOn(p, q) /\ q.ser = p.ser
    BY <1>3, <1>6, <2>1, <2>2
  <2> QED BY <1>2, <2>1, <2>2, <2>3 DEF DrainEffect, p, q
<1>8. CASE ReadError(g)
  <2>1. /\ q = [n EXCEPT !.drain = "toClose"] \/ q = Ended(n)
        /\ port' = [port EXCEPT ![g] = q]
    BY <1>1, <1>8 DEF ReadError
  <2>2. p.drain = "reading" /\ UNCHANGED <<opened, handles>>
    BY <1>8 DEF ReadError
  <2> HIDE DEF p, q, n
  <2>3. GoesOn(p, q) /\ q.ser = p.ser
    BY <1>6, <2>1, <2>2 DEF GoesOn, Ended, PortRecord
  <2> QED BY <1>2, <2>1, <2>2, <2>3 DEF DrainEffect, p, q
<1>9. CASE ReopenCloses(g)
  <2>1. q = [p EXCEPT !.drain = "closing", !.io = Drain] /\ port' = [port EXCEPT ![g] = q]
    BY <1>1, <1>9 DEF ReopenCloses
  <2>2. /\ p.drain = "toClose" /\ p.io = Free
        /\ opened' = opened \ {p.ser} /\ UNCHANGED handles
    BY <1>9 DEF ReopenCloses
  <2> HIDE DEF p, q
  <2>3. Takes(p, q) /\ q.ser = p.ser
    BY <1>0, <2>1, <2>2 DEF Takes, PortRecord
  <2> QED BY <1>2, <2>1, <2>2, <2>3 DEF DrainEffect, p, q
<1>10. CASE ReopenOpens(g)
  <2>1. q = [p EXCEPT !.drain = "opening", !.io = Drain] /\ port' = [port EXCEPT ![g] = q]
    BY <1>1, <1>10 DEF ReopenOpens
  <2>2. p.drain = "toOpen" /\ p.io = Free /\ UNCHANGED <<opened, handles>>
    BY <1>10 DEF ReopenOpens
  <2> HIDE DEF p, q
  <2>3. Takes(p, q) /\ q.ser = p.ser
    BY <1>0, <2>1, <2>2 DEF Takes, PortRecord
  <2> QED BY <1>2, <2>1, <2>2, <2>3 DEF DrainEffect, p, q
<1>11. CASE ReopenClosed(g) \/ ReopenFails(g)
  <2> DEFINE r == [p EXCEPT !.io = Free]
  <2>1. /\ q = IF r.stop THEN Ended(r) ELSE [r EXCEPT !.drain = "backoff"]
        /\ port' = [port EXCEPT ![g] = q]
    BY <1>1, <1>11 DEF ReopenClosed, ReopenFails
  <2>2. p.drain \in {"closing", "opening"} /\ UNCHANGED <<opened, handles>>
    BY <1>11 DEF ReopenClosed, ReopenFails
  <2>3. r \in PortRecord /\ r.io = Free /\ r.ser = p.ser /\ r.reading = p.reading
    BY <1>0 DEF PortRecord
  <2> HIDE DEF p, q, r
  <2>4. Releases(p, q) /\ q.ser = p.ser
    BY <2>1, <2>2, <2>3 DEF Releases, Ended, PortRecord
  <2> QED BY <1>2, <2>1, <2>2, <2>4 DEF DrainEffect, p, q
<1>12. CASE ReopenWaited(g)
  <2>1. /\ q = Ended(p) \/ q = [p EXCEPT !.drain = "toOpen"]
        /\ port' = [port EXCEPT ![g] = q]
    BY <1>1, <1>12 DEF ReopenWaited
  <2>2. p.drain = "backoff" /\ UNCHANGED <<opened, handles>>
    BY <1>12 DEF ReopenWaited
  <2> HIDE DEF p, q
  <2>3. GoesOn(p, q) /\ q.ser = p.ser
    BY <1>0, <2>1, <2>2 DEF GoesOn, Ended, PortRecord
  <2> QED BY <1>2, <2>1, <2>2, <2>3 DEF DrainEffect, p, q
<1>13. CASE ReopenSucceeds(g)
  <2> DEFINE r == [p EXCEPT !.ser = handles', !.io = Free]
  <2>1. q = Turn(r) /\ port' = [port EXCEPT ![g] = q]
    BY <1>1, <1>13 DEF ReopenSucceeds
  <2>2. p.drain = "opening" /\ NewHandle
    BY <1>13 DEF ReopenSucceeds
  <2>3. handles' \in 0 .. MaxHandles
    BY <2>2, NewHandleType
  <2>4. r \in PortRecord /\ r.io = Free /\ r.ser = handles' /\ r.reading = p.reading
    BY <1>0, <2>3 DEF PortRecord
  <2> HIDE DEF p, q, r
  <2>5. Reopens(p, q) /\ q.ser = handles'
    BY <2>1, <2>2, <2>4, TurnEffect DEF Reopens
  <2> QED BY <1>2, <2>1, <2>2, <2>5 DEF DrainEffect, p, q
<1> QED BY <1>4, <1>5, <1>7, <1>8, <1>9, <1>10, <1>11, <1>12, <1>13 DEF DrainStep

\* A drain keeps the invariant.
LEMMA DrainKeeps ==
  ASSUME SerialInv, NEW g \in Ports, DrainStep(g)
  PROVE  IoInv' /\ HandleInv' /\ ReadInv' /\ CallInv' /\ ReachInv'
<1> DEFINE p == port[g]
           q == port'[g]
<1>1. DrainEffect(g, p, q)
  BY DrainHasEffect, TypeParts DEF SerialInv
<1>2. PortsOK /\ CallsOK /\ CountsOK /\ opened \subseteq Handles /\ handles \in Nat
  BY TypeParts, SerialAssumption DEF SerialInv, CountsOK
<1>3. \A h \in Ports : h # g => port'[h] = port[h]
  BY <1>1, <1>2 DEF DrainEffect, PortsOK
<1>4. p.drain \notin Over
  BY <1>1 DEF DrainEffect, GoesOn, Takes, Releases, Reopens, Over
<1>5. UNCHANGED <<registered, devLock, made, call, session, writer>>
  BY <1>1 DEF DrainEffect
<1>6. \A h \in Ports : port[h].ser \in Nat
  BY <1>2, SerialAssumption DEF PortsOK, PortRecord
<1>7. Ports \subseteq Nat /\ made \in Nat
  BY <1>2, SerialAssumption DEF Ports, CallsOK
<1> HIDE DEF p, q
<1>8. IoInv'
  <2>1. ASSUME NEW h \in Ports, port'[h].drain \in {"closing", "opening"}
        PROVE  port'[h].io = Drain
    <3>1. CASE h = g
      BY <1>1, <2>1, <3>1 DEF DrainEffect, GoesOn, Takes, Releases, Reopens, p, q
    <3> QED BY <3>1, <2>1, <1>3 DEF SerialInv, IoInv
  <2>2. ASSUME NEW c \in Clients, writer'[c] = "writing"
        PROVE  LET s == session'[c].port IN
               /\ session'[c].at = "attached" /\ s \in Ports
               /\ port'[s].io = c /\ port'[s].ser \in opened'
    <3> DEFINE s == session[c].port
    <3>1. /\ session[c].at = "attached" /\ s \in Ports
          /\ port[s].io = c /\ port[s].ser \in opened
      BY <2>2, <1>5 DEF SerialInv, IoInv
    <3>2. c # Free /\ c # Drain
      BY SerialAssumption
    <3>3. port[s].ser # 0
      BY <3>1, <1>2 DEF Handles
    <3>4. CASE s = g
      <4>1. GoesOn(p, q) /\ q.ser = p.ser /\ opened' = opened
        BY <1>1, <3>1, <3>2, <3>4
           DEF DrainEffect, Takes, Releases, Reopens, SerialInv, IoInv, p, q
      <4> QED BY <4>1, <3>1, <3>4, <1>5 DEF GoesOn, p, q
    <3>5. CASE s # g
      <4>1. port'[s] = port[s]
        BY <1>3, <3>1, <3>5
      <4>2. port[s].ser # p.ser
        BY <3>1, <3>3, <3>5 DEF SerialInv, HandleInv, p
      <4>3. port[s].ser \in opened'
        BY <1>1, <3>1, <4>2 DEF DrainEffect, NewHandle
      <4> QED BY <4>1, <4>3, <3>1, <1>5
    <3> QED BY <3>4, <3>5
  <2> QED BY <2>1, <2>2 DEF IoInv
<1>9. HandleInv'
  <2>1. \/ q.ser = p.ser /\ handles' = handles
        \/ q.ser = handles' /\ handles' = handles + 1
    BY <1>1 DEF DrainEffect, NewHandle
  <2>2. g <= made
    BY <1>4, <1>7 DEF SerialInv, HandleInv, Over, p
  <2>3. \A h \in Ports : port'[h].ser <= handles'
    BY <1>2, <1>3, <1>6, <2>1 DEF SerialInv, HandleInv, p, q
  <2>4. \A h \in Ports : h > made' => port'[h].ser = 0 /\ port'[h].drain = "done"
    BY <1>3, <1>5, <1>7, <2>2 DEF SerialInv, HandleInv
  <2>5. ASSUME NEW h \in Ports, NEW k \in Ports, port'[h].ser = port'[k].ser, port'[h].ser # 0,
               h # k
        PROVE  FALSE
    BY <1>2, <1>3, <1>6, <2>1, <2>5 DEF SerialInv, HandleInv, p, q
  <2> QED BY <2>3, <2>4, <2>5 DEF HandleInv
<1>10. ReadInv'
  <2>1. ASSUME NEW h \in Ports
        PROVE  /\ port'[h].drain \in {"starting", "reading", "toClose"} \/ port'[h].reading =>
                    port'[h].ser \in opened'
               /\ port'[h].reading => port'[h].drain \in {"reading", "cancelled"}
    <3>0. p.reading => p.drain = "reading"
      BY <1>4 DEF SerialInv, ReadInv, Over, p
    <3>1. CASE h = g
      BY <1>1, <3>0, <3>1
         DEF DrainEffect, GoesOn, Takes, Releases, Reopens, NewHandle, SerialInv, ReadInv, p, q
    <3>2. CASE h # g
      <4>1. port'[h] = port[h]
        BY <1>3, <3>2
      <4>2. port[h].ser \in opened => port[h].ser \in opened'
        <5>1. ASSUME port[h].ser \in opened PROVE port[h].ser # p.ser
          BY <1>2, <3>2, <5>1 DEF SerialInv, HandleInv, Handles, p
        <5> QED BY <1>1, <5>1 DEF DrainEffect, NewHandle
      <4> QED BY <4>1, <4>2 DEF SerialInv, ReadInv
    <3> QED BY <3>1, <3>2
  <2> QED BY <2>1 DEF ReadInv
<1>11. CallInv'
  <2>1. ASSUME NEW a \in Actors, call[a].at \in {"handle", "closed"}
        PROVE  port'[call[a].port].drain = "done"
    BY <1>3, <1>4, <2>1 DEF SerialInv, CallInv, Over, p
  <2> QED BY <1>5, <2>1 DEF SerialInv, CallInv
<1>12. ReachInv'
  <2>1. ASSUME NEW h \in Ports, Alive(h)' PROVE Alive(h)
    BY <1>3, <1>4, <2>1 DEF Alive, p
  <2> QED BY <1>5, <2>1 DEF SerialInv, ReachInv
<1> QED BY <1>8, <1>9, <1>10, <1>11, <1>12

\* With the lock of the device a caller is the only one under way.
LEMMA OthersIdle ==
  ASSUME SerialInv, NEW a \in Actors, devLock \in {Free, a}
  PROVE  /\ \A b \in Actors : b # a => call[b].at = "idle"
         /\ devLock = Free => call[a].at = "idle"
<1>1. Free \notin Actors
  BY SerialAssumption DEF Actors
<1> QED BY <1>1 DEF SerialInv, CallInv

\* An answer disturbs no session that writes.
LEMMA AnswerSpares ==
  ASSUME SerialInv, NEW a \in Actors, NEW g, Answer(a, g), UNCHANGED writer,
         a \in Clients => session[a].at = "opening"
  PROVE  /\ \A c \in Clients : writer'[c] = "writing" => c # a /\ session'[c] = session[c]
         /\ call'[a].at = "idle"
         /\ \A b \in Actors : b # a => call'[b] = call[b]
         /\ \A c \in Clients : c # a => session'[c] = session[c]
<1>1. call \in [Actors -> CallRecord]
  BY TypeParts DEF SerialInv, CallsOK
<1> QED BY <1>1 DEF Answer, SerialInv, IoInv, Idle

\* A port that is constructed when no drain runs keeps the invariant.
LEMMA ConstructKeeps ==
  ASSUME SerialInv, NEW a \in Actors, NEW kept \in 0 .. MaxPorts, Construct(a, kept),
         kept <= made, UNCHANGED writer,
         a \in Clients => session[a].at = "opening",
         \A b \in Actors : b # a => call[b].at = "idle",
         \A h \in Ports : ~Alive(h)
  PROVE  IoInv' /\ HandleInv' /\ ReadInv' /\ CallInv' /\ ReachInv'
<1>0. /\ PortsOK /\ CallsOK /\ CountsOK /\ opened \subseteq Handles
      /\ made \in Nat /\ handles \in Nat /\ Ports \subseteq Nat
      /\ \A h \in Ports : port[h].ser \in Nat
  <2>1. PortsOK /\ CallsOK /\ CountsOK
    BY TypeParts DEF SerialInv
  <2>2. MaxPorts \in Nat /\ MaxHandles \in Nat
    BY SerialAssumption
  <2>3. \A h \in Ports : port[h].ser \in Nat
    BY <2>1, <2>2 DEF PortsOK, PortRecord
  <2> QED BY <2>1, <2>2, <2>3 DEF CallsOK, CountsOK, Ports
<1>1. CASE /\ made < MaxPorts /\ NewHandle /\ made' = made + 1 /\ registered' = made'
           /\ port' = [port EXCEPT ![made'] = NewPort(handles')] /\ Answer(a, made')
  <2>1. made' \in Ports /\ made' > made
    BY <1>0, <1>1, SerialAssumption DEF Ports
  <2>2. /\ port'[made'] = NewPort(handles')
        /\ \A h \in Ports : h # made' => port'[h] = port[h]
    BY <1>0, <1>1, <2>1 DEF PortsOK
  <2>3. port[made'].ser = 0 /\ port[made'].drain = "done"
    BY <2>1 DEF SerialInv, HandleInv
  <2>4. opened' = opened \cup {handles'} /\ handles' = handles + 1
    BY <1>1 DEF NewHandle
  <2>5. /\ \A c \in Clients : writer'[c] = "writing" => session'[c] = session[c]
        /\ \A b \in Actors : call'[b].at = "idle"
    BY <1>1, AnswerSpares
  <2>6. IoInv'
    <3>1. \A c \in Clients : writer'[c] = "writing" => session'[c].port # made'
      BY <2>3, <2>5, <1>0 DEF SerialInv, IoInv, Handles
    <3> QED BY <2>2, <2>4, <2>5, <3>1 DEF SerialInv, IoInv, NewPort
  <2>7. HandleInv'
    <3>1. \A h \in Ports : h # made' => port'[h].ser <= handles
      BY <2>2 DEF SerialInv, HandleInv
    <3>2. port'[made'].ser = handles'
      BY <2>2 DEF NewPort
    <3>3. \A h \in Ports : port'[h].ser <= handles'
      BY <1>0, <2>2, <2>4, <3>1, <3>2
    <3>4. \A h \in Ports : h > made' => port'[h].ser = 0 /\ port'[h].drain = "done"
      <4>1. \A h \in Ports : h > made' => h > made /\ h # made'
        BY <1>0, <2>1
      <4>2. \A h \in Ports : h > made => port[h].ser = 0 /\ port[h].drain = "done"
        BY DEF SerialInv, HandleInv
      <4> QED BY <2>2, <4>1, <4>2
    <3>5. ASSUME NEW h \in Ports, NEW k \in Ports, port'[h].ser = port'[k].ser,
                 port'[h].ser # 0, h # k
          PROVE  FALSE
      BY <1>0, <2>2, <2>4, <3>1, <3>2, <3>5 DEF SerialInv, HandleInv
    <3> QED BY <3>3, <3>4, <3>5 DEF HandleInv
  <2>8. ReadInv'
    BY <2>2, <2>4 DEF SerialInv, ReadInv, NewPort
  <2>9. CallInv'
    BY <1>0, <1>1, <2>1, <2>5 DEF CallInv, Actors
  <2>10. ReachInv'
    <3>1. \A h \in Ports : Alive(h)' => h = made'
      BY <2>2 DEF Alive
    <3> QED BY <1>1, <3>1 DEF ReachInv
  <2> QED BY <2>6, <2>7, <2>8, <2>9, <2>10
<1>2. CASE registered' = kept /\ Answer(a, Nowhere) /\ UNCHANGED <<made, handles, opened, port>>
  <2>1. /\ \A c \in Clients : writer'[c] = "writing" => session'[c] = session[c]
        /\ \A b \in Actors : call'[b].at = "idle"
    BY <1>2, AnswerSpares
  <2>2. IoInv' /\ HandleInv' /\ ReadInv'
    BY <1>2, <2>1 DEF SerialInv, IoInv, HandleInv, ReadInv
  <2>3. CallInv'
    BY <1>2, <2>1 DEF CallInv, Actors
  <2>4. ReachInv'
    BY <1>2 DEF ReachInv, Alive
  <2> QED BY <2>2, <2>3, <2>4
<1> QED BY <1>1, <1>2 DEF Construct

\* A step that leaves handles, locks, reads and drains alone keeps three of the conjuncts.
LEMMA QuietKeeps ==
  ASSUME SerialInv, UNCHANGED <<opened, handles, made>>,
         \A h \in Ports : /\ port'[h].drain = port[h].drain /\ port'[h].io = port[h].io
                          /\ port'[h].ser = port[h].ser /\ port'[h].reading = port[h].reading,
         \A c \in Clients : writer'[c] = "writing" =>
            writer[c] = "writing" /\ session'[c] = session[c]
  PROVE  IoInv' /\ HandleInv' /\ ReadInv'
<1>1. IoInv'
  BY DEF SerialInv, IoInv
<1>2. HandleInv'
  BY DEF SerialInv, HandleInv
<1>3. ReadInv'
  BY DEF SerialInv, ReadInv
<1> QED BY <1>1, <1>2, <1>3

\* The beginning of a close, by the one caller that has the lock.
LEMMA CloseBeginsKeeps ==
  ASSUME SerialInv, NEW a \in Actors, NEW verb \in {"open", "close"}, NEW g \in Ports,
         CloseBegins(a, verb, g), g = registered, devLock = Free,
         registered' = IF verb = "open" THEN g ELSE Nowhere,
         a \in Clients => session[a].at = "opening"
  PROVE  IoInv' /\ HandleInv' /\ ReadInv' /\ CallInv' /\ ReachInv'
<1>1. PortsOK /\ CallsOK
  BY TypeParts DEF SerialInv
<1>2. \A h \in Ports : /\ port'[h].drain = port[h].drain /\ port'[h].io = port[h].io
                       /\ port'[h].ser = port[h].ser /\ port'[h].reading = port[h].reading
  BY <1>1 DEF PortsOK, PortRecord, CloseBegins
<1>3. UNCHANGED <<opened, handles, made, session, writer>> /\ devLock' = a
  BY DEF CloseBegins, QuietCall, CallUnchanged
<1>4. IoInv' /\ HandleInv' /\ ReadInv'
  BY <1>2, <1>3, QuietKeeps
<1>5. /\ call'[a] = [at |-> "wait", verb |-> verb, port |-> g]
      /\ \A b \in Actors : b # a => call'[b] = call[b] /\ call[b].at = "idle"
  BY <1>1, OthersIdle DEF CloseBegins, CallsOK
<1>6. CallInv'
  <2>1. registered' <= made'
    BY <1>1, <1>3, SerialAssumption DEF SerialInv, CallInv, CallsOK, Nowhere
  <2>2. \A c \in Clients : call'[c].at # "idle" => session'[c].at = "opening"
    BY <1>3, <1>5 DEF Actors
  <2> QED BY <1>3, <1>5, <2>1, <2>2 DEF CallInv
<1>7. ReachInv'
  <2>1. \A h \in Ports : Alive(h) => h = g
    <3>1. \A b \in Actors : call[b].at = "idle"
      BY OthersIdle
    <3> QED BY <3>1 DEF SerialInv, ReachInv
  <2>2. \A h \in Ports : Alive(h)' => Alive(h)
    BY <1>2 DEF Alive
  <2> QED BY <1>5, <2>1, <2>2 DEF ReachInv
<1> QED BY <1>4, <1>6, <1>7

\* A caller keeps the invariant.
LEMMA CallKeeps ==
  ASSUME SerialInv, NEW a \in Actors, CallStep(a)
  PROVE  IoInv' /\ HandleInv' /\ ReadInv' /\ CallInv' /\ ReachInv'
<1>0. PortsOK /\ CallsOK /\ CountsOK
  BY TypeParts DEF SerialInv
<1>r. registered \in 0 .. MaxPorts /\ registered <= made /\ Nowhere \in 0 .. MaxPorts
  BY <1>0, SerialAssumption DEF CallsOK, SerialInv, CallInv, Nowhere
<1>l. ASSUME NEW verb, GetsLock(a, verb)
      PROVE  /\ devLock = Free /\ \A b \in Actors : call[b].at = "idle"
             /\ a \in Clients => session[a].at = "opening"
  BY <1>l, OthersIdle DEF GetsLock
<1>u. ASSUME call[a].at # "idle"
      PROVE  /\ devLock = a /\ call[a].port \in Ports
             /\ registered = IF call[a].verb = "open" THEN call[a].port ELSE Nowhere
             /\ \A b \in Actors : b # a => call[b].at = "idle"
             /\ a \in Clients => session[a].at = "opening"
  <2>1. devLock = a
    BY <1>u DEF SerialInv, CallInv
  <2> QED BY <1>u, <2>1, OthersIdle DEF SerialInv, CallInv
<1>1. CASE OpenReuses(a)
  <2>1. Answer(a, registered) /\ UNCHANGED <<registered, devLock, made, port, opened, handles, writer>>
    BY <1>1 DEF OpenReuses, QuietCall, CallUnchanged
  <2>2. \A b \in Actors : call[b].at = "idle"
    BY <1>1, <1>l DEF OpenReuses
  <2>3. /\ \A c \in Clients : writer'[c] = "writing" => session'[c] = session[c]
        /\ \A b \in Actors : call'[b].at = "idle"
    BY <1>1, <1>l, <2>1, <2>2, AnswerSpares DEF OpenReuses
  <2>4. CallInv'
    BY <2>1, <2>3, <1>r DEF CallInv, Actors
  <2>5. ReachInv'
    BY <2>1, <2>2 DEF SerialInv, ReachInv, Alive
  <2> QED BY <2>1, <2>3, <2>4, <2>5, QuietKeeps
<1>2. CASE OpenMakes(a)
  <2>1. Construct(a, registered) /\ UNCHANGED writer /\ ~Alive(registered)
    BY <1>2 DEF OpenMakes, QuietCall, CallUnchanged
  <2>2. \A h \in Ports : ~Alive(h)
    BY <1>2, <1>l, <2>1 DEF OpenMakes, SerialInv, ReachInv
  <2> QED BY <1>2, <1>l, <1>r, <2>1, <2>2, ConstructKeeps DEF OpenMakes
<1>3. CASE OpenReplaces(a)
  <2>1. registered \in Ports
    BY <1>3, <1>r, AlivePort DEF OpenReplaces
  <2> QED BY <1>3, <1>l, <2>1, CloseBeginsKeeps DEF OpenReplaces
<1>4. CASE CloseTakes(a)
  <2>1. registered \in Ports
    BY <1>4, <1>r, SerialAssumption DEF CloseTakes, Ports, Nowhere
  <2> QED BY <1>4, <1>l, <2>1, CloseBeginsKeeps DEF CloseTakes
<1>5. CASE CloseFindsNone(a)
  <2>1. /\ Answer(a, Nowhere)
        /\ UNCHANGED <<registered, devLock, made, port, opened, handles, writer>>
    BY <1>5 DEF CloseFindsNone, QuietCall, CallUnchanged
  <2>2. \A b \in Actors : call[b].at = "idle"
    BY <1>5, <1>l DEF CloseFindsNone
  <2>3. /\ \A c \in Clients : writer'[c] = "writing" => session'[c] = session[c]
        /\ \A b \in Actors : call'[b].at = "idle"
    BY <1>5, <1>l, <2>1, <2>2, AnswerSpares DEF CloseFindsNone
  <2>4. CallInv'
    BY <2>1, <2>3, <1>r DEF CallInv, Actors
  <2>5. ReachInv'
    BY <2>1, <2>2 DEF SerialInv, ReachInv, Alive
  <2> QED BY <2>1, <2>3, <2>4, <2>5, QuietKeeps
<1>6. CASE DrainAwaited(a) \/ HandleAbandoned(a)
  <2>1. /\ call[a].at \in {"wait", "handle"} /\ port[call[a].port].drain = "done"
        /\ UNCHANGED <<registered, devLock, made, port, opened, handles, session, writer>>
    BY <1>6 DEF DrainAwaited, HandleAbandoned, QuietCall, CallUnchanged, SerialInv, CallInv
  <2>2. /\ call'[a].at \in {"handle", "closed"} /\ call'[a].port = call[a].port
        /\ call'[a].verb = call[a].verb
        /\ \A b \in Actors : b # a => call'[b] = call[b]
    BY <1>0, <1>6 DEF DrainAwaited, HandleAbandoned, CallsOK, CallRecord
  <2>3. CallInv'
    BY <2>1, <2>2, <1>r, <1>u DEF SerialInv, CallInv, Actors
  <2>4. ReachInv'
    BY <2>1, <2>2 DEF SerialInv, ReachInv, Alive, Over
  <2> QED BY <2>1, <2>3, <2>4, QuietKeeps
<1>7. ASSUME CloseAborts(a), call[a].at = "wait"
      PROVE  /\ \A c \in Clients : writer'[c] = "writing" =>
                   writer[c] = "writing" /\ session'[c] = session[c]
             /\ \A b \in Actors : call'[b].at = "idle"
             /\ UNCHANGED <<registered, made, opened, handles, writer>>
             /\ CallInv'
  <2>1. Answer(a, Nowhere) /\ UNCHANGED <<registered, made, opened, handles, writer>>
    BY <1>7 DEF CloseAborts, CallUnchanged
  <2>2. /\ \A c \in Clients : writer'[c] = "writing" => session'[c] = session[c]
        /\ \A b \in Actors : call'[b].at = "idle"
    BY <1>7, <1>u, <2>1, AnswerSpares
  <2>3. CallInv'
    BY <2>1, <2>2, <1>r DEF CallInv, Actors
  <2> QED BY <2>1, <2>2, <2>3
<1>8. CASE CancelledAwaited(a)
  <2>1. CloseAborts(a) /\ call[a].at = "wait" /\ port[call[a].port].drain = "cancelled"
        /\ UNCHANGED port
    BY <1>8 DEF CancelledAwaited
  <2>2. ReachInv'
    <3>1. \A h \in Ports : Alive(h) => h = registered
      BY <2>1, <1>u DEF SerialInv, ReachInv, Alive, Over
    <3> QED BY <2>1, <3>1, <1>7 DEF ReachInv, Alive
  <2> QED BY <2>1, <2>2, <1>7, QuietKeeps
<1>9. CASE DrainTimesOut(a)
  <2> DEFINE g == call[a].port
             i == IF port[g].io = Drain THEN Free ELSE port[g].io
  <2>1. /\ CloseAborts(a) /\ call[a].at = "wait" /\ Alive(g)
        /\ port[g].drain \notin {"starting", "backoff"}
        /\ port' = [port EXCEPT ![g] = [port[g] EXCEPT !.drain = "cancelled", !.io = i]]
    BY <1>9 DEF DrainTimesOut, Continue
  <2>2. g \in Ports /\ port[g] \in PortRecord
    BY <1>0, <1>u, <2>1 DEF PortsOK
  <2>3. /\ \A h \in Ports : port'[h].ser = port[h].ser /\ port'[h].reading = port[h].reading
        /\ \A h \in Ports : h # g => port'[h] = port[h]
        /\ port'[g].drain = "cancelled" /\ port'[g].io = i
    BY <1>0, <2>1, <2>2 DEF PortsOK, PortRecord
  <2>4. IoInv'
    <3>1. \A c \in Clients : c # Drain
      BY SerialAssumption
    <3> QED BY <1>7, <2>1, <2>3, <3>1 DEF SerialInv, IoInv
  <2>5. HandleInv'
    <3>1. ~(g > made)
      BY <2>1, <2>2 DEF SerialInv, HandleInv, Alive, Over
    <3> QED BY <1>7, <2>1, <2>3, <3>1 DEF SerialInv, HandleInv
  <2>6. ReadInv'
    BY <1>7, <2>1, <2>3 DEF SerialInv, ReadInv
  <2>7. ReachInv'
    <3>1. \A h \in Ports : Alive(h)' => Alive(h) /\ h # g
      BY <2>3 DEF Alive, Over
    <3>2. \A h \in Ports : Alive(h) => h = registered \/ h = g
      BY <2>1, <1>u DEF SerialInv, ReachInv
    <3> QED BY <1>7, <2>1, <3>1, <3>2 DEF ReachInv
  <2> QED BY <1>7, <2>1, <2>4, <2>5, <2>6, <2>7
<1>10. CASE HandleClosed(a)
  <2> DEFINE g == call[a].port
  <2>1. /\ call[a].at = "handle" /\ port[g].io = Free /\ opened' = opened \ {port[g].ser}
        /\ UNCHANGED <<registered, devLock, made, port, handles, session, writer>>
    BY <1>10 DEF HandleClosed, QuietCall, CallUnchanged
  <2>2. g \in Ports /\ port[g].drain = "done"
    BY <2>1 DEF SerialInv, CallInv
  <2>3. /\ call'[a].at = "closed" /\ call'[a].port = g /\ call'[a].verb = call[a].verb
        /\ \A b \in Actors : b # a => call'[b] = call[b]
    BY <1>0, <1>10 DEF HandleClosed, CallsOK, CallRecord
  <2>4. \A h \in Ports : h # g /\ port[h].ser \in opened => port[h].ser \in opened'
    BY <1>0, <2>1, <2>2 DEF CountsOK, Handles, SerialInv, HandleInv
  <2>5. IoInv'
    <3>1. \A c \in Clients : c # Free
      BY SerialAssumption
    <3> QED BY <2>1, <2>2, <2>4, <3>1 DEF SerialInv, IoInv
  <2>6. HandleInv'
    BY <2>1 DEF SerialInv, HandleInv
  <2>7. ReadInv'
    BY <2>1, <2>2, <2>4 DEF SerialInv, ReadInv
  <2>8. CallInv'
    BY <2>1, <2>2, <2>3, <1>r, <1>u DEF SerialInv, CallInv, Actors
  <2>9. ReachInv'
    BY <2>1, <2>2, <2>3 DEF SerialInv, ReachInv, Alive, Over
  <2> QED BY <2>5, <2>6, <2>7, <2>8, <2>9
<1>11. CASE CallReturns(a)
  <2>1. call[a].at = "closed" /\ UNCHANGED writer /\ port[call[a].port].drain = "done"
    BY <1>11 DEF CallReturns, QuietCall, CallUnchanged, SerialInv, CallInv
  <2>2. \A h \in Ports : ~Alive(h)
    BY <2>1, <1>u DEF SerialInv, ReachInv, Alive, Over
  <2>3. CASE Construct(a, Nowhere)
    <3>1. Nowhere <= made
      BY <1>0 DEF CallsOK, Nowhere
    <3> QED BY <1>r, <1>u, <2>1, <2>2, <2>3, <3>1, ConstructKeeps
  <2>4. CASE Answer(a, Nowhere) /\ UNCHANGED <<registered, made, port, opened, handles>>
    <3>1. /\ \A c \in Clients : writer'[c] = "writing" => session'[c] = session[c]
          /\ \A b \in Actors : call'[b].at = "idle"
      BY <1>u, <2>1, <2>4, AnswerSpares
    <3>2. CallInv'
      BY <2>4, <3>1, <1>r DEF CallInv, Actors
    <3>3. ReachInv'
      BY <2>2, <2>4 DEF ReachInv, Alive
    <3> QED BY <2>1, <2>4, <3>1, <3>2, <3>3, QuietKeeps
  <2> QED BY <1>11, <2>3, <2>4 DEF CallReturns
<1> QED BY <1>1, <1>2, <1>3, <1>4, <1>5, <1>6, <1>8, <1>9, <1>10, <1>11 DEF CallStep

\* Calls and drains that stay as they are keep the last two conjuncts.
LEMMA CallsStay ==
  ASSUME SerialInv, UNCHANGED <<registered, devLock, made, call>>,
         \A h \in Ports : port'[h].drain = port[h].drain,
         \A c \in Clients : session[c].at = "opening" => session'[c] = session[c]
  PROVE  CallInv' /\ ReachInv'
<1>1. CallInv'
  BY DEF SerialInv, CallInv
<1>2. ReachInv'
  BY DEF SerialInv, ReachInv, Alive
<1> QED BY <1>1, <1>2

\* A chunk at the end of a backlog or a queue is a chunk.
LEMMA LastOfBacklog ==
  ASSUME NEW b \in Seq(Chunk), b # <<>> PROVE b[Len(b)] \in 0 .. MaxChunks
<1>1. Len(b) \in 1 .. Len(b) /\ DOMAIN b = 1 .. Len(b)
  BY EmptySeq, LenProperties
<1>2. b[Len(b)] \in Chunk
  BY <1>1, ElementOfSeq
<1> QED BY <1>2, SerialAssumption DEF Chunk

\* A session that ends keeps the invariant.
LEMMA LeaveKeeps ==
  ASSUME SerialInv, NEW c \in Clients, session[c].at = "attached", Leave(c)
  PROVE  SerialInv'
<1> DEFINE g == session[c].port
<1>0. PortsOK /\ CallsOK /\ CountsOK
  BY TypeParts DEF SerialInv
<1>1. /\ session' = [session EXCEPT ![c] = Away] /\ queue' = [queue EXCEPT ![c] = <<>>]
      /\ writer' = [writer EXCEPT ![c] = "idle"] /\ missed' = missed \ {c}
      /\ UNCHANGED <<registered, devLock, made, opened, handles, chunks, call, last, given>>
  BY DEF Leave, SessionUnchanged
<1>2. Away \in SessionRecord /\ <<>> \in Seq(Chunk \cup {Sentinel})
  BY SerialAssumption DEF Away, SessionRecord, Nowhere
<1>3. /\ session' \in [Clients -> SessionRecord] /\ queue' \in Queues
      /\ writer' \in [Clients -> {"idle", "writing"}] /\ missed' \subseteq Clients
  BY <1>0, <1>1, <1>2 DEF PortsOK, CallsOK, Queues
<1>4. \A d \in Clients : d # c => session'[d] = session[d] /\ writer'[d] = writer[d]
  BY <1>0, <1>1 DEF CallsOK
<1>5. writer'[c] = "idle"
  BY <1>0, <1>1 DEF CallsOK
<1>6. CASE writer[c] = "writing"
  <2>1. g \in Ports /\ port[g].io = c /\ port[g].ser \in opened /\ port[g] \in PortRecord
    BY <1>0, <1>6 DEF SerialInv, IoInv, PortsOK
  <2>2. port' = [port EXCEPT ![g].io = Free] /\ orphans' = orphans \cup {port[g].ser}
    BY <1>6 DEF Leave
  <2>3. port' \in [Ports -> PortRecord]
    BY <1>0, <2>2 DEF PortsOK, PortRecord
  <2>4. TypeOK'
    BY <1>0, <1>1, <1>3, <2>1, <2>2, <2>3, TypeParts DEF PortsOK, CallsOK, CountsOK
  <2>5. /\ \A h \in Ports : /\ port'[h].drain = port[h].drain /\ port'[h].ser = port[h].ser
                            /\ port'[h].reading = port[h].reading
        /\ \A h \in Ports : h # g => port'[h] = port[h]
    BY <1>0, <2>1, <2>2 DEF PortsOK, PortRecord
  <2>6. IoInv'
    <3>1. port[g].drain \notin {"closing", "opening"}
      BY <2>1, SerialAssumption DEF SerialInv, IoInv
    <3>2. \A d \in Clients : d # c /\ writer[d] = "writing" => session[d].port # g
      BY <2>1 DEF SerialInv, IoInv
    <3> QED BY <1>1, <1>4, <1>5, <2>5, <3>1, <3>2 DEF SerialInv, IoInv
  <2>7. HandleInv' /\ ReadInv'
    BY <1>1, <2>5 DEF SerialInv, HandleInv, ReadInv
  <2>8. CallInv' /\ ReachInv'
    BY <1>1, <1>4, <2>5, CallsStay
  <2> QED BY <2>4, <2>6, <2>7, <2>8 DEF SerialInv
<1>7. CASE writer[c] # "writing"
  <2>1. UNCHANGED <<port, orphans>>
    BY <1>7 DEF Leave
  <2>2. TypeOK'
    BY <1>0, <1>1, <1>3, <2>1, TypeParts DEF PortsOK, CallsOK, CountsOK
  <2>3. IoInv' /\ HandleInv' /\ ReadInv'
    BY <1>1, <1>4, <1>5, <2>1, QuietKeeps
  <2>4. CallInv' /\ ReachInv'
    BY <1>1, <1>4, <2>1, CallsStay
  <2> QED BY <2>2, <2>3, <2>4 DEF SerialInv
<1> QED BY <1>6, <1>7

\* A session that was answered has a port.
AnsweredInv ==
    \A c \in Clients : session[c].at \in {"greeting", "attached"} => session[c].port # Nowhere

\* Every step keeps it so.
LEMMA AnsweredKeeps ==
  ASSUME TypeOK, AnsweredInv, [Next]_vars
  PROVE  AnsweredInv'
<1>0. CallsOK
  BY TypeParts
<1>1. ASSUME NEW a \in Actors, NEW g, Answer(a, g) PROVE AnsweredInv'
  BY <1>1 DEF Answer, AnsweredInv, Away
<1>2. ASSUME UNCHANGED session PROVE AnsweredInv'
  BY <1>2 DEF AnsweredInv
<1>3. ASSUME NEW c \in Clients, NEW s,
             session' = [session EXCEPT ![c] = s],
             s.at \in {"greeting", "attached"} => s.port # Nowhere
      PROVE  AnsweredInv'
  BY <1>0, <1>3 DEF AnsweredInv, CallsOK
<1>4. ASSUME NEW g \in Ports, DrainStep(g) \/ WedgedReadEnds(g) PROVE AnsweredInv'
  <2>1. UNCHANGED session
    BY <1>4 DEF WedgedReadEnds, DrainStep, DrainUnchanged, DrainStarts, ReadData, ReadNothing,
       ReadError, ReopenCloses, ReopenClosed, ReopenWaited, ReopenOpens, ReopenSucceeds, ReopenFails
  <2> QED BY <2>1, <1>2
<1>5. ASSUME NEW a \in Actors, CallStep(a) PROVE AnsweredInv'
  <2>1. UNCHANGED session \/ \E g : Answer(a, g)
    BY <1>5 DEF CallStep, OpenReuses, OpenMakes, OpenReplaces, CloseTakes, CloseFindsNone,
       DrainAwaited, CancelledAwaited, DrainTimesOut, HandleClosed, HandleAbandoned, CallReturns,
       Construct, CloseBegins, CloseAborts
  <2> QED BY <2>1, <1>1, <1>2
<1>6. ASSUME NEW c \in Clients, SessionStep(c) \/ ReaderStep(c) PROVE AnsweredInv'
  <2>0. session[c] \in SessionRecord
    BY <1>0 DEF CallsOK
  <2>1. CASE Connect(c)
    <3>1. CASE /\ Alive(registered)
               /\ session' = [session EXCEPT ![c] = [at |-> "greeting", port |-> registered]]
      BY <3>1, <1>3 DEF Alive
    <3>2. CASE session' = [session EXCEPT ![c].at = "opening"]
      BY <3>2, <1>3, <2>0 DEF SessionRecord
    <3> QED BY <2>1, <3>1, <3>2 DEF Connect
  <2>2. CASE Attach(c)
    <3>1. session' = [session EXCEPT ![c] = [session[c] EXCEPT !.at = "attached"]]
      BY <2>2 DEF Attach
    <3>2. [session[c] EXCEPT !.at = "attached"].port # Nowhere
      BY <2>0, <2>2 DEF Attach, AnsweredInv, SessionRecord
    <3> QED BY <3>1, <3>2, <1>3
  <2>3. CASE AttachTooLate(c) \/ Disconnected(c) \/ PortClosedSeen(c)
    <3>1. session' = [session EXCEPT ![c] = Away]
      BY <2>3 DEF AttachTooLate, Disconnected, PortClosedSeen, Leave
    <3> QED BY <3>1, <1>3 DEF Away
  <2>4. CASE WriteStarts(c) \/ WriteEnds(c) \/ ReaderSends(c)
    BY <2>4, <1>2 DEF WriteStarts, WriteEnds, ReaderSends, WriteUnchanged
  <2> QED BY <1>6, <2>1, <2>2, <2>3, <2>4 DEF SessionStep, ReaderStep
<1>7. ASSUME (\E h \in Handles : OrphanEnds(h)) \/ Clear \/ ReopenGadgetPorts PROVE AnsweredInv'
  BY <1>7, <1>2 DEF OrphanEnds, Clear, ReopenGadgetPorts, WriteUnchanged
<1>8. ASSUME UNCHANGED vars PROVE AnsweredInv'
  BY <1>8, <1>2 DEF vars
<1> QED BY <1>4, <1>5, <1>6, <1>7, <1>8 DEF Next

\* A session keeps the invariant, in every one of its steps.
LEMMA SessionKeeps ==
  ASSUME SerialInv, AnsweredInv, NEW c \in Clients, SessionStep(c) \/ ReaderStep(c)
  PROVE  SerialInv'
<1> DEFINE g == session[c].port
<1>0. PortsOK /\ CallsOK /\ CountsOK /\ session[c] \in SessionRecord
  BY TypeParts DEF SerialInv, CallsOK
<1>s. ASSUME NEW x \in {"opening", "attached"}, session' = [session EXCEPT ![c].at = x]
      PROVE  /\ session' \in [Clients -> SessionRecord] /\ session'[c].port = session[c].port
             /\ session'[c].at = x /\ \A d \in Clients : d # c => session'[d] = session[d]
  BY <1>0, <1>s DEF CallsOK, SessionRecord
<1>w. writer[c] = "writing" => session[c].at = "attached"
  BY DEF SerialInv, IoInv
<1>e. ASSUME NEW h, Emptied(h)
      PROVE  /\ port' \in [Ports -> PortRecord]
             /\ \A k \in Ports : /\ port'[k].drain = port[k].drain /\ port'[k].io = port[k].io
                                 /\ port'[k].ser = port[k].ser
                                 /\ port'[k].reading = port[k].reading
  <2>1. <<>> \in Seq(Chunk)
    OBVIOUS
  <2> QED BY <1>0, <1>e, <2>1 DEF Emptied, PortsOK, PortRecord
<1>1. CASE Connect(c)
  <2>1. /\ session[c] = Away
        /\ UNCHANGED <<registered, devLock, made, opened, handles, chunks, port, call, queue,
                       writer, orphans, last, given, missed>>
    BY <1>1 DEF Connect, SessionUnchanged
  <2>2. /\ session' \in [Clients -> SessionRecord]
        /\ \A d \in Clients : d # c => session'[d] = session[d]
    <3>1. [at |-> "greeting", port |-> registered] \in SessionRecord
      BY <1>0 DEF CallsOK, SessionRecord
    <3> QED BY <1>0, <1>1, <1>s, <3>1 DEF Connect, CallsOK
  <2>3. TypeOK'
    BY <1>0, <2>1, <2>2, TypeParts DEF PortsOK, CallsOK, CountsOK
  <2>4. session[c].at = "away"
    BY <2>1 DEF Away
  <2>5. IoInv' /\ HandleInv' /\ ReadInv'
    BY <1>w, <2>1, <2>2, <2>4, QuietKeeps
  <2>6. CallInv' /\ ReachInv'
    BY <2>1, <2>2, <2>4, CallsStay
  <2> QED BY <2>3, <2>5, <2>6 DEF SerialInv
<1>2. CASE Attach(c)
  <2>1. /\ session[c].at = "greeting" /\ Alive(g) /\ session' = [session EXCEPT ![c].at = "attached"]
        /\ Subscribed(c) /\ Emptied(g) /\ missed' = missed \ {c}
        /\ UNCHANGED <<registered, devLock, made, opened, handles, chunks, call, queue, writer,
                       orphans>>
    BY <1>2 DEF Attach, SessionUnchanged, Subscribed
  <2>2. g \in Ports
    BY <1>0, <2>1, AlivePort DEF SessionRecord
  <2>3. port[g].buf \in Seq(Chunk)
    BY <1>0, <2>2 DEF PortsOK, PortRecord
  <2>4. last' \in [Clients -> 0 .. MaxChunks] /\ given' \in 0 .. MaxChunks
    BY <1>0, <2>1, <2>3, LastOfBacklog DEF Subscribed, CallsOK, CountsOK
  <2>5. TypeOK'
    BY <1>0, <1>e, <1>s, <2>1, <2>4, TypeParts DEF PortsOK, CallsOK, CountsOK
  <2>6. IoInv' /\ HandleInv' /\ ReadInv'
    BY <1>e, <1>s, <1>w, <2>1, QuietKeeps
  <2>7. CallInv' /\ ReachInv'
    BY <1>e, <1>s, <2>1, CallsStay
  <2> QED BY <2>5, <2>6, <2>7 DEF SerialInv
<1>3. CASE AttachTooLate(c)
  <2>1. /\ session[c].at = "greeting" /\ session' = [session EXCEPT ![c] = Away] /\ Emptied(g)
        /\ UNCHANGED <<registered, devLock, made, opened, handles, chunks, call, queue, writer,
                       orphans, last, given, missed>>
    BY <1>3 DEF AttachTooLate, SessionUnchanged
  <2>2. /\ session' \in [Clients -> SessionRecord]
        /\ \A d \in Clients : d # c => session'[d] = session[d]
    <3>1. Away \in SessionRecord
      BY SerialAssumption DEF Away, SessionRecord, Nowhere
    <3> QED BY <1>0, <2>1, <3>1 DEF CallsOK
  <2>3. TypeOK'
    BY <1>0, <1>e, <2>1, <2>2, TypeParts DEF PortsOK, CallsOK, CountsOK
  <2>4. IoInv' /\ HandleInv' /\ ReadInv'
    BY <1>e, <1>w, <2>1, <2>2, QuietKeeps
  <2>5. CallInv' /\ ReachInv'
    BY <1>e, <2>1, <2>2, CallsStay
  <2> QED BY <2>3, <2>4, <2>5 DEF SerialInv
<1>4. CASE Disconnected(c) \/ PortClosedSeen(c)
  BY <1>4, LeaveKeeps DEF Disconnected, PortClosedSeen
<1>5. CASE WriteStarts(c)
  <2>1. /\ session[c].at = "attached" /\ port[g].io = Free /\ port[g].ser \in opened
        /\ writer' = [writer EXCEPT ![c] = "writing"] /\ port' = [port EXCEPT ![g].io = c]
        /\ UNCHANGED <<registered, devLock, made, opened, handles, chunks, call, session, queue,
                       last, given, missed, orphans>>
    BY <1>5 DEF WriteStarts, WriteUnchanged, SessionUnchanged
  <2>2. g \in Ports
    BY <1>0, <2>1, SerialAssumption DEF AnsweredInv, SessionRecord, Ports, Nowhere
  <2>3. port' \in [Ports -> PortRecord]
    BY <1>0, <2>1 DEF PortsOK, PortRecord
  <2>4. TypeOK'
    BY <1>0, <2>1, <2>3, TypeParts DEF PortsOK, CallsOK, CountsOK
  <2>5. /\ \A h \in Ports : /\ port'[h].drain = port[h].drain /\ port'[h].ser = port[h].ser
                            /\ port'[h].reading = port[h].reading
        /\ \A h \in Ports : h # g => port'[h] = port[h]
        /\ port'[g].io = c
    BY <1>0, <2>1, <2>2 DEF PortsOK, PortRecord
  <2>6. IoInv'
    <3>1. c # Free /\ c # Drain /\ Free # Drain
      BY SerialAssumption
    <3>2. port[g].drain \notin {"closing", "opening"}
      BY <2>1, <2>2, <3>1 DEF SerialInv, IoInv
    <3>3. \A d \in Clients : writer[d] = "writing" => d # c /\ session[d].port # g
      BY <2>1, <2>2, SerialAssumption DEF SerialInv, IoInv
    <3>4. \A d \in Clients : d # c => writer'[d] = writer[d]
      BY <1>0, <2>1 DEF CallsOK
    <3> QED BY <2>1, <2>2, <2>5, <3>2, <3>3, <3>4 DEF SerialInv, IoInv
  <2>7. HandleInv' /\ ReadInv'
    BY <2>1, <2>5 DEF SerialInv, HandleInv, ReadInv
  <2>8. CallInv' /\ ReachInv'
    BY <2>1, <2>5, CallsStay
  <2> QED BY <2>4, <2>6, <2>7, <2>8 DEF SerialInv
<1>6. CASE WriteEnds(c)
  <2>1. /\ writer[c] = "writing"
        /\ writer' = [writer EXCEPT ![c] = "idle"] /\ port' = [port EXCEPT ![g].io = Free]
        /\ UNCHANGED <<registered, devLock, made, opened, handles, chunks, call, session, queue,
                       last, given, missed, orphans>>
    BY <1>6 DEF WriteEnds, WriteUnchanged, SessionUnchanged
  <2>2. g \in Ports /\ port[g].io = c
    BY <2>1 DEF SerialInv, IoInv
  <2>3. port' \in [Ports -> PortRecord]
    BY <1>0, <2>1 DEF PortsOK, PortRecord
  <2>4. TypeOK'
    BY <1>0, <2>1, <2>3, TypeParts DEF PortsOK, CallsOK, CountsOK
  <2>5. /\ \A h \in Ports : /\ port'[h].drain = port[h].drain /\ port'[h].ser = port[h].ser
                            /\ port'[h].reading = port[h].reading
        /\ \A h \in Ports : h # g => port'[h] = port[h]
    BY <1>0, <2>1, <2>2 DEF PortsOK, PortRecord
  <2>6. IoInv'
    <3>1. c # Drain
      BY SerialAssumption
    <3>2. port[g].drain \notin {"closing", "opening"}
      BY <2>2, <3>1 DEF SerialInv, IoInv
    <3>3. \A d \in Clients : d # c /\ writer[d] = "writing" => session[d].port # g
      BY <2>2 DEF SerialInv, IoInv
    <3>4. writer'[c] = "idle" /\ \A d \in Clients : d # c => writer'[d] = writer[d]
      BY <1>0, <2>1 DEF CallsOK
    <3> QED BY <2>1, <2>2, <2>5, <3>2, <3>3, <3>4 DEF SerialInv, IoInv
  <2>7. HandleInv' /\ ReadInv'
    BY <2>1, <2>5 DEF SerialInv, HandleInv, ReadInv
  <2>8. CallInv' /\ ReachInv'
    BY <2>1, <2>5, CallsStay
  <2> QED BY <2>4, <2>6, <2>7, <2>8 DEF SerialInv
<1>7. CASE ReaderSends(c)
  <2>1. /\ queue[c] # <<>> /\ Head(queue[c]) # Sentinel
        /\ last' = [last EXCEPT ![c] = Head(queue[c])] /\ queue' = [queue EXCEPT ![c] = Tail(queue[c])]
        /\ UNCHANGED <<registered, devLock, made, opened, handles, chunks, port, call, session,
                       writer, orphans, given, missed>>
    BY <1>7 DEF ReaderSends, SessionUnchanged
  <2>2. queue[c] \in Seq(Chunk \cup {Sentinel})
    BY <1>0 DEF PortsOK, Queues
  <2>3. /\ Head(queue[c]) \in Chunk \cup {Sentinel}
        /\ Tail(queue[c]) \in Seq(Chunk \cup {Sentinel})
    BY <2>1, <2>2, HeadTailProperties
  <2>4. Head(queue[c]) \in 0 .. MaxChunks
    BY <2>1, <2>3, SerialAssumption DEF Chunk
  <2>5. last' \in [Clients -> 0 .. MaxChunks] /\ queue' \in Queues
    BY <1>0, <2>1, <2>3, <2>4 DEF CallsOK, PortsOK, Queues
  <2>6. TypeOK'
    BY <1>0, <2>1, <2>5, TypeParts DEF PortsOK, CallsOK, CountsOK
  <2>7. IoInv' /\ HandleInv' /\ ReadInv'
    BY <2>1, QuietKeeps
  <2>8. CallInv' /\ ReachInv'
    BY <2>1, CallsStay
  <2> QED BY <2>6, <2>7, <2>8 DEF SerialInv
<1> QED BY <1>1, <1>2, <1>3, <1>4, <1>5, <1>6, <1>7 DEF SessionStep, ReaderStep

\* The steps that belong to nobody: a thread that comes to its end, and the calls that
\* touch the registered port in passing.
LEMMA PassingKeeps ==
  ASSUME SerialInv,
         \/ \E h \in Handles : OrphanEnds(h)
         \/ Clear
         \/ ReopenGadgetPorts
         \/ \E g \in Ports : WedgedReadEnds(g)
  PROVE  SerialInv'
<1>0. PortsOK /\ CallsOK /\ CountsOK
  BY TypeParts DEF SerialInv
<1>1. CASE \E h \in Handles : OrphanEnds(h)
  <2>1. /\ UNCHANGED <<registered, devLock, made, opened, handles, chunks, port, call, session,
                       queue, writer, last, given, missed>>
        /\ orphans' \subseteq orphans
    BY <1>1 DEF OrphanEnds, WriteUnchanged, SessionUnchanged
  <2>2. TypeOK'
    BY <1>0, <2>1, TypeParts DEF PortsOK, CallsOK, CountsOK
  <2>3. IoInv' /\ HandleInv' /\ ReadInv'
    BY <2>1, QuietKeeps
  <2>4. CallInv' /\ ReachInv'
    BY <2>1, CallsStay
  <2> QED BY <2>2, <2>3, <2>4 DEF SerialInv
<1>2. CASE Clear \/ ReopenGadgetPorts
  <2>1. UNCHANGED <<registered, devLock, made, opened, handles, chunks, call, session, queue,
                    writer, orphans, last, given, missed>>
    BY <1>2 DEF Clear, ReopenGadgetPorts, WriteUnchanged, SessionUnchanged
  <2>2. registered \in Ports /\ port[registered] \in PortRecord
    BY <1>0, <1>2, AlivePort DEF Clear, ReopenGadgetPorts, CallsOK, PortsOK
  <2> DEFINE p == port[registered]
             q == port'[registered]
  <2>3. /\ q \in PortRecord /\ port' = [port EXCEPT ![registered] = q]
        /\ q.drain = p.drain /\ q.io = p.io /\ q.ser = p.ser /\ q.reading = p.reading
    <3>1. CASE port' = [port EXCEPT ![registered] = [p EXCEPT !.buf = <<>>]]
      <4>1. q = [p EXCEPT !.buf = <<>>]
        BY <1>0, <2>2, <3>1 DEF PortsOK
      <4>2. <<>> \in Seq(Chunk)
        OBVIOUS
      <4> HIDE DEF p, q
      <4>3. /\ q \in PortRecord /\ q.drain = p.drain /\ q.io = p.io /\ q.ser = p.ser
            /\ q.reading = p.reading
        BY <2>2, <4>1, <4>2 DEF PortRecord, p
      <4> QED BY <3>1, <4>1, <4>3
    <3>2. CASE port' = [port EXCEPT ![registered] = [p EXCEPT !.reopen = TRUE]]
      BY <1>0, <2>2, <3>2 DEF PortsOK, PortRecord
    <3> QED BY <1>2, <3>1, <3>2 DEF Clear, ReopenGadgetPorts, Emptied
  <2> HIDE DEF q
  <2>4. /\ port' \in [Ports -> PortRecord]
        /\ \A h \in Ports : /\ port'[h].drain = port[h].drain /\ port'[h].io = port[h].io
                            /\ port'[h].ser = port[h].ser /\ port'[h].reading = port[h].reading
    BY <1>0, <2>2, <2>3 DEF PortsOK
  <2>5. TypeOK'
    BY <1>0, <2>1, <2>4, TypeParts DEF PortsOK, CallsOK, CountsOK
  <2>6. IoInv' /\ HandleInv' /\ ReadInv'
    BY <2>1, <2>4, QuietKeeps
  <2>7. CallInv' /\ ReachInv'
    BY <2>1, <2>4, CallsStay
  <2> QED BY <2>5, <2>6, <2>7 DEF SerialInv
<1>3. ASSUME NEW g \in Ports, WedgedReadEnds(g) PROVE SerialInv'
  <2>1. /\ UNCHANGED <<registered, devLock, made, opened, handles, chunks, call, session, queue,
                       writer, orphans, last, given, missed>>
        /\ port' = [port EXCEPT ![g].reading = FALSE]
    BY <1>3 DEF WedgedReadEnds
  <2>2. port' \in [Ports -> PortRecord]
    BY <1>0, <2>1 DEF PortsOK, PortRecord
  <2>3. \A h \in Ports : /\ port'[h].drain = port[h].drain /\ port'[h].io = port[h].io
                         /\ port'[h].ser = port[h].ser
                         /\ port'[h].reading => port[h].reading
    BY <1>0, <2>1 DEF PortsOK, PortRecord
  <2>4. TypeOK'
    BY <1>0, <2>1, <2>2, TypeParts DEF PortsOK, CallsOK, CountsOK
  <2>5. IoInv'
    BY <2>1, <2>3 DEF SerialInv, IoInv
  <2>6. HandleInv' /\ ReadInv'
    BY <2>1, <2>3 DEF SerialInv, HandleInv, ReadInv
  <2>7. CallInv' /\ ReachInv'
    BY <2>1, <2>3, CallsStay
  <2> QED BY <2>4, <2>5, <2>6, <2>7 DEF SerialInv
<1> QED BY <1>1, <1>2, <1>3

\* The invariant holds initially.
LEMMA InitInv == Init => SerialInv /\ AnsweredInv
<1> SUFFICES ASSUME Init PROVE SerialInv /\ AnsweredInv
  OBVIOUS
<1>1. TypeOK
  BY InitType
<1>2. /\ port = [g \in Ports |-> NoPort] /\ registered = 0 /\ made = 0 /\ handles = 0
      /\ call = [a \in Actors |-> Idle] /\ session = [c \in Clients |-> Away]
      /\ writer = [c \in Clients |-> "idle"]
  BY DEF Init, Nowhere
<1>3. NoPort.drain = "done" /\ NoPort.ser = 0 /\ ~NoPort.reading
  BY DEF NoPort, NewPort
<1>4. IoInv
  BY <1>2, <1>3 DEF IoInv
<1>5. HandleInv
  <2>1. \A g \in Ports : port[g].ser = 0 /\ port[g].drain = "done"
    BY <1>2, <1>3
  <2> QED BY <2>1, <1>2 DEF HandleInv
<1>6. ReadInv
  BY <1>2, <1>3 DEF ReadInv
<1>7. CallInv
  BY <1>2 DEF CallInv, Idle, Actors
<1>8. ReachInv
  BY <1>2, <1>3 DEF ReachInv, Alive, Over
<1>9. AnsweredInv
  BY <1>2 DEF AnsweredInv, Away
<1> QED BY <1>1, <1>4, <1>5, <1>6, <1>7, <1>8, <1>9 DEF SerialInv

\* Every step keeps it.
LEMMA NextKeeps ==
  SerialInv /\ AnsweredInv /\ [Next]_vars => SerialInv' /\ AnsweredInv'
<1> SUFFICES ASSUME SerialInv, AnsweredInv, [Next]_vars PROVE SerialInv' /\ AnsweredInv'
  OBVIOUS
<1>1. TypeOK
  BY DEF SerialInv
<1>2. AnsweredInv'
  BY <1>1, AnsweredKeeps
<1>3. ASSUME NEW g \in Ports, DrainStep(g) PROVE SerialInv'
  BY <1>1, <1>3, DrainType, DrainKeeps DEF SerialInv
<1>4. ASSUME NEW a \in Actors, CallStep(a) PROVE SerialInv'
  BY <1>1, <1>4, CallType, CallKeeps DEF SerialInv
<1>5. ASSUME NEW c \in Clients, SessionStep(c) \/ ReaderStep(c) PROVE SerialInv'
  BY <1>5, SessionKeeps
<1>6. CASE UNCHANGED vars
  <2>1. TypeOK'
    BY <1>1, <1>6 DEF TypeOK, vars
  <2>2. IoInv' /\ HandleInv' /\ ReadInv'
    BY <1>6, QuietKeeps DEF vars
  <2>3. CallInv' /\ ReachInv'
    BY <1>6, CallsStay DEF vars
  <2> QED BY <1>2, <2>1, <2>2, <2>3 DEF SerialInv
<1> QED BY <1>2, <1>3, <1>4, <1>5, <1>6, PassingKeeps DEF Next

\* The invariant is one.
LEMMA SerialInvariant == Spec => []SerialInv
<1>1. Spec => [](SerialInv /\ AnsweredInv)
  BY InitInv, NextKeeps, PTL DEF Spec
<1> QED BY <1>1, PTL

-----------------------------------------------------------------------------
(* What the sessions are shown.  Beside the type, the proofs need of the     *)
(* invariant above only that no second drain runs.                           *)

\* A queue keeps to its size, and only an attached session has anything in it.
RoomInv ==
    \A c \in Clients :
        /\ Len(queue[c]) <= QueueSize
        /\ session[c].at # "attached" => queue[c] = <<>>

\* What was sent is older than what waits, and what waits is in order, up to the newest
\* chunk that was given to anybody.
OrderInv ==
    /\ given <= chunks
    /\ \A c \in Clients :
        /\ last[c] <= given
        /\ \A i \in Waiting(c) :
            /\ queue[c][i] > last[c] /\ queue[c][i] <= given
            /\ \A j \in Waiting(c) : i < j => queue[c][i] < queue[c][j]

\* Backlog b keeps to its size and counts down from chunk n, to no further than v.
Ends(b, n, v) ==
    /\ Len(b) <= BufSize
    /\ \A i \in 1 .. Len(b) : b[i] = n - Len(b) + i /\ b[i] > v

\* A live backlog is nobody's, and it is the end of what came in and was given to nobody.
TailInv ==
    \A g \in Ports :
        Alive(g) /\ port[g].buf # <<>> =>
            Subs(g) = {} /\ Ends(port[g].buf, chunks, given)

ShownInv == RoomInv /\ DeathIsAnnounced /\ OrderInv /\ TailInv

\* A drain that is alive is the only one.
LEMMA OneAlive ==
  ASSUME SerialInv, NEW g \in Ports, NEW h \in Ports, Alive(g), Alive(h)
  PROVE  g = h
<1>1. ASSUME NEW k \in Ports, Alive(k)
      PROVE  k = registered \/ \E a \in Actors : call[a].at = "wait" /\ call[a].port = k
  BY <1>1 DEF SerialInv, ReachInv
<1>2. ASSUME NEW a \in Actors, call[a].at = "wait"
      PROVE  /\ registered \in {call[a].port, Nowhere}
             /\ \A b \in Actors : b # a => call[b].at = "idle"
  BY <1>2, OthersIdle DEF SerialInv, CallInv
<1>3. CASE \E a \in Actors : call[a].at = "wait"
  <2>1. PICK a \in Actors : call[a].at = "wait"
    BY <1>3
  <2>2. \A k \in Ports : Alive(k) => k = call[a].port
    BY <1>1, <1>2, <2>1 DEF Alive
  <2> QED BY <2>2
<1>4. CASE ~\E a \in Actors : call[a].at = "wait"
  BY <1>1, <1>4
<1> QED BY <1>3, <1>4

\* The head of the loop leaves the backlog alone.
LEMMA TurnBuf == ASSUME NEW p \in PortRecord PROVE Turn(p).buf = p.buf
<1>1. CASE p.stop
  BY <1>1 DEF Turn, Ended, PortRecord
<1>2. CASE ~p.stop /\ p.reopen
  BY <1>2 DEF Turn, PortRecord
<1>3. CASE ~p.stop /\ ~p.reopen
  BY <1>3 DEF Turn, PortRecord
<1> QED BY <1>1, <1>2, <1>3

\* A step of a drain reads a chunk or leaves the backlog and what is waiting alone; then it
\* goes on or ends.
LEMMA DrainGoes ==
  ASSUME PortsOK, CountsOK, NEW g \in Ports, DrainStep(g)
  PROVE  /\ Alive(g) /\ UNCHANGED <<session, last>>
         /\ \/ /\ Continue(g, port'[g], queue) /\ port'[g].buf = port[g].buf
               /\ UNCHANGED <<chunks, given>>
            \/ /\ Continue(g, port'[g], Posted(queue, g, chunks'))
               /\ port'[g].buf = Received(g, chunks').buf
               /\ chunks' = chunks + 1 /\ chunks' \in Chunk
               /\ given' = IF Subs(g) # {} THEN chunks' ELSE given
<1> DEFINE p == port[g]
           q == port'[g]
<1>0. p \in PortRecord /\ port \in [Ports -> PortRecord]
  BY DEF PortsOK
<1>1. ASSUME NEW r, NEW qs, Continue(g, r, qs)
      PROVE  q = r /\ Continue(g, q, qs)
  <2>1. q = r
    BY <1>0, <1>1 DEF Continue
  <2> QED BY <2>1, <1>1
<1>2. UNCHANGED <<session, last>>
  BY DEF DrainStep, DrainUnchanged, DrainStarts, ReadData, ReadNothing, ReadError,
     ReopenCloses, ReopenClosed, ReopenWaited, ReopenOpens, ReopenSucceeds, ReopenFails
<1>3. Alive(g)
  <2>1. g # Nowhere
    BY SerialAssumption DEF Ports, Nowhere
  <2> QED BY <2>1 DEF Alive, Over, DrainStep, DrainStarts, ReadData, ReadNothing, ReadError,
     ReopenCloses, ReopenClosed, ReopenWaited, ReopenOpens, ReopenSucceeds, ReopenFails
<1>4. CASE ReadData(g)
  <2> DEFINE r == [Received(g, chunks') EXCEPT !.reading = FALSE]
  <2>1. chunks' = chunks + 1 /\ chunks' \in Chunk
    BY <1>4, SerialAssumption DEF ReadData, CountsOK, Chunk
  <2>2. Received(g, chunks') \in PortRecord
    BY <2>1, ReceivedType
  <2>3. r \in PortRecord /\ r.buf = Received(g, chunks').buf
    BY <2>2 DEF PortRecord
  <2>4. Continue(g, Turn(r), Posted(queue, g, chunks'))
    BY <1>4 DEF ReadData
  <2>5. given' = IF Subs(g) # {} THEN chunks' ELSE given
    BY <1>4 DEF ReadData
  <2> HIDE DEF r, q
  <2>6. q = Turn(r) /\ Continue(g, q, Posted(queue, g, chunks'))
    BY <1>1, <2>4
  <2>7. q.buf = Received(g, chunks').buf
    BY <2>3, <2>6, TurnBuf
  <2> QED BY <1>2, <1>3, <2>1, <2>5, <2>6, <2>7 DEF q
<1>5. ASSUME NEW r, Continue(g, r, queue), r.buf = p.buf, UNCHANGED <<chunks, given>>
      PROVE  /\ Continue(g, q, queue) /\ q.buf = p.buf
             /\ UNCHANGED <<chunks, given>>
  BY <1>1, <1>5
<1>6. ASSUME NEW r \in PortRecord, Continue(g, Turn(r), queue), r.buf = p.buf,
             UNCHANGED <<chunks, given>>
      PROVE  /\ Continue(g, q, queue) /\ q.buf = p.buf
             /\ UNCHANGED <<chunks, given>>
  <2>1. Turn(r).buf = p.buf
    BY <1>6, TurnBuf
  <2> HIDE DEF p, q
  <2> QED BY <1>5, <1>6, <2>1
<1> HIDE DEF q
<1>n. [p EXCEPT !.reading = FALSE] \in PortRecord /\ [p EXCEPT !.reading = FALSE].buf = p.buf
  BY <1>0 DEF PortRecord
<1>7. CASE DrainStarts(g)
  BY <1>0, <1>2, <1>3, <1>6, <1>7 DEF DrainStarts, q
<1>8. CASE ReadNothing(g)
  BY <1>n, <1>2, <1>3, <1>6, <1>8 DEF ReadNothing, q
<1>9. CASE ReadError(g)
  <2> DEFINE n == [p EXCEPT !.reading = FALSE]
  <2>1. Ended(n).buf = p.buf /\ [n EXCEPT !.drain = "toClose"].buf = p.buf
    BY <1>n DEF Ended, PortRecord
  <2>2. Continue(g, Ended(n), queue) \/ Continue(g, [n EXCEPT !.drain = "toClose"], queue)
    BY <1>9 DEF ReadError
  <2>3. UNCHANGED <<chunks, given>>
    BY <1>9 DEF ReadError
  <2> HIDE DEF n
  <2> QED BY <2>1, <2>2, <2>3, <1>2, <1>3, <1>5 DEF q
<1>10. CASE ReopenCloses(g) \/ ReopenOpens(g)
  <2>1. ASSUME NEW d PROVE [p EXCEPT !.drain = d, !.io = Drain].buf = p.buf
    BY <1>0 DEF PortRecord
  <2>2. UNCHANGED <<chunks, given>>
    BY <1>10 DEF ReopenCloses, ReopenOpens
  <2>3. CASE ReopenCloses(g)
    <3>1. Continue(g, [p EXCEPT !.drain = "closing", !.io = Drain], queue)
      BY <2>3, Zenon DEF ReopenCloses
    <3> QED BY <2>1, <2>2, <3>1, <1>2, <1>3, <1>5, Zenon DEF q
  <2>4. CASE ReopenOpens(g)
    <3>1. Continue(g, [p EXCEPT !.drain = "opening", !.io = Drain], queue)
      BY <2>4, Zenon DEF ReopenOpens
    <3> QED BY <2>1, <2>2, <3>1, <1>2, <1>3, <1>5, Zenon DEF q
  <2> QED BY <1>10, <2>3, <2>4
<1>11. CASE ReopenClosed(g) \/ ReopenFails(g)
  <2> DEFINE r == [p EXCEPT !.io = Free]
             n == IF r.stop THEN Ended(r) ELSE [r EXCEPT !.drain = "backoff"]
  <2>1. n.buf = p.buf
    <3>1. Ended(r).buf = p.buf /\ [r EXCEPT !.drain = "backoff"].buf = p.buf
      BY <1>0 DEF Ended, PortRecord
    <3> QED BY <3>1
  <2>2. Continue(g, n, queue) /\ UNCHANGED <<chunks, given>>
    BY <1>11 DEF ReopenClosed, ReopenFails
  <2> HIDE DEF n
  <2> QED BY <2>1, <2>2, <1>2, <1>3, <1>5 DEF q
<1>12. CASE ReopenWaited(g)
  <2>1. Ended(p).buf = p.buf /\ [p EXCEPT !.drain = "toOpen"].buf = p.buf
    BY <1>0 DEF Ended, PortRecord
  <2>2. /\ Continue(g, Ended(p), queue) \/ Continue(g, [p EXCEPT !.drain = "toOpen"], queue)
        /\ UNCHANGED <<chunks, given>>
    BY <1>12 DEF ReopenWaited
  <2> QED BY <2>1, <2>2, <1>2, <1>3, <1>5 DEF q
<1>13. CASE ReopenSucceeds(g)
  <2> DEFINE r == [p EXCEPT !.ser = handles', !.io = Free]
  <2>1. handles' \in 0 .. MaxHandles
    BY <1>13, NewHandleType DEF ReopenSucceeds
  <2>2. r \in PortRecord /\ r.buf = p.buf
    BY <1>0, <2>1 DEF PortRecord
  <2>3. Continue(g, Turn(r), queue) /\ UNCHANGED <<chunks, given>>
    BY <1>13 DEF ReopenSucceeds
  <2> HIDE DEF r
  <2> QED BY <2>2, <2>3, <1>2, <1>3, <1>6 DEF q
<1> QED BY <1>4, <1>7, <1>8, <1>9, <1>10, <1>11, <1>12, <1>13 DEF DrainStep

\* What a post does to one queue: it has room and takes x at its end, or it stays.
LEMMA PostedEffect ==
  ASSUME NEW qs \in Queues, NEW g, NEW x \in Chunk \cup {Sentinel}, NEW c \in Clients
  PROVE  \/ Posted(qs, g, x)[c] = qs[c] /\ (c \in Subs(g) => Len(qs[c]) >= QueueSize)
         \/ /\ c \in Subs(g) /\ Len(qs[c]) < QueueSize
            /\ Len(Posted(qs, g, x)[c]) = Len(qs[c]) + 1
            /\ Posted(qs, g, x)[c][Len(qs[c]) + 1] = x
            /\ \A i \in 1 .. Len(qs[c]) : Posted(qs, g, x)[c][i] = qs[c][i]
<1>1. qs[c] \in Seq(Chunk \cup {Sentinel})
  BY DEF Queues
<1>2. Posted(qs, g, x)[c] =
        IF c \in Subs(g) /\ Len(qs[c]) < QueueSize THEN Append(qs[c], x) ELSE qs[c]
  BY DEF Posted
<1>3. /\ Len(Append(qs[c], x)) = Len(qs[c]) + 1
      /\ Append(qs[c], x)[Len(qs[c]) + 1] = x
      /\ \A i \in 1 .. Len(qs[c]) : Append(qs[c], x)[i] = qs[c][i]
  BY <1>1, AppendProperties
<1>4. Len(qs[c]) \in Nat /\ QueueSize \in Nat
  BY <1>1, SerialAssumption, LenProperties
<1> QED BY <1>2, <1>3, <1>4

\* A queue is its chunks and sentinels from 1 to its length, and its chunks are where
\* Waiting has them.
LEMMA WaitingIs ==
  ASSUME PortsOK, NEW c \in Clients
  PROVE  /\ queue[c] \in Seq(Chunk \cup {Sentinel}) /\ Len(queue[c]) \in Nat
         /\ DOMAIN queue[c] = 1 .. Len(queue[c])
         /\ Waiting(c) = {i \in 1 .. Len(queue[c]) : queue[c][i] # Sentinel}
<1>1. queue[c] \in Seq(Chunk \cup {Sentinel})
  BY DEF PortsOK, Queues
<1> QED BY <1>1, LenProperties DEF Waiting

\* When a drain goes on or ends with the queues qs, which hold what was waiting, then a
\* session of a port that is dead has the sentinel or had no room for it; and nothing but
\* what is in qs waits.
LEMMA ContinueShown ==
  ASSUME TypeOK, TypeOK', DeathIsAnnounced, NEW g \in Ports, NEW q, NEW qs \in Queues,
         Continue(g, q, qs),
         \A c \in Clients : Len(qs[c]) <= QueueSize,
         \A c \in Clients : Len(queue[c]) <= Len(qs[c])
                            /\ \A i \in 1 .. Len(queue[c]) : qs[c][i] = queue[c][i],
         \A c \in Clients : session'[c].at = "attached" => session'[c] = session[c],
         \A c \in Clients : session'[c].at # "attached" => qs[c] = <<>> /\ session[c].at # "attached"
  PROVE  /\ RoomInv' /\ DeathIsAnnounced'
         /\ \A c \in Clients : \A i \in Waiting(c)' :
                i \in 1 .. Len(qs[c]) /\ queue'[c][i] = qs[c][i]
<1>0. PortsOK /\ PortsOK' /\ CallsOK /\ CallsOK' /\ g # Nowhere
  BY TypeParts, SerialAssumption DEF Ports, Nowhere
<1>1. /\ queue' = IF q.drain \in Over THEN Posted(qs, g, Sentinel) ELSE qs
      /\ missed' = IF q.drain \in Over
                   THEN missed \cup {c \in Subs(g) : Len(qs[c]) = QueueSize} ELSE missed
      /\ port' = [port EXCEPT ![g] = q]
  BY DEF Continue
<1>2. /\ port'[g] = q
      /\ \A h \in Ports : h # g => port'[h] = port[h]
  BY <1>0, <1>1 DEF PortsOK
<1>3. \A c \in Clients : Len(qs[c]) \in Nat /\ QueueSize \in Nat
  BY SerialAssumption, LenProperties DEF Queues
<1>4. ASSUME NEW c \in Clients
      PROVE  \/ queue'[c] = qs[c] /\ (q.drain \in Over /\ c \in Subs(g) => Len(qs[c]) >= QueueSize)
             \/ /\ q.drain \in Over /\ c \in Subs(g) /\ Len(qs[c]) < QueueSize
                /\ Len(queue'[c]) = Len(qs[c]) + 1
                /\ queue'[c][Len(qs[c]) + 1] = Sentinel
                /\ \A i \in 1 .. Len(qs[c]) : queue'[c][i] = qs[c][i]
  BY <1>1, PostedEffect
<1>5. ASSUME NEW c \in Clients
      PROVE  /\ Len(queue'[c]) \in Nat /\ DOMAIN queue'[c] = 1 .. Len(queue'[c])
             /\ Waiting(c)' = {i \in 1 .. Len(queue'[c]) : queue'[c][i] # Sentinel}
             /\ Len(queue[c]) \in Nat /\ DOMAIN queue[c] = 1 .. Len(queue[c])
  <2>1. queue'[c] \in Seq(Chunk \cup {Sentinel})
    BY <1>0 DEF PortsOK, Queues
  <2> QED BY <1>0, <2>1, WaitingIs, LenProperties DEF Waiting
<1>6. ASSUME NEW c \in Clients
      PROVE  \A i \in 1 .. Len(qs[c]) : queue'[c][i] = qs[c][i]
  BY <1>4
<1>7. RoomInv'
  <2>1. ASSUME NEW c \in Clients PROVE Len(queue'[c]) <= QueueSize
    BY <1>3, <1>4
  <2>2. ASSUME NEW c \in Clients, session'[c].at # "attached" PROVE queue'[c] = <<>>
    <3>1. c \notin Subs(g) /\ qs[c] = <<>>
      BY <2>2 DEF Subs
    <3> QED BY <1>4, <3>1
  <2> QED BY <2>1, <2>2 DEF RoomInv
<1>8. ASSUME NEW c \in Clients, NEW i \in Waiting(c)'
      PROVE  i \in 1 .. Len(qs[c]) /\ queue'[c][i] = qs[c][i]
  BY <1>3, <1>4, <1>5
<1>9. ASSUME NEW c \in Clients, session'[c].at = "attached", ~Alive(session[c].port)'
      PROVE  c \in missed' \/ \E i \in DOMAIN queue'[c] : queue'[c][i] = Sentinel
  <2> DEFINE k == session[c].port
  <2>0. session'[c] = session[c] /\ session[c].at = "attached" /\ k \in 0 .. MaxPorts
        /\ session[c] \in SessionRecord
    BY <1>0, <1>9 DEF CallsOK, SessionRecord
  <2>1. CASE k = g
    <3>1. q.drain \in Over
      BY <1>0, <1>2, <1>9, <2>0, <2>1 DEF Alive
    <3>2. session[c] = [at |-> "attached", port |-> g]
      BY <2>0, <2>1 DEF SessionRecord
    <3>3. c \in Subs(g)
      BY <3>2 DEF Subs
    <3>4. CASE Len(qs[c]) >= QueueSize
      <4>1. Len(qs[c]) = QueueSize
        BY <1>3, <3>4
      <4> QED BY <1>1, <3>1, <3>3, <4>1
    <3>5. CASE ~(Len(qs[c]) >= QueueSize)
      <4>1. Len(queue'[c]) = Len(qs[c]) + 1 /\ queue'[c][Len(qs[c]) + 1] = Sentinel
        BY <1>4, <3>1, <3>3, <3>5
      <4> QED BY <1>3, <1>5, <4>1
    <3> QED BY <3>4, <3>5
  <2>2. CASE k # g
    <3>1. ~Alive(k)
      BY <1>2, <1>9, <2>0, <2>2, SerialAssumption DEF Alive, Ports, Nowhere
    <3>2. c \in missed \/ \E i \in DOMAIN queue[c] : queue[c][i] = Sentinel
      BY <2>0, <3>1 DEF DeathIsAnnounced
    <3>3. CASE c \in missed
      BY <1>1, <3>3
    <3>4. ASSUME NEW i \in DOMAIN queue[c], queue[c][i] = Sentinel
          PROVE  \E j \in DOMAIN queue'[c] : queue'[c][j] = Sentinel
      <4>1. i \in 1 .. Len(queue[c]) /\ i \in 1 .. Len(qs[c])
        BY <1>3, <1>5, <3>4
      <4>2. queue'[c][i] = Sentinel
        BY <1>6, <3>4, <4>1
      <4>3. i \in 1 .. Len(queue'[c])
        BY <1>3, <1>4, <1>5, <4>1
      <4> QED BY <1>5, <4>2, <4>3
    <3> QED BY <3>2, <3>3, <3>4
  <2> QED BY <2>1, <2>2
<1>10. DeathIsAnnounced'
  BY <1>9 DEF DeathIsAnnounced
<1> QED BY <1>7, <1>8, <1>10

\* A backlog that ends at chunk n and takes the next one ends there, and keeps to its size.
LEMMA TrimmedTail ==
  ASSUME NEW b \in Seq(Chunk), NEW n \in Nat, NEW v \in Nat, n >= v,
         NEW k \in Chunk, k = n + 1, Ends(b, n, v)
  PROVE  Ends(Trimmed(Append(b, k)), k, v)
<1> DEFINE a == Append(b, k)
           m == Len(b) + 1
<1>1. /\ a \in Seq(Chunk) /\ Len(a) = m
      /\ a[m] = k /\ \A i \in 1 .. Len(b) : a[i] = b[i]
  BY AppendProperties
<1>2. Len(b) \in Nat /\ BufSize \in Nat \ {0}
  BY SerialAssumption, LenProperties
<1>3. \A i \in 1 .. m : a[i] = k - m + i /\ a[i] > v
  BY <1>1, <1>2 DEF Ends
<1> HIDE DEF a
<1>4. ASSUME ~(m > BufSize)
      PROVE  Ends(Trimmed(a), k, v)
  <2>1. Trimmed(a) = a
    BY <1>1, <1>4 DEF Trimmed
  <2>2. Len(a) <= BufSize
    BY <1>1, <1>2, <1>4
  <2>3. \A i \in 1 .. Len(a) : a[i] = k - Len(a) + i /\ a[i] > v
    BY <1>1, <1>3
  <2> QED BY <2>1, <2>2, <2>3 DEF Ends
<1>5. ASSUME m > BufSize
      PROVE  Ends(Trimmed(a), k, v)
  <2> DEFINE t == SubSeq(a, m - BufSize + 1, m)
  <2>1. Trimmed(a) = t
    BY <1>1, <1>5 DEF Trimmed
  <2>2. /\ Len(t) = BufSize
        /\ \A i \in 1 .. BufSize : t[i] = a[m - BufSize + i]
    <3>1. m - BufSize + 1 \in 1 .. Len(a) + 1 /\ m \in m - BufSize .. Len(a)
      BY <1>1, <1>2, <1>5
    <3>2. Len(t) = BufSize
      BY <1>1, <1>2, <3>1, SubSeqProperties
    <3>3. ASSUME NEW i \in 1 .. BufSize PROVE t[i] = a[m - BufSize + i]
      <4>1. t[i] = a[m - BufSize + 1 + i - 1]
        BY <1>1, <1>2, <3>1, SubSeqProperties
      <4>2. m - BufSize + 1 + i - 1 = m - BufSize + i
        BY <1>2
      <4> QED BY <4>1, <4>2
    <3> QED BY <3>2, <3>3
  <2> HIDE DEF t
  <2>3. \A i \in 1 .. BufSize : m - BufSize + i \in 1 .. m
    BY <1>2, <1>5
  <2>4. \A i \in 1 .. BufSize : t[i] = k - BufSize + i /\ t[i] > v
    <3> SUFFICES ASSUME NEW i \in 1 .. BufSize
                 PROVE  t[i] = k - BufSize + i /\ t[i] > v
      OBVIOUS
    <3> DEFINE j == m - BufSize + i
    <3>1. j \in 1 .. m /\ t[i] = a[j]
      BY <2>2, <2>3
    <3>2. k - m + j = k - BufSize + i
      BY <1>2
    <3> HIDE DEF j
    <3> QED BY <1>3, <3>1, <3>2
  <2>5. Ends(t, k, v)
    BY <1>2, <2>2, <2>4 DEF Ends
  <2> QED BY <2>1, <2>5
<1> QED BY <1>4, <1>5 DEF a

\* A drain that goes on or ends without a chunk keeps what the sessions are shown in order.
LEMMA GoesOnShown ==
  ASSUME TypeOK, TypeOK', ShownInv, NEW g \in Ports, NEW q, Alive(g),
         Continue(g, q, queue), q.buf = port[g].buf, UNCHANGED <<last, chunks, given>>,
         \A c \in Clients : session'[c].at = "attached" => session'[c] = session[c],
         \A c \in Clients : session'[c].at # "attached" => session[c].at # "attached"
  PROVE  ShownInv'
<1>0. /\ PortsOK /\ PortsOK' /\ queue \in Queues
      /\ RoomInv /\ DeathIsAnnounced /\ OrderInv /\ TailInv
  BY TypeParts DEF ShownInv, PortsOK
<1>1. \A c \in Clients : session'[c].at # "attached" => queue[c] = <<>> /\ session[c].at # "attached"
  BY <1>0 DEF RoomInv
<1>2. \A c \in Clients : Len(queue[c]) <= QueueSize /\ Len(queue[c]) \in Nat
  BY <1>0, WaitingIs DEF RoomInv
<1>3. /\ RoomInv' /\ DeathIsAnnounced'
      /\ \A c \in Clients : \A i \in Waiting(c)' :
             i \in 1 .. Len(queue[c]) /\ queue'[c][i] = queue[c][i]
  BY <1>0, <1>1, <1>2, ContinueShown
<1>4. \A c \in Clients : \A i \in Waiting(c)' : i \in Waiting(c) /\ queue'[c][i] = queue[c][i]
  <2> SUFFICES ASSUME NEW c \in Clients, NEW i \in Waiting(c)'
               PROVE  i \in Waiting(c) /\ queue'[c][i] = queue[c][i]
    OBVIOUS
  <2>1. queue'[c][i] # Sentinel
    BY DEF Waiting
  <2> QED BY <1>0, <1>3, <2>1, WaitingIs
<1>5. OrderInv'
  BY <1>0, <1>4 DEF OrderInv
<1>6. TailInv'
  <2> SUFFICES ASSUME NEW h \in Ports, Alive(h)', port'[h].buf # <<>>
               PROVE  Subs(h)' = {} /\ Ends(port'[h].buf, chunks', given')
    BY DEF TailInv, Ends
  <2>1. Alive(h) /\ port'[h].buf = port[h].buf
    BY <1>0 DEF Continue, PortsOK, Alive
  <2>2. Subs(h) = {} /\ Ends(port[h].buf, chunks, given)
    BY <1>0, <2>1 DEF TailInv
  <2>3. Subs(h)' \subseteq Subs(h)
    BY DEF Subs
  <2> QED BY <2>1, <2>2, <2>3
<1> QED BY <1>3, <1>5, <1>6 DEF ShownInv

\* A drain keeps what the sessions are shown in order.
LEMMA DrainShown ==
  ASSUME SerialInv, TypeOK', ShownInv, NEW g \in Ports, DrainStep(g)
  PROVE  ShownInv'
<1> DEFINE x == chunks'
<1>0. /\ TypeOK /\ PortsOK /\ CallsOK /\ CountsOK /\ PortsOK' /\ CountsOK'
      /\ RoomInv /\ DeathIsAnnounced /\ OrderInv /\ TailInv /\ queue \in Queues
  BY TypeParts DEF SerialInv, ShownInv, PortsOK
<1>1. Alive(g) /\ UNCHANGED <<session, last>>
  BY <1>0, DrainGoes
<1>2. \A c \in Clients : session'[c].at # "attached" => queue[c] = <<>> /\ session[c].at # "attached"
  BY <1>0, <1>1 DEF RoomInv
<1>3. \A c \in Clients : Len(queue[c]) <= QueueSize /\ Len(queue[c]) \in Nat
  BY <1>0, WaitingIs DEF RoomInv
<1>4. \A h \in Ports : Subs(h)' = Subs(h)
  BY <1>1 DEF Subs
<1>5. /\ chunks \in Nat /\ given \in Nat /\ QueueSize \in Nat /\ BufSize \in Nat
      /\ \A c \in Clients : last[c] \in Nat /\ last'[c] = last[c]
  BY <1>0, <1>1, SerialAssumption DEF CountsOK, CallsOK
<1>6. CASE /\ Continue(g, port'[g], queue) /\ port'[g].buf = port[g].buf
           /\ UNCHANGED <<chunks, given>>
  BY <1>0, <1>1, <1>6, GoesOnShown
<1>7. CASE /\ Continue(g, port'[g], Posted(queue, g, x))
           /\ port'[g].buf = Received(g, x).buf
           /\ x = chunks + 1 /\ x \in Chunk
           /\ given' = IF Subs(g) # {} THEN x ELSE given
  <2> DEFINE qs == Posted(queue, g, x)
  <2>1. qs \in Queues
    BY <1>0, <1>7, PostedType
  <2>2. ASSUME NEW c \in Clients
        PROVE  \/ qs[c] = queue[c]
               \/ /\ c \in Subs(g) /\ Len(queue[c]) < QueueSize
                  /\ Len(qs[c]) = Len(queue[c]) + 1 /\ qs[c][Len(queue[c]) + 1] = x
                  /\ \A i \in 1 .. Len(queue[c]) : qs[c][i] = queue[c][i]
    BY <1>0, <1>7, PostedEffect
  <2> HIDE DEF qs, x
  <2>3. \A c \in Clients : Len(qs[c]) <= QueueSize
    BY <1>3, <1>5, <2>2
  <2>4. \A c \in Clients : Len(queue[c]) <= Len(qs[c])
                           /\ \A i \in 1 .. Len(queue[c]) : qs[c][i] = queue[c][i]
    BY <1>3, <2>2
  <2>5. \A c \in Clients : session'[c].at # "attached" => qs[c] = <<>> /\ session[c].at # "attached"
    <3> SUFFICES ASSUME NEW c \in Clients, session'[c].at # "attached"
                 PROVE  qs[c] = <<>> /\ session[c].at # "attached"
      OBVIOUS
    <3>1. session[c].at # "attached" /\ c \notin Subs(g) /\ queue[c] = <<>>
      BY <1>2 DEF Subs
    <3> QED BY <2>2, <3>1
  <2>6. /\ RoomInv' /\ DeathIsAnnounced'
        /\ \A c \in Clients : \A i \in Waiting(c)' :
               i \in 1 .. Len(qs[c]) /\ queue'[c][i] = qs[c][i]
    <3>1. Continue(g, port'[g], qs)
      BY <1>7 DEF qs
    <3>2. \A c \in Clients : session'[c].at = "attached" => session'[c] = session[c]
      BY <1>1
    <3> QED BY <1>0, <2>1, <2>3, <2>4, <2>5, <3>1, <3>2, ContinueShown
  <2>7. ASSUME NEW c \in Clients, NEW i \in Waiting(c)'
        PROVE  \/ i \in Waiting(c) /\ queue'[c][i] = queue[c][i]
               \/ i = Len(queue[c]) + 1 /\ queue'[c][i] = x /\ c \in Subs(g)
    <3>1. queue'[c][i] # Sentinel
      BY DEF Waiting
    <3>2. i \in 1 .. Len(qs[c]) /\ queue'[c][i] = qs[c][i]
      BY <2>6
    <3>3. CASE i \in 1 .. Len(queue[c])
      BY <1>0, <2>4, <3>1, <3>2, <3>3, WaitingIs
    <3>4. CASE i \notin 1 .. Len(queue[c])
      BY <1>3, <2>2, <3>2, <3>4
    <3> QED BY <3>3, <3>4
  <2>8. OrderInv'
    <3>1. given' <= chunks' /\ given <= given' /\ given < x /\ (Subs(g) # {} => given' = x)
      BY <1>0, <1>5, <1>7 DEF OrderInv, x
    <3>2. given' \in Nat /\ x \in Nat
      BY <1>5, <1>7
    <3> SUFFICES ASSUME NEW c \in Clients
                 PROVE  /\ last'[c] <= given'
                        /\ \A i \in Waiting(c)' :
                             /\ queue'[c][i] > last'[c] /\ queue'[c][i] <= given'
                             /\ \A j \in Waiting(c)' : i < j => queue'[c][i] < queue'[c][j]
      BY <3>1 DEF OrderInv
    <3>3. last[c] <= given /\ last[c] <= given'
      BY <1>0, <1>5, <3>1, <3>2 DEF OrderInv
    <3>4. ASSUME NEW i \in Waiting(c)
          PROVE  /\ queue[c][i] \in Nat /\ i \in 1 .. Len(queue[c])
                 /\ queue[c][i] > last[c] /\ queue[c][i] <= given
      <4>1. i \in 1 .. Len(queue[c]) /\ queue[c] \in Seq(Chunk \cup {Sentinel})
        BY <1>0, WaitingIs
      <4>2. queue[c][i] \in Chunk \cup {Sentinel}
        BY <4>1, ElementOfSeq
      <4> QED BY <1>0, <4>1, <4>2, SerialAssumption DEF OrderInv, Chunk, Sentinel
    <3>5. ASSUME NEW i \in Waiting(c)'
          PROVE  queue'[c][i] > last'[c] /\ queue'[c][i] <= given'
      <4>1. CASE i \in Waiting(c) /\ queue'[c][i] = queue[c][i]
        BY <1>5, <3>1, <3>2, <3>4, <4>1
      <4>2. CASE queue'[c][i] = x /\ c \in Subs(g)
        BY <1>5, <3>1, <3>2, <3>3, <4>2
      <4> QED BY <2>7, <4>1, <4>2
    <3>6. ASSUME NEW i \in Waiting(c)', NEW j \in Waiting(c)', i < j
          PROVE  queue'[c][i] < queue'[c][j]
      <4>1. CASE i \in Waiting(c) /\ queue'[c][i] = queue[c][i]
        <5>1. CASE j \in Waiting(c) /\ queue'[c][j] = queue[c][j]
          BY <1>0, <3>6, <4>1, <5>1 DEF OrderInv
        <5>2. CASE queue'[c][j] = x
          BY <1>5, <3>1, <3>2, <3>4, <4>1, <5>2
        <5> QED BY <2>7, <5>1, <5>2
      <4>2. CASE i = Len(queue[c]) + 1
        <5>1. j \in Waiting(c) \/ j = Len(queue[c]) + 1
          BY <2>7
        <5> QED BY <1>3, <3>4, <3>6, <4>2, <5>1
      <4> QED BY <2>7, <4>1, <4>2
    <3> QED BY <1>5, <3>3, <3>5, <3>6
  <2>9. TailInv'
    <3> SUFFICES ASSUME NEW h \in Ports, Alive(h)', port'[h].buf # <<>>
                 PROVE  Subs(h)' = {} /\ Ends(port'[h].buf, chunks', given')
      BY DEF TailInv, Ends
    <3>1. h = g
      <4>1. h # g => Alive(h)
        BY <1>0, <1>7 DEF Continue, PortsOK, Alive
      <4> QED BY <1>1, <4>1, OneAlive
    <3>2. port[g].buf \in Seq(Chunk) /\ port[g] \in PortRecord
      BY <1>0 DEF PortsOK, PortRecord
    <3>3. CASE Subs(g) # {}
      <4>1. port'[g].buf = port[g].buf
        BY <1>7, <3>3 DEF Received, x
      <4>2. port[g].buf = <<>>
        BY <1>0, <1>1, <3>3 DEF TailInv
      <4> QED BY <3>1, <4>1, <4>2
    <3>4. CASE Subs(g) = {}
      <4>1. port'[g].buf = Trimmed(Append(port[g].buf, x))
        <5>1. Received(g, x) = [port[g] EXCEPT !.buf = Trimmed(Append(port[g].buf, x))]
          BY <3>4 DEF Received
        <5> QED BY <1>7, <3>2, <5>1 DEF PortRecord
      <4>2. Ends(port[g].buf, chunks, given)
        <5>1. CASE port[g].buf = <<>>
          BY <1>5, <5>1 DEF Ends
        <5>2. CASE port[g].buf # <<>>
          BY <1>0, <1>1, <5>2 DEF TailInv
        <5> QED BY <5>1, <5>2
      <4>3. given' = given /\ x = chunks + 1 /\ chunks >= given /\ x \in Chunk
        BY <1>0, <1>5, <1>7, <3>4 DEF OrderInv
      <4>4. Ends(port'[g].buf, x, given)
        BY <1>5, <3>2, <4>1, <4>2, <4>3, TrimmedTail
      <4>5. Subs(h)' = {}
        BY <1>4, <3>1, <3>4
      <4> QED BY <3>1, <4>3, <4>4, <4>5 DEF x
    <3> QED BY <3>3, <3>4
  <2> QED BY <2>6, <2>8, <2>9 DEF ShownInv
<1> QED BY <1>0, <1>6, <1>7, DrainGoes

\* A step that leaves the queues and the live backlogs alone, or empties one, keeps it too.
LEMMA QuietShown ==
  ASSUME TypeOK, TypeOK', ShownInv, UNCHANGED <<queue, last, chunks, given, missed>>,
         \A h \in Ports : Alive(h) => Alive(h)',
         \A h \in Ports : Alive(h)' => \/ port'[h].buf = <<>>
                                       \/ Alive(h) /\ port'[h].buf = port[h].buf,
         \A c \in Clients : session'[c].at = "attached" => session'[c] = session[c],
         \A c \in Clients : session'[c].at # "attached" => session[c].at # "attached"
  PROVE  ShownInv'
<1>0. CallsOK /\ CallsOK' /\ RoomInv /\ DeathIsAnnounced /\ OrderInv /\ TailInv
  BY TypeParts DEF ShownInv
<1>1. RoomInv'
  BY <1>0 DEF RoomInv
<1>2. DeathIsAnnounced'
  <2> SUFFICES ASSUME NEW c \in Clients, session'[c].at = "attached", ~Alive(session[c].port)'
               PROVE  c \in missed \/ \E i \in DOMAIN queue[c] : queue[c][i] = Sentinel
    BY DEF DeathIsAnnounced
  <2>1. session[c].at = "attached" /\ session[c].port \in 0 .. MaxPorts
    BY <1>0 DEF CallsOK, SessionRecord
  <2>2. ~Alive(session[c].port)
    <3>1. ASSUME Alive(session[c].port) PROVE FALSE
      BY <2>1, <3>1, AlivePort
    <3> QED BY <3>1
  <2> QED BY <1>0, <2>1, <2>2 DEF DeathIsAnnounced
<1>3. OrderInv'
  BY <1>0 DEF OrderInv, Waiting
<1>4. TailInv'
  <2> SUFFICES ASSUME NEW h \in Ports, Alive(h)', port'[h].buf # <<>>
               PROVE  Subs(h)' = {} /\ Ends(port'[h].buf, chunks', given')
    BY DEF TailInv, Ends
  <2>1. Alive(h) /\ port'[h].buf = port[h].buf
    OBVIOUS
  <2>2. Subs(h) = {} /\ Ends(port[h].buf, chunks, given)
    BY <1>0, <2>1 DEF TailInv
  <2>3. Subs(h)' \subseteq Subs(h)
    BY DEF Subs
  <2> QED BY <2>1, <2>2, <2>3
<1> QED BY <1>1, <1>2, <1>3, <1>4 DEF ShownInv

\* An answer attaches nobody and detaches nobody.
LEMMA AnswerAttaches ==
  ASSUME CallsOK, NEW a \in Actors, NEW g, Answer(a, g),
         a \in Clients => session[a].at = "opening"
  PROVE  /\ \A c \in Clients : session'[c].at = "attached" => session'[c] = session[c]
         /\ \A c \in Clients : session'[c].at # "attached" => session[c].at # "attached"
<1> SUFFICES ASSUME NEW c \in Clients
             PROVE  \/ session'[c] = session[c]
                    \/ session'[c].at # "attached" /\ session[c].at # "attached"
  OBVIOUS
<1>1. CASE c # a
  BY <1>1 DEF Answer
<1>2. CASE c = a
  <2>1. session'[c] \in {Away, [at |-> "greeting", port |-> g]}
    BY <1>2 DEF Answer
  <2> QED BY <1>2, <2>1 DEF Away
<1> QED BY <1>1, <1>2

\* A construction makes a port that is alive and has no backlog, or none at all.
LEMMA ConstructShown ==
  ASSUME SerialInv, TypeOK', ShownInv, NEW a \in Actors, NEW kept, Construct(a, kept),
         a \in Clients => session[a].at = "opening",
         UNCHANGED <<queue, last, chunks, given, missed>>
  PROVE  ShownInv'
<1>0. TypeOK /\ CallsOK /\ PortsOK
  BY TypeParts DEF SerialInv
<1>1. \E g : Answer(a, g)
  BY DEF Construct
<1>2. \A h \in Ports : \/ port'[h] = port[h]
                       \/ port'[h].drain = "starting" /\ port'[h].buf = <<>>
  BY <1>0 DEF Construct, NewPort, PortsOK
<1>3. \A h \in Ports : /\ Alive(h) => Alive(h)'
                       /\ Alive(h)' => \/ port'[h].buf = <<>>
                                       \/ Alive(h) /\ port'[h].buf = port[h].buf
  <2> SUFFICES ASSUME NEW h \in Ports
               PROVE  /\ Alive(h) => Alive(h)'
                      /\ Alive(h)' => \/ port'[h].buf = <<>>
                                      \/ Alive(h) /\ port'[h].buf = port[h].buf
    OBVIOUS
  <2>1. CASE port'[h] = port[h]
    BY <2>1 DEF Alive
  <2>2. CASE port'[h].drain = "starting" /\ port'[h].buf = <<>>
    BY <2>2 DEF Alive, Over
  <2> QED BY <1>2, <2>1, <2>2
<1> QED BY <1>0, <1>1, <1>3, AnswerAttaches, QuietShown

\* A caller keeps what the sessions are shown in order.
LEMMA CallShown ==
  ASSUME SerialInv, TypeOK', ShownInv, NEW a \in Actors, CallStep(a)
  PROVE  ShownInv'
<1>0. TypeOK /\ CallsOK /\ PortsOK
  BY TypeParts DEF SerialInv
<1>1. a \in Clients => session[a].at = "opening"
  BY DEF CallStep, OpenReuses, OpenMakes, OpenReplaces, CloseTakes, CloseFindsNone, GetsLock,
     DrainAwaited, CancelledAwaited, DrainTimesOut, HandleClosed, HandleAbandoned, CallReturns,
     SerialInv, CallInv
<1>2. ASSUME UNCHANGED <<port, queue, last, chunks, given, missed>>,
             UNCHANGED session \/ \E g : Answer(a, g)
      PROVE  ShownInv'
  <2>1. /\ \A c \in Clients : session'[c].at = "attached" => session'[c] = session[c]
        /\ \A c \in Clients : session'[c].at # "attached" => session[c].at # "attached"
    BY <1>0, <1>1, <1>2, AnswerAttaches
  <2>2. \A h \in Ports : /\ Alive(h) <=> Alive(h)'
                         /\ port'[h].buf = port[h].buf
    BY <1>2 DEF Alive
  <2> QED BY <1>0, <1>2, <2>1, <2>2, QuietShown
<1>3. CASE \/ OpenReuses(a) \/ CloseFindsNone(a) \/ DrainAwaited(a) \/ CancelledAwaited(a)
           \/ HandleClosed(a) \/ HandleAbandoned(a)
  <2>1. UNCHANGED <<port, queue, last, chunks, given, missed>>
    BY <1>3 DEF OpenReuses, CloseFindsNone, DrainAwaited, CancelledAwaited, HandleClosed,
       HandleAbandoned, CloseAborts, QuietCall, CallUnchanged
  <2>2. UNCHANGED session \/ \E g : Answer(a, g)
    BY <1>3 DEF OpenReuses, CloseFindsNone, DrainAwaited, CancelledAwaited, HandleClosed,
       HandleAbandoned, CloseAborts
  <2> QED BY <1>2, <2>1, <2>2
<1>4. CASE OpenMakes(a)
  BY <1>0, <1>1, <1>4, ConstructShown DEF OpenMakes, QuietCall, CallUnchanged
<1>5. CASE CallReturns(a)
  <2>1. UNCHANGED <<queue, last, chunks, given, missed>>
    BY <1>5 DEF CallReturns, QuietCall, CallUnchanged
  <2>2. CASE Construct(a, Nowhere)
    BY <1>1, <2>1, <2>2, ConstructShown
  <2>3. CASE Answer(a, Nowhere) /\ UNCHANGED port
    BY <1>2, <2>1, <2>3
  <2> QED BY <1>5, <2>2, <2>3 DEF CallReturns
<1>6. CASE OpenReplaces(a) \/ CloseTakes(a)
  <2>1. \E verb, g : CloseBegins(a, verb, g)
    BY <1>6 DEF OpenReplaces, CloseTakes
  <2>2. PICK verb, g : CloseBegins(a, verb, g)
    BY <2>1
  <2>3. UNCHANGED <<session, queue, last, chunks, given, missed>>
    BY <2>2 DEF CloseBegins, QuietCall, CallUnchanged
  <2>4. port' = [port EXCEPT ![g].stop = TRUE]
    BY <2>2 DEF CloseBegins
  <2>5. \A h \in Ports : port'[h].drain = port[h].drain /\ port'[h].buf = port[h].buf
    BY <1>0, <2>4 DEF PortsOK, PortRecord
  <2>6. \A h \in Ports : Alive(h)' <=> Alive(h)
    BY <2>5 DEF Alive
  <2> QED BY <1>0, <2>3, <2>5, <2>6, QuietShown
<1>7. CASE DrainTimesOut(a)
  <2> DEFINE g == call[a].port
             i == IF port[g].io = Drain THEN Free ELSE port[g].io
             q == [port[g] EXCEPT !.drain = "cancelled", !.io = i]
  <2>1. Continue(g, q, queue) /\ Alive(g) /\ CloseAborts(a)
    BY <1>7 DEF DrainTimesOut
  <2>2. g \in Ports /\ port[g] \in PortRecord
    <3>1. g \in 0 .. MaxPorts
      BY <1>0 DEF CallsOK, CallRecord
    <3> QED BY <1>0, <2>1, <3>1, AlivePort DEF PortsOK
  <2>3. q.buf = port[g].buf
    BY <2>2 DEF PortRecord
  <2>4. UNCHANGED <<last, chunks, given>> /\ Answer(a, Nowhere)
    BY <2>1 DEF CloseAborts, CallUnchanged
  <2> HIDE DEF g, q
  <2> QED BY <1>0, <1>1, <2>1, <2>2, <2>3, <2>4, AnswerAttaches, GoesOnShown
<1> QED BY <1>3, <1>4, <1>5, <1>6, <1>7 DEF CallStep

\* The same of a session, which takes the backlog, sends what waits or leaves.
LEMMA SessionShown ==
  ASSUME SerialInv, SerialInv', ShownInv, NEW c \in Clients, SessionStep(c) \/ ReaderStep(c)
  PROVE  ShownInv'
<1> DEFINE g == session[c].port
<1>0. /\ TypeOK /\ TypeOK' /\ CallsOK /\ PortsOK /\ CountsOK /\ PortsOK' /\ CallsOK'
      /\ RoomInv /\ DeathIsAnnounced /\ OrderInv /\ TailInv
  BY TypeParts DEF ShownInv, SerialInv
<1>k. session[c] \in SessionRecord
  BY <1>0 DEF CallsOK
<1>1. CASE Connect(c)
  <2>1. UNCHANGED <<port, queue, last, chunks, given, missed>>
    BY <1>1 DEF Connect, SessionUnchanged
  <2>2. \A d \in Clients : \/ session'[d] = session[d]
                           \/ session'[d].at # "attached" /\ session[d].at # "attached"
    <3>1. session' \in [Clients -> SessionRecord] /\ session[c].at = "away"
      BY <1>0, <1>1 DEF CallsOK, Connect, Away
    <3> QED BY <1>0, <1>1, <1>k, <3>1 DEF Connect, CallsOK, SessionRecord
  <2>3. \A h \in Ports : Alive(h) <=> Alive(h)'
    BY <2>1 DEF Alive
  <2> QED BY <1>0, <2>1, <2>2, <2>3, QuietShown
<1>2. CASE AttachTooLate(c)
  <2>1. UNCHANGED <<queue, last, chunks, given, missed>> /\ Emptied(g) /\ session[c].at = "greeting"
    BY <1>2 DEF AttachTooLate, SessionUnchanged
  <2>2. \A h \in Ports : /\ port'[h].drain = port[h].drain
                         /\ port'[h].buf = <<>> \/ port'[h].buf = port[h].buf
    BY <1>0, <2>1 DEF Emptied, PortsOK, PortRecord
  <2>3. \A d \in Clients : \/ session'[d] = session[d]
                           \/ session'[d].at # "attached" /\ session[d].at # "attached"
    BY <1>0, <1>2 DEF AttachTooLate, CallsOK, Away
  <2>4. \A h \in Ports : Alive(h) <=> Alive(h)'
    BY <2>2 DEF Alive
  <2> QED BY <1>0, <2>1, <2>2, <2>3, <2>4, QuietShown
<1>3. CASE WriteStarts(c) \/ WriteEnds(c)
  <2>1. UNCHANGED <<session, queue, last, chunks, given, missed>>
    BY <1>3 DEF WriteStarts, WriteEnds, WriteUnchanged, SessionUnchanged
  <2>2. \A h \in Ports : port'[h].drain = port[h].drain /\ port'[h].buf = port[h].buf
    <3>1. CASE WriteStarts(c)
      <4>1. port' = [port EXCEPT ![g].io = c]
        BY <3>1 DEF WriteStarts
      <4> QED BY <1>0, <4>1 DEF PortsOK, PortRecord
    <3>2. CASE WriteEnds(c)
      <4>1. port' = [port EXCEPT ![g].io = Free]
        BY <3>2 DEF WriteEnds
      <4> QED BY <1>0, <4>1 DEF PortsOK, PortRecord
    <3> QED BY <1>3, <3>1, <3>2
  <2>3. \A h \in Ports : Alive(h) <=> Alive(h)'
    BY <2>2 DEF Alive
  <2> QED BY <1>0, <2>1, <2>2, <2>3, QuietShown
<1>4. CASE Attach(c)
  <2>1. /\ session[c].at = "greeting" /\ Alive(g) /\ session' = [session EXCEPT ![c].at = "attached"]
        /\ missed' = missed \ {c} /\ UNCHANGED <<queue, chunks>> /\ Emptied(g) /\ Subscribed(c)
    BY <1>4 DEF Attach, SessionUnchanged, Subscribed
  <2>2. g \in Ports
    BY <1>k, <2>1, AlivePort DEF SessionRecord
  <2>3. /\ port'[g].buf = <<>> /\ \A h \in Ports : h # g => port'[h] = port[h]
        /\ \A h \in Ports : port'[h].drain = port[h].drain
    BY <1>0, <2>1, <2>2 DEF Emptied, PortsOK, PortRecord
  <2>4. \A h \in Ports : Alive(h) <=> Alive(h)'
    BY <2>3 DEF Alive
  <2>5. /\ session'[c].at = "attached" /\ session'[c].port = g /\ queue[c] = <<>>
        /\ \A d \in Clients : d # c => session'[d] = session[d]
    BY <1>0, <1>k, <2>1 DEF CallsOK, SessionRecord, RoomInv
  <2>6. RoomInv'
    BY <1>0, <2>1, <2>5 DEF RoomInv
  <2>7. DeathIsAnnounced'
    <3> SUFFICES ASSUME NEW d \in Clients, session'[d].at = "attached",
                        ~Alive(session[d].port)'
                 PROVE  d \in missed' \/ \E i \in DOMAIN queue'[d] : queue'[d][i] = Sentinel
      BY DEF DeathIsAnnounced
    <3>1. d # c
      BY <2>1, <2>2, <2>3, <2>5 DEF Alive
    <3>2. session'[d] = session[d] /\ session[d].at = "attached" /\ session[d].port \in 0 .. MaxPorts
      BY <1>0, <2>5, <3>1 DEF CallsOK, SessionRecord
    <3>3. ~Alive(session[d].port)
      <4>1. ASSUME Alive(session[d].port) PROVE FALSE
        <5>1. session[d].port \in Ports
          BY <3>2, <4>1, AlivePort
        <5> QED BY <2>3, <3>2, <4>1, <5>1 DEF Alive
      <4> QED BY <4>1
    <3> QED BY <1>0, <2>1, <3>1, <3>2, <3>3 DEF DeathIsAnnounced
  <2>8. /\ Waiting(c)' = {}
        /\ \A d \in Clients : d # c => last'[d] = last[d]
        /\ \A d \in Clients : Waiting(d)' = Waiting(d)
        /\ given \in Nat /\ chunks \in Nat /\ \A d \in Clients : last[d] \in Nat
    BY <1>0, <2>1, <2>5, SerialAssumption DEF Waiting, CountsOK, CallsOK, Subscribed
  <2>9. OrderInv' /\ given' \in Nat /\ given <= given'
    <3>1. CASE port[g].buf = <<>>
      <4>1. UNCHANGED <<last, given>>
        BY <2>1, <3>1 DEF Subscribed
      <4> QED BY <1>0, <2>1, <2>8, <4>1 DEF OrderInv
    <3>2. CASE port[g].buf # <<>>
      <4> DEFINE b == port[g].buf
      <4>1. b \in Seq(Chunk) /\ Len(b) \in 1 .. Len(b) /\ Len(b) \in Nat
        BY <1>0, <2>2, <3>2, EmptySeq, LenProperties DEF PortsOK, PortRecord
      <4>2. b[Len(b)] = chunks /\ chunks > given
        <5>1. Ends(b, chunks, given)
          BY <1>0, <2>1, <2>2, <3>2 DEF TailInv
        <5> HIDE DEF b
        <5>2. b[Len(b)] = chunks - Len(b) + Len(b) /\ b[Len(b)] > given
          BY <4>1, <5>1 DEF Ends
        <5> QED BY <2>8, <4>1, <5>2
      <4>3. given' = chunks /\ last'[c] = chunks
        BY <1>0, <2>1, <3>2, <4>2 DEF Subscribed, CallsOK
      <4>4. \A d \in Clients : last'[d] <= given'
        BY <1>0, <2>8, <4>2, <4>3 DEF OrderInv
      <4>5. ASSUME NEW d \in Clients, NEW i \in Waiting(d)'
            PROVE  /\ queue'[d][i] > last'[d] /\ queue'[d][i] <= given'
                   /\ \A j \in Waiting(d)' : i < j => queue'[d][i] < queue'[d][j]
        <5>1. d # c /\ i \in Waiting(d) /\ last'[d] = last[d]
          BY <2>8
        <5>2. queue[d][i] \in Nat
          <6>1. i \in 1 .. Len(queue[d]) /\ queue[d] \in Seq(Chunk \cup {Sentinel})
            BY <1>0, <5>1, WaitingIs
          <6>2. queue[d][i] \in Chunk \cup {Sentinel}
            BY <6>1, ElementOfSeq
          <6> QED BY <6>2, SerialAssumption DEF Chunk, Sentinel
        <5>3. /\ queue[d][i] > last[d] /\ queue[d][i] <= given
              /\ \A j \in Waiting(d) : i < j => queue[d][i] < queue[d][j]
          BY <1>0, <5>1 DEF OrderInv
        <5> QED BY <2>1, <2>8, <4>2, <4>3, <5>1, <5>2, <5>3
      <4> QED BY <2>1, <2>8, <4>2, <4>3, <4>4, <4>5 DEF OrderInv
    <3> QED BY <3>1, <3>2
  <2>10. TailInv'
    <3> SUFFICES ASSUME NEW h \in Ports, Alive(h)', port'[h].buf # <<>> PROVE FALSE
      BY DEF TailInv
    <3>1. h # g /\ Alive(h)
      BY <2>3, <2>4
    <3> QED BY <2>1, <2>2, <3>1, OneAlive
  <2> QED BY <2>6, <2>7, <2>9, <2>10 DEF ShownInv
<1>5. CASE ReaderSends(c)
  <2>1. /\ queue[c] # <<>> /\ Head(queue[c]) # Sentinel
        /\ last' = [last EXCEPT ![c] = Head(queue[c])] /\ queue' = [queue EXCEPT ![c] = Tail(queue[c])]
        /\ UNCHANGED <<chunks, port, session, given, missed>> /\ session[c].at = "attached"
    BY <1>5 DEF ReaderSends, SessionUnchanged
  <2>2. /\ queue[c] \in Seq(Chunk \cup {Sentinel}) /\ Len(queue[c]) \in Nat /\ Len(queue[c]) >= 1
        /\ DOMAIN queue[c] = 1 .. Len(queue[c]) /\ Head(queue[c]) = queue[c][1]
        /\ Len(Tail(queue[c])) = Len(queue[c]) - 1
        /\ \A i \in 1 .. Len(queue[c]) - 1 : Tail(queue[c])[i] = queue[c][i + 1]
    <3>1. queue[c] \in Seq(Chunk \cup {Sentinel})
      BY <1>0 DEF PortsOK, Queues
    <3>2. Len(queue[c]) # 0
      BY <2>1, <3>1, EmptySeq
    <3> QED BY <2>1, <3>1, <3>2, HeadTailProperties, LenProperties
  <2>3. /\ queue'[c] = Tail(queue[c]) /\ last'[c] = queue[c][1]
        /\ \A d \in Clients : d # c => queue'[d] = queue[d] /\ last'[d] = last[d]
    BY <1>0, <2>1, <2>2 DEF CallsOK, PortsOK, Queues
  <2>4. /\ DOMAIN queue'[c] = 1 .. Len(queue[c]) - 1 /\ Len(queue'[c]) = Len(queue[c]) - 1
        /\ \A i \in 1 .. Len(queue[c]) - 1 : queue'[c][i] = queue[c][i + 1]
    <3>1. queue'[c] \in Seq(Chunk \cup {Sentinel})
      BY <1>0 DEF PortsOK, Queues
    <3> QED BY <2>2, <2>3, <3>1, LenProperties
  <2>5. RoomInv'
    BY <1>0, <2>1, <2>2, <2>3, <2>4, SerialAssumption DEF RoomInv
  <2>6. DeathIsAnnounced'
    <3> SUFFICES ASSUME NEW d \in Clients, session[d].at = "attached", ~Alive(session[d].port)
                 PROVE  d \in missed \/ \E i \in DOMAIN queue'[d] : queue'[d][i] = Sentinel
      BY <2>1 DEF DeathIsAnnounced, Alive
    <3>1. CASE d # c
      BY <1>0, <2>3, <3>1 DEF DeathIsAnnounced
    <3>2. ASSUME d = c, NEW i \in DOMAIN queue[c], queue[c][i] = Sentinel
          PROVE  \E j \in DOMAIN queue'[c] : queue'[c][j] = Sentinel
      <4>1. i # 1 /\ i \in 1 .. Len(queue[c])
        BY <2>1, <2>2, <3>2
      <4>2. i - 1 \in 1 .. Len(queue[c]) - 1 /\ i - 1 + 1 = i
        BY <2>2, <4>1
      <4>3. queue'[c][i - 1] = Sentinel
        BY <2>4, <3>2, <4>2
      <4> QED BY <2>4, <4>2, <4>3
    <3> QED BY <1>0, <3>1, <3>2 DEF DeathIsAnnounced
  <2>7. ASSUME NEW i \in Waiting(c)'
        PROVE  i + 1 \in Waiting(c) /\ queue'[c][i] = queue[c][i + 1] /\ i \in Nat /\ i >= 1
    <3>1. i \in 1 .. Len(queue[c]) - 1 /\ queue'[c][i] # Sentinel
      BY <2>4 DEF Waiting
    <3> QED BY <2>2, <2>4, <3>1 DEF Waiting
  <2>8. 1 \in Waiting(c)
    BY <2>1, <2>2 DEF Waiting
  <2>9. OrderInv'
    <3>1. last'[c] <= given' /\ \A i \in Waiting(c)' : queue'[c][i] > last'[c]
      <4>1. \A i \in Waiting(c)' : 1 < i + 1
        BY <2>7
      <4>2. \A i \in Waiting(c)' : queue[c][1] < queue[c][i + 1]
        BY <1>0, <2>7, <2>8, <4>1 DEF OrderInv
      <4>3. queue[c][1] \in Nat /\ \A i \in Waiting(c)' : queue[c][i + 1] \in Nat
        <5>1. \A i \in Waiting(c) : queue[c][i] \in Chunk \cup {Sentinel}
          BY <2>2, ElementOfSeq DEF Waiting
        <5>2. \A i \in Waiting(c) : queue[c][i] \in Nat
          BY <5>1, SerialAssumption DEF Chunk, Sentinel
        <5> QED BY <2>7, <2>8, <5>2
      <4> QED BY <1>0, <2>1, <2>3, <2>7, <2>8, <4>2, <4>3 DEF OrderInv
    <3>2. \A i \in Waiting(c)' :
             /\ queue'[c][i] <= given'
             /\ \A j \in Waiting(c)' : i < j => queue'[c][i] < queue'[c][j]
      <4>1. \A i \in Waiting(c)' : queue[c][i + 1] <= given
        BY <1>0, <2>7 DEF OrderInv
      <4>2. \A i, j \in Waiting(c)' : i < j => i + 1 < j + 1
        BY <2>7
      <4>3. \A i, j \in Waiting(c)' : i < j => queue[c][i + 1] < queue[c][j + 1]
        BY <1>0, <2>7, <4>2 DEF OrderInv
      <4> QED BY <2>1, <2>7, <4>1, <4>3
    <3>3. \A d \in Clients : d # c => Waiting(d)' = Waiting(d)
      BY <2>3 DEF Waiting
    <3>4. ASSUME NEW d \in Clients, d # c
          PROVE  /\ last'[d] <= given'
                 /\ \A i \in Waiting(d)' :
                      /\ queue'[d][i] > last'[d] /\ queue'[d][i] <= given'
                      /\ \A j \in Waiting(d)' : i < j => queue'[d][i] < queue'[d][j]
      BY <1>0, <2>1, <2>3, <3>3, <3>4 DEF OrderInv
    <3>5. given' <= chunks'
      BY <1>0, <2>1 DEF OrderInv
    <3> QED BY <3>1, <3>2, <3>4, <3>5 DEF OrderInv
  <2>10. TailInv'
    BY <1>0, <2>1 DEF TailInv, Alive, Subs, Ends
  <2> QED BY <2>5, <2>6, <2>9, <2>10 DEF ShownInv
<1>6. CASE Disconnected(c) \/ PortClosedSeen(c)
  <2>1. Leave(c)
    BY <1>6 DEF Disconnected, PortClosedSeen
  <2>2. /\ session' = [session EXCEPT ![c] = Away] /\ queue' = [queue EXCEPT ![c] = <<>>]
        /\ missed' = missed \ {c} /\ UNCHANGED <<chunks, last, given>>
    BY <2>1 DEF Leave, SessionUnchanged
  <2>3. /\ session'[c].at = "away" /\ queue'[c] = <<>>
        /\ \A d \in Clients : d # c => session'[d] = session[d] /\ queue'[d] = queue[d]
    BY <1>0, <2>2 DEF CallsOK, PortsOK, Queues, Away
  <2>4. \A h \in Ports : port'[h].drain = port[h].drain /\ port'[h].buf = port[h].buf
    <3>1. UNCHANGED port \/ port' = [port EXCEPT ![g].io = Free]
      BY <2>1 DEF Leave
    <3>2. CASE port' = [port EXCEPT ![g].io = Free]
      BY <1>0, <3>2 DEF PortsOK, PortRecord
    <3> QED BY <3>1, <3>2
  <2>5. RoomInv'
    <3>1. Len(<<>>) <= QueueSize
      BY SerialAssumption
    <3> QED BY <1>0, <2>3, <3>1 DEF RoomInv
  <2>6. DeathIsAnnounced'
    <3> SUFFICES ASSUME NEW d \in Clients, session'[d].at = "attached",
                        ~Alive(session[d].port)'
                 PROVE  d \in missed' \/ \E i \in DOMAIN queue'[d] : queue'[d][i] = Sentinel
      BY DEF DeathIsAnnounced
    <3>1. d # c
      BY <2>3
    <3>2. session'[d] = session[d] /\ session[d].at = "attached" /\ session[d].port \in 0 .. MaxPorts
      BY <1>0, <2>3, <3>1 DEF CallsOK, SessionRecord
    <3>3. ~Alive(session[d].port)
      <4>1. ASSUME Alive(session[d].port) PROVE FALSE
        <5>1. session[d].port \in Ports
          BY <3>2, <4>1, AlivePort
        <5> QED BY <2>4, <3>2, <4>1, <5>1 DEF Alive
      <4> QED BY <4>1
    <3> QED BY <1>0, <2>2, <2>3, <3>1, <3>2, <3>3 DEF DeathIsAnnounced
  <2>7. OrderInv'
    <3>1. Waiting(c)' = {} /\ \A d \in Clients : d # c => Waiting(d)' = Waiting(d)
      BY <2>3 DEF Waiting
    <3> QED BY <1>0, <2>2, <2>3, <3>1 DEF OrderInv
  <2>8. TailInv'
    <3>1. \A h \in Ports : Subs(h)' \subseteq Subs(h)
      BY <2>3 DEF Subs
    <3> QED BY <1>0, <2>2, <2>4, <3>1 DEF TailInv, Alive, Ends
  <2> QED BY <2>5, <2>6, <2>7, <2>8 DEF ShownInv
<1> QED BY <1>1, <1>2, <1>3, <1>4, <1>5, <1>6 DEF SessionStep, ReaderStep

\* So do the steps that belong to nobody.
LEMMA PassingShown ==
  ASSUME TypeOK, TypeOK', ShownInv,
         \/ \E h \in Handles : OrphanEnds(h)
         \/ Clear
         \/ ReopenGadgetPorts
         \/ \E g \in Ports : WedgedReadEnds(g)
         \/ UNCHANGED vars
  PROVE  ShownInv'
<1>1. UNCHANGED <<session, queue, last, chunks, given, missed>>
  BY DEF OrphanEnds, Clear, ReopenGadgetPorts, WedgedReadEnds, WriteUnchanged, SessionUnchanged, vars
<1>2. \A h \in Ports : /\ port'[h].drain = port[h].drain
                       /\ port'[h].buf = <<>> \/ port'[h].buf = port[h].buf
  <2>1. port \in [Ports -> PortRecord]
    BY TypeParts DEF PortsOK
  <2>2. \/ UNCHANGED port
        \/ port' = [port EXCEPT ![registered].buf = <<>>]
        \/ port' = [port EXCEPT ![registered].reopen = TRUE]
        \/ \E g \in Ports : port' = [port EXCEPT ![g].reading = FALSE]
    BY DEF OrphanEnds, Clear, Emptied, ReopenGadgetPorts, WedgedReadEnds, vars
  <2>3. CASE port' = [port EXCEPT ![registered].buf = <<>>]
    BY <2>1, <2>3 DEF PortRecord
  <2>4. CASE port' = [port EXCEPT ![registered].reopen = TRUE]
    BY <2>1, <2>4 DEF PortRecord
  <2>5. ASSUME NEW g \in Ports, port' = [port EXCEPT ![g].reading = FALSE]
        PROVE  \A h \in Ports : port'[h].drain = port[h].drain /\ port'[h].buf = port[h].buf
    BY <2>1, <2>5 DEF PortRecord
  <2> QED BY <2>2, <2>3, <2>4, <2>5
<1>3. \A h \in Ports : Alive(h) <=> Alive(h)'
  BY <1>2 DEF Alive
<1> QED BY <1>1, <1>2, <1>3, QuietShown

\* What the sessions are shown is in order, whatever happens.
LEMMA ShownInvariant == Spec => []ShownInv
<1>1. Init => ShownInv
  <2> SUFFICES ASSUME Init PROVE ShownInv
    OBVIOUS
  <2>1. /\ queue = [c \in Clients |-> <<>>] /\ last = [c \in Clients |-> 0]
        /\ given = 0 /\ chunks = 0 /\ session = [c \in Clients |-> Away]
        /\ port = [g \in Ports |-> NoPort] /\ NoPort.drain = "done"
    BY DEF Init, NoPort, NewPort
  <2>2. RoomInv
    <3>1. Len(<<>>) <= QueueSize
      BY SerialAssumption
    <3> QED BY <2>1, <3>1 DEF RoomInv
  <2>3. DeathIsAnnounced
    BY <2>1 DEF DeathIsAnnounced, Away
  <2>4. OrderInv
    <3>1. \A c \in Clients : Waiting(c) = {}
      BY <2>1 DEF Waiting
    <3> QED BY <2>1, <3>1 DEF OrderInv
  <2>5. TailInv
    BY <2>1 DEF TailInv, Alive, Over
  <2> QED BY <2>2, <2>3, <2>4, <2>5 DEF ShownInv
<1>2. ASSUME SerialInv, SerialInv', ShownInv, [Next]_vars PROVE ShownInv'
  <2>1. TypeOK /\ TypeOK'
    BY <1>2 DEF SerialInv
  <2>2. ASSUME NEW g \in Ports, DrainStep(g) PROVE ShownInv'
    BY <1>2, <2>1, <2>2, DrainShown
  <2>3. ASSUME NEW a \in Actors, CallStep(a) PROVE ShownInv'
    BY <1>2, <2>1, <2>3, CallShown
  <2>4. ASSUME NEW c \in Clients, SessionStep(c) \/ ReaderStep(c) PROVE ShownInv'
    BY <1>2, <2>4, SessionShown
  <2> QED BY <1>2, <2>1, <2>2, <2>3, <2>4, PassingShown DEF Next
<1> QED BY <1>1, <1>2, SerialInvariant, PTL DEF Spec

-----------------------------------------------------------------------------
(* The theorems.                                                           *)

\* Type correctness of the serial console, for any number of pages, requests, ports and
\* chunks (server.py, SerialManager, _Port and ws_serial).
THEOREM TypeCorrect == Spec => []TypeOK
<1>1. SerialInv => TypeOK
  BY DEF SerialInv
<1> QED BY <1>1, SerialInvariant, PTL

\* No page is shown a chunk twice, nor one that is older than what it was shown before, over
\* every reconnection of the page and of the port: what waits for it is newer and in order,
\* and a backlog is newer than all that anybody was given (_drain, subscribe and ws_serial).
THEOREM NothingShownTwice == Spec => []ShownOnce
<1>1. SerialInv /\ ShownInv => ShownOnce
  <2> SUFFICES ASSUME SerialInv, ShownInv PROVE ShownOnce
    OBVIOUS
  <2>1. \A c \in Clients : \A i \in Waiting(c) :
          /\ queue[c][i] > last[c]
          /\ \A j \in Waiting(c) : i < j => queue[c][i] < queue[c][j]
    BY DEF ShownInv, OrderInv
  <2>2. ASSUME NEW g \in Ports, Alive(g), NEW i \in DOMAIN port[g].buf
        PROVE  port[g].buf[i] > given
    <3>1. port[g].buf \in Seq(Chunk)
      BY TypeParts DEF SerialInv, PortsOK, PortRecord
    <3>2. i \in 1 .. Len(port[g].buf) /\ port[g].buf # <<>>
      BY <2>2, <3>1, LenProperties
    <3>3. Ends(port[g].buf, chunks, given)
      BY <2>2, <3>2 DEF ShownInv, TailInv
    <3> QED BY <3>2, <3>3 DEF Ends
  <2> QED BY <2>1, <2>2 DEF ShownOnce
<1> QED BY <1>1, SerialInvariant, ShownInvariant, PTL

\* The backlog of a port that nobody is attached to is the end of what it received, without
\* a gap, up to the last chunk, and no longer than the ring buffer (_drain).
THEOREM BacklogIsTail == Spec => []BacklogIsTheTail
<1>1. SerialInv /\ ShownInv => BacklogIsTheTail
  <2> SUFFICES ASSUME SerialInv, ShownInv, NEW g \in Ports, Alive(g), port[g].buf # <<>>
               PROVE  LET b == port[g].buf IN
                      /\ Len(b) <= BufSize
                      /\ \A i \in DOMAIN b : b[i] = b[1] + i - 1
                      /\ Subs(g) = {} /\ b[Len(b)] = chunks
    BY DEF BacklogIsTheTail
  <2> DEFINE b == port[g].buf
  <2>1. b \in Seq(Chunk) /\ chunks \in Nat
    BY TypeParts, SerialAssumption DEF SerialInv, PortsOK, PortRecord, CountsOK
  <2>2. Subs(g) = {} /\ Ends(b, chunks, given)
    BY DEF ShownInv, TailInv
  <2>3. b # <<>>
    OBVIOUS
  <2> HIDE DEF b
  <2>4. DOMAIN b = 1 .. Len(b) /\ Len(b) \in Nat /\ 1 \in 1 .. Len(b) /\ Len(b) \in 1 .. Len(b)
    BY <2>1, <2>3, EmptySeq, LenProperties
  <2>5. Len(b) <= BufSize /\ \A i \in 1 .. Len(b) : b[i] = chunks - Len(b) + i
    BY <2>2 DEF Ends
  <2>6. b[Len(b)] = chunks /\ b[1] = chunks - Len(b) + 1
    BY <2>1, <2>4, <2>5
  <2>7. \A i \in DOMAIN b : b[i] = b[1] + i - 1
    BY <2>1, <2>4, <2>5, <2>6
  <2> QED BY <2>2, <2>5, <2>6, <2>7 DEF b
<1> QED BY <1>1, SerialInvariant, ShownInvariant, PTL

\* A session whose port is dead has the sentinel in front of it, unless its queue was full
\* when the drain ended: no attached session is left to wait without it by the order in
\* which port, drain and page come and go (_drain's finally, and what ws_serial asks of the
\* port after subscribe).
THEOREM DeathAnnounced == Spec => []DeathIsAnnounced
<1>1. ShownInv => DeathIsAnnounced
  BY DEF ShownInv
<1> QED BY <1>1, ShownInvariant, PTL

\* No two drains read the tty of a device at the same time, and a running drain can be
\* reached by the next close: open and close hold the lock of the device from before they
\* look at the registered port to after the old one has ended (SerialManager._lock_for).
THEOREM OneDrainAlways == Spec => []OneDrain
<1>1. SerialInv => OneDrain
  <2> SUFFICES ASSUME SerialInv, NEW g \in Ports, NEW h \in Ports, Alive(g)
               PROVE  /\ Alive(h) => g = h
                      /\ g = registered \/ \E a \in Actors : call[a].at = "wait" /\ call[a].port = g
    BY DEF OneDrain
  <2>1. Alive(h) => g = h
    BY OneAlive
  <2> QED BY <2>1 DEF SerialInv, ReachInv
<1> QED BY <1>1, SerialInvariant, PTL

\* While a session waits for its write, _iolock is its own and the handle the write began
\* on stays open: neither a reconnection nor a close takes it away (_Port.write, _reopen
\* and _close_handle).
THEOREM AwaitedWriteIsSafe == Spec => []AwaitedWriteKeepsHandle
<1>1. SerialInv => AwaitedWriteKeepsHandle
  BY DEF SerialInv, IoInv, AwaitedWriteKeepsHandle
<1> QED BY <1>1, SerialInvariant, PTL

\* A read that is in the pool has an open handle, through every reconnection and every
\* close, also one that gave up (_drain, _reopen and _Port.close).
THEOREM ReadIsSafe == Spec => []ReadKeepsHandle
<1>1. SerialInv => ReadKeepsHandle
  BY DEF SerialInv, ReadInv, ReadKeepsHandle
<1> QED BY <1>1, SerialInvariant, PTL
=============================================================================
