---------------------------- MODULE EventStream ----------------------------
(***************************************************************************)
(* The event bus (EventBus) and its subscribers (ws_events).  A page that  *)
(* connects is subscribed first; a snapshot of the state is then read on a *)
(* pool thread, domain by domain, while the poller goes on publishing; the *)
(* page is sent the snapshot, the replayed events and the live ones, and   *)
(* folds them into its picture of the state.                               *)
(*                                                                         *)
(* An event is a coarse one, the new state of a domain; the semantic       *)
(* events that come with it are in TargetEvents.                           *)
(***************************************************************************)
EXTENDS Naturals, Sequences

CONSTANTS
    Pages,          \* subscribers
    Areas,          \* the domains of the state
    Values,         \* what a domain may be
    RingMax,        \* events kept for replay (256)
    QueueMax,       \* slots of a subscriber's queue (1024)
    MaxSeq          \* bound: events ever published

ASSUME StreamAssumption == {RingMax, QueueMax, MaxSeq} \subseteq Nat \ {0}

VARIABLES
    actual,     \* the state of each domain
    polled,     \* the poller's last sample of it
    reading,    \* the sample it has read on a pool thread and not yet published
    seq, ring,  \* the bus: number of the last event, recent events
    page,       \* where each page's ws_events is
    snap,       \* what its snapshot has read so far
    recent,     \* the events it is still to be replayed
    inbox,      \* its queue
    picture,    \* the state the page folded from what it was sent
    sent,       \* number of the last event it was sent or passed over at subscription
    heard,      \* the domains it was sent an event of
    behind      \* it has missed an event: its queue was full

streamVars == <<actual, polled, reading, seq, ring, page, snap, recent, inbox, picture, sent, heard,
                behind>>
bus == <<polled, reading, seq, ring>>
delivery == <<picture, sent, heard, behind>>

Unread == "unread"
Blank == [a \in Areas |-> Unread]
Coarse(n, a, v) == [seq |-> n, area |-> a, is |-> v]
NoReading == Coarse(0, "none", Unread)
Subscribed(p) == page[p] # "away"

StreamInit ==
    /\ actual \in [Areas -> Values]
    /\ polled = Blank /\ reading = NoReading
    /\ seq = 0 /\ ring = <<>>
    /\ page = [p \in Pages |-> "away"]
    /\ snap = [p \in Pages |-> Blank]
    /\ recent = [p \in Pages |-> <<>>]
    /\ inbox = [p \in Pages |-> <<>>]
    /\ picture = [p \in Pages |-> Blank]
    /\ sent = [p \in Pages |-> 0]
    /\ heard = [p \in Pages |-> {}]
    /\ behind = [p \in Pages |-> FALSE]

-----------------------------------------------------------------------------
(* The state and the poller.                                               *)

\* Something happens at the target or at the Pi.
Change(a, v) ==
    /\ actual[a] # v
    /\ actual' = [actual EXCEPT ![a] = v]
    /\ UNCHANGED <<bus, page, snap, recent, inbox, delivery>>

\* The newest n events of a sequence, oldest first.
Newest(n, s) == SubSeq(s, IF Len(s) > n THEN Len(s) - n + 1 ELSE 1, Len(s))

\* _publish: number it, keep it for replay, and hand it to every queue with room.
Publish(a, v) ==
    LET ev == Coarse(seq + 1, a, v)
        full == {p \in Pages : Subscribed(p) /\ Len(inbox[p]) = QueueMax}
    IN  /\ seq' = seq + 1
        /\ ring' = Newest(RingMax, Append(ring, ev))
        /\ inbox' = [p \in Pages |-> IF Subscribed(p) /\ p \notin full
                                     THEN Append(inbox[p], ev) ELSE inbox[p]]
        /\ behind' = [p \in Pages |-> behind[p] \/ p \in full]

\* The poller samples a domain and finds it changed; the slow ones are read on a pool
\* thread, and may have changed again by the time the sample is published.
PollReads(a) ==
    /\ seq < MaxSeq /\ reading = NoReading /\ polled[a] # actual[a]
    /\ reading' = Coarse(0, a, actual[a])
    /\ UNCHANGED <<actual, polled, seq, ring, page, snap, recent, inbox, delivery>>

PollPublishes ==
    /\ reading # NoReading
    /\ Publish(reading.area, reading.is)
    /\ polled' = [polled EXCEPT ![reading.area] = reading.is]
    /\ reading' = NoReading
    /\ UNCHANGED <<actual, page, snap, recent, picture, sent, heard>>

-----------------------------------------------------------------------------
(* ws_events.                                                              *)

\* Slip: the replay begins one event before the sequence number the page is told.
SubscribeOneMore(p, replay) ==
    /\ page[p] = "away"
    /\ page' = [page EXCEPT ![p] = "building"]
    /\ recent' = [recent EXCEPT ![p] = Newest(replay + 1, ring)]
    /\ sent' = [sent EXCEPT ![p] = seq - Len(Newest(replay, ring))]
    /\ UNCHANGED <<actual, bus, snap, inbox, picture, heard, behind>>

\* subscribe(replay), right after the connection is accepted.
Subscribe(p, replay) ==
    /\ page[p] = "away"
    /\ page' = [page EXCEPT ![p] = "building"]
    /\ recent' = [recent EXCEPT ![p] = Newest(replay, ring)]
    /\ sent' = [sent EXCEPT ![p] = seq - Len(recent'[p])]
    /\ UNCHANGED <<actual, bus, snap, inbox, picture, heard, behind>>

\* _events_snapshot, on a pool thread.
ReadArea(p, a) ==
    /\ page[p] = "building" /\ snap[p][a] = Unread
    /\ snap' = [snap EXCEPT ![p][a] = actual[a]]
    /\ UNCHANGED <<actual, bus, page, recent, inbox, delivery>>

\* Slip: what is queued by now is sent ahead of the snapshot.
SendSnapshotLast(p) ==
    /\ page[p] = "building" /\ \A a \in Areas : snap[p][a] # Unread
    /\ page' = [page EXCEPT ![p] = "live"]
    /\ picture' = [picture EXCEPT ![p] = snap[p]]
    /\ snap' = [snap EXCEPT ![p] = Blank]
    /\ LET queued == recent[p] \o inbox[p]
       IN  heard' = [heard EXCEPT ![p] = {queued[i].area : i \in DOMAIN queued}]
    /\ recent' = [recent EXCEPT ![p] = <<>>] /\ inbox' = [inbox EXCEPT ![p] = <<>>]
    /\ sent' = [sent EXCEPT ![p] = seq]
    /\ UNCHANGED <<actual, bus, behind>>

SendSnapshot(p) ==
    /\ page[p] = "building" /\ \A a \in Areas : snap[p][a] # Unread
    /\ page' = [page EXCEPT ![p] = "live"]
    /\ picture' = [picture EXCEPT ![p] = snap[p]]
    /\ snap' = [snap EXCEPT ![p] = Blank]
    /\ UNCHANGED <<actual, bus, recent, inbox, sent, heard, behind>>

\* The page folds what it is sent.
Folds(p, ev) ==
    /\ picture' = [picture EXCEPT ![p][ev.area] = ev.is]
    /\ heard' = [heard EXCEPT ![p] = @ \cup {ev.area}]
    /\ sent' = [sent EXCEPT ![p] = ev.seq]

SendReplay(p) ==
    /\ page[p] = "live" /\ recent[p] # <<>>
    /\ Folds(p, Head(recent[p]))
    /\ recent' = [recent EXCEPT ![p] = Tail(@)]
    /\ UNCHANGED <<actual, bus, page, snap, inbox, behind>>

SendLive(p) ==
    /\ page[p] = "live" /\ recent[p] = <<>> /\ inbox[p] # <<>>
    /\ Folds(p, Head(inbox[p]))
    /\ inbox' = [inbox EXCEPT ![p] = Tail(@)]
    /\ UNCHANGED <<actual, bus, page, snap, recent, behind>>

\* recv_drain finds the page gone, at any time: it is unsubscribed.
Unsubscribe(p) ==
    /\ Subscribed(p)
    /\ page' = [page EXCEPT ![p] = "away"]
    /\ snap' = [snap EXCEPT ![p] = Blank] /\ picture' = [picture EXCEPT ![p] = Blank]
    /\ recent' = [recent EXCEPT ![p] = <<>>] /\ inbox' = [inbox EXCEPT ![p] = <<>>]
    /\ sent' = [sent EXCEPT ![p] = 0]
    /\ heard' = [heard EXCEPT ![p] = {}]
    /\ behind' = [behind EXCEPT ![p] = FALSE]
    /\ UNCHANGED <<actual, bus>>

-----------------------------------------------------------------------------

PageStep(p) ==
    \/ \E replay \in 0 .. RingMax : Subscribe(p, replay)
    \/ \E a \in Areas : ReadArea(p, a)
    \/ SendSnapshot(p) \/ SendReplay(p) \/ SendLive(p) \/ Unsubscribe(p)

StreamNext ==
    \/ \E a \in Areas, v \in Values : Change(a, v)
    \/ \E a \in Areas : PollReads(a)
    \/ PollPublishes
    \/ \E p \in Pages : PageStep(p)

StreamSpec == StreamInit /\ [][StreamNext]_streamVars

-----------------------------------------------------------------------------
(* Properties.                                                             *)

ToSend(p) == recent[p] \o inbox[p]

\* A page is sent every event from its replay on, once and in order: what it was sent and
\* what waits for it join without a gap or a repetition, whenever it subscribed and however
\* long its snapshot took, unless its queue was full ("so a client can see what happened
\* just before it connected").
NothingMissed ==
    \A p \in Pages : Subscribed(p) =>
        LET numbers == [i \in DOMAIN ToSend(p) |-> ToSend(p)[i].seq] IN
        IF behind[p]
        THEN \A i \in DOMAIN numbers : numbers[i] > (IF i = 1 THEN sent[p] ELSE numbers[i - 1])
        ELSE numbers = [i \in 1 .. seq - sent[p] |-> sent[p] + i]

\* A page that is up to date has every domain right of which it was sent an event, as of
\* the poller's last sample: an event older than the snapshot, live or replayed, never has
\* the last word.  (A domain it was sent no event of shows what the snapshot read, which
\* the poller may never have seen.)
FoldIsCurrent ==
    \A p \in Pages :
        page[p] = "live" /\ ToSend(p) = <<>> /\ ~behind[p] =>
            \A a \in heard[p] : picture[p][a] = polled[a]

=============================================================================
