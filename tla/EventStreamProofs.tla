-------------------------- MODULE EventStreamProofs --------------------------
(***************************************************************************)
(* EventStream for any number of pages, domains and events, and then       *)
(* TargetEvents for any ports and power targets.                           *)
(*                                                                         *)
(* What is still to be sent to a page is kept by two facts: its numbers    *)
(* (Ordered), and that its last event of a domain, where it has one, says  *)
(* what the poller sampled last (Ends).  The ring has the same two, so a   *)
(* replay starts with them.                                                *)
(*                                                                         *)
(* Of TargetEvents, it is one step that is to be shown right, domain by    *)
(* domain (Faithful): that the listener knows what the last sample shows   *)
(* (PollInv) follows from it.                                              *)
(***************************************************************************)
EXTENDS EventStream, TargetEvents, SequenceTheorems, TLAPS

Events == [seq : Nat, area : Areas, is : Values]

StreamTypeOK ==
    /\ actual \in [Areas -> Values]
    /\ reading \in Events \cup {NoReading}
    /\ DOMAIN polled = Areas
    /\ seq \in Nat
    /\ ring \in Seq(Events)
    /\ page \in [Pages -> {"away", "building", "live"}]
    /\ recent \in [Pages -> Seq(Events)]
    /\ inbox \in [Pages -> Seq(Events)]
    /\ sent \in [Pages -> Nat]
    /\ behind \in [Pages -> BOOLEAN]
    /\ DOMAIN picture = Pages /\ DOMAIN snap = Pages
    /\ \A p \in Pages : DOMAIN picture[p] = Areas /\ DOMAIN snap[p] = Areas
    /\ heard \in [Pages -> SUBSET Areas]

\* The numbers of a sequence of events that goes from one number to another: all of them,
\* or, once some were dropped, at least in order.
Complete(s, from, to) ==
    Len(s) = to - from /\ \A i \in 1 .. Len(s) : s[i].seq = from + i
Rising(s, from, to) ==
    /\ from <= to
    /\ \A i \in 1 .. Len(s) :
          s[i].seq > (IF i = 1 THEN from ELSE s[i - 1].seq) /\ s[i].seq <= to
Ordered(s, from, to, gaps) ==
    IF gaps THEN Rising(s, from, to) ELSE Complete(s, from, to)

\* The last event of a domain, if there is one, gives it this value.
LastIn(s, a, i) == s[i].area = a /\ \A j \in 1 .. Len(s) : j > i => s[j].area # a
Ends(s, a, v) == \A i \in 1 .. Len(s) : LastIn(s, a, i) => s[i].is = v
Names(s, a) == \E i \in 1 .. Len(s) : s[i].area = a

LEMMA EventAt ==
  ASSUME NEW s \in Seq(Events)
  PROVE  /\ Len(s) \in Nat /\ (s # <<>> => Len(s) > 0 /\ Head(s) = s[1])
         /\ \A i \in 1 .. Len(s) : s[i] \in Events /\ s[i].seq \in Nat
<1>1. \A i \in 1 .. Len(s) : s[i] \in Events
  BY ElementOfSeq
<1>2. \A e \in Events : e.seq \in Nat
  BY DEF Events
<1>3. Len(s) \in Nat /\ (s # <<>> => Len(s) > 0 /\ Head(s) = s[1])
  BY EmptySeq
<1> QED
  BY <1>1, <1>2, <1>3

LEMMA AppendOrdered ==
  ASSUME NEW s \in Seq(Events), NEW from \in Nat, NEW to \in Nat, NEW gaps \in BOOLEAN,
         NEW ev \in Events, ev.seq = to + 1, Ordered(s, from, to, gaps)
  PROVE  Ordered(Append(s, ev), from, to + 1, gaps)
<1>1. /\ Len(Append(s, ev)) = Len(s) + 1 /\ Len(s) \in Nat
      /\ \A i \in 1 .. Len(s) : Append(s, ev)[i] = s[i] /\ s[i].seq \in Nat
      /\ Append(s, ev)[Len(s) + 1] = ev
  BY EventAt, AppendProperties
<1> DEFINE t == Append(s, ev)
<1> HIDE DEF t
<1>2. CASE gaps
  <2>1. Rising(s, from, to)
    BY <1>2 DEF Ordered
  <2>2. ASSUME NEW i \in 1 .. Len(t)
        PROVE  t[i].seq > (IF i = 1 THEN from ELSE t[i - 1].seq) /\ t[i].seq <= to + 1
    <3>1. CASE i \in 1 .. Len(s)
      <4>1. i = 1 \/ i - 1 \in 1 .. Len(s)
        BY <3>1
      <4> QED
        BY <1>1, <2>1, <3>1, <4>1 DEF Rising, t
    <3>2. CASE i = Len(s) + 1
      <4>1. i = 1 \/ i - 1 \in 1 .. Len(s)
        BY <1>1, <3>2
      <4> QED
        BY <1>1, <2>1, <3>2, <4>1 DEF Rising, t
    <3> QED
      BY <1>1, <3>1, <3>2 DEF t
  <2> QED
    BY <1>2, <2>1, <2>2 DEF Ordered, Rising, t
<1>3. CASE ~gaps
  BY <1>1, <1>3 DEF Ordered, Complete
<1> QED
  BY <1>2, <1>3

\* A page whose queue was full goes on with a gap.
LEMMA DroppedOrdered ==
  ASSUME NEW s \in Seq(Events), NEW from \in Nat, NEW to \in Nat, NEW gaps \in BOOLEAN,
         Ordered(s, from, to, gaps)
  PROVE  Ordered(s, from, to + 1, TRUE)
<1>1. Len(s) \in Nat /\ \A i \in 1 .. Len(s) : s[i].seq \in Nat
  BY EventAt
<1>2. CASE gaps
  BY <1>1, <1>2 DEF Ordered, Rising
<1>3. CASE ~gaps
  <2>1. from <= to + 1
    BY <1>1, <1>3 DEF Ordered, Complete
  <2>2. ASSUME NEW i \in 1 .. Len(s)
        PROVE  s[i].seq > (IF i = 1 THEN from ELSE s[i - 1].seq) /\ s[i].seq <= to + 1
    <3>1. i = 1 \/ i - 1 \in 1 .. Len(s)
      BY <1>1
    <3> QED
      BY <1>1, <1>3, <3>1 DEF Ordered, Complete
  <2> QED
    BY <2>1, <2>2 DEF Ordered, Rising
<1> QED
  BY <1>2, <1>3

\* The head is sent.
LEMMA TailOrdered ==
  ASSUME NEW s \in Seq(Events), s # <<>>, NEW from \in Nat, NEW to \in Nat, NEW gaps \in BOOLEAN,
         Ordered(s, from, to, gaps)
  PROVE  Ordered(Tail(s), Head(s).seq, to, gaps)
<1>1. /\ Len(s) \in Nat \ {0} /\ Head(s) = s[1]
      /\ \A i \in 1 .. Len(s) : s[i].seq \in Nat
  BY EventAt
<1>2. /\ Len(Tail(s)) = Len(s) - 1
      /\ \A i \in 1 .. Len(Tail(s)) : Tail(s)[i] = s[i + 1]
  BY HeadTailProperties
<1> DEFINE t == Tail(s)
<1> HIDE DEF t
<1>3. CASE gaps
  <2>1. Head(s).seq <= to
    BY <1>1, <1>3 DEF Ordered, Rising
  <2>2. ASSUME NEW i \in 1 .. Len(t)
        PROVE  t[i].seq > (IF i = 1 THEN Head(s).seq ELSE t[i - 1].seq) /\ t[i].seq <= to
    <3>1. i + 1 \in 1 .. Len(s) /\ i + 1 # 1 /\ (i + 1) - 1 = i /\ (i = 1 \/ i - 1 \in 1 .. Len(t))
      BY <1>1, <1>2 DEF t
    <3>2. s[i + 1].seq > s[i].seq /\ s[i + 1].seq <= to
      BY <1>3, <3>1 DEF Ordered, Rising
    <3>3. i # 1 => t[i - 1] = s[i]
      BY <1>2, <3>1 DEF t
    <3> QED
      BY <1>1, <1>2, <3>1, <3>2, <3>3 DEF t
  <2> QED
    BY <1>3, <2>1, <2>2 DEF Ordered, Rising, t
<1>4. CASE ~gaps
  <2>1. Len(s) = to - from /\ Head(s).seq = from + 1
    BY <1>1, <1>4 DEF Ordered, Complete
  <2>2. ASSUME NEW i \in 1 .. Len(t) PROVE t[i].seq = Head(s).seq + i
    <3>1. i + 1 \in 1 .. Len(s)
      BY <1>1, <1>2 DEF t
    <3>2. s[i + 1].seq = from + (i + 1)
      BY <1>4, <3>1 DEF Ordered, Complete
    <3> QED
      BY <1>2, <2>1, <3>2 DEF t
  <2>3. Len(t) = to - Head(s).seq
    BY <1>1, <1>2, <2>1 DEF t
  <2> QED
    BY <1>4, <2>2, <2>3 DEF Ordered, Complete, t
<1> QED
  BY <1>3, <1>4

LEMMA NewestIs ==
  ASSUME NEW s \in Seq(Events), NEW n \in Nat
  PROVE  /\ Newest(n, s) \in Seq(Events)
         /\ Len(Newest(n, s)) \in Nat /\ Len(Newest(n, s)) <= Len(s)
         /\ \A i \in 1 .. Len(Newest(n, s)) :
               Newest(n, s)[i] = s[i + (Len(s) - Len(Newest(n, s)))]
<1>1. Len(s) \in Nat /\ \A i \in 1 .. Len(s) : s[i] \in Events
  BY EventAt
<1>2. CASE Len(s) > n
  <2> DEFINE m == Len(s) - n + 1
  <2>1. Newest(n, s) = SubSeq(s, m, Len(s)) /\ m \in Int /\ m >= 1
    BY <1>1, <1>2 DEF Newest
  <2>2. \A i \in m .. Len(s) : s[i] \in Events
    BY <1>1, <2>1
  <2> HIDE DEF m
  <2>3. /\ SubSeq(s, m, Len(s)) \in Seq(Events)
        /\ Len(SubSeq(s, m, Len(s))) = IF m <= Len(s) THEN Len(s) - m + 1 ELSE 0
        /\ \A i \in 1 .. Len(s) - m + 1 : SubSeq(s, m, Len(s))[i] = s[m + i - 1]
    BY <1>1, <2>1, <2>2, SubSeqProperties
  <2>4. Len(Newest(n, s)) = n /\ Len(s) - m + 1 = n
    BY <1>1, <1>2, <2>1, <2>3 DEF m
  <2>5. \A i \in Int : m + i - 1 = i + (Len(s) - n)
    BY <1>1 DEF m
  <2>6. Newest(n, s) \in Seq(Events) /\ Len(Newest(n, s)) = n
    BY <2>1, <2>3, <2>4
  <2>7. ASSUME NEW i \in 1 .. Len(Newest(n, s))
        PROVE  Newest(n, s)[i] = s[i + (Len(s) - Len(Newest(n, s)))]
    <3>1. i \in 1 .. Len(s) - m + 1 /\ i \in Int
      BY <2>4, <2>6
    <3>2. Newest(n, s)[i] = s[m + i - 1]
      BY <2>1, <2>3, <3>1
    <3> QED
      BY <2>5, <2>6, <3>1, <3>2
  <2> QED
    BY <1>1, <1>2, <2>6, <2>7
<1>3. CASE ~(Len(s) > n)
  <2>1. Newest(n, s) = s
    BY <1>3, SubSeqFull DEF Newest
  <2>2. \A i \in 1 .. Len(s) : i + (Len(s) - Len(s)) = i
    BY <1>1
  <2> QED
    BY <1>1, <2>1, <2>2
<1> QED
  BY <1>2, <1>3

\* The newest events of a complete sequence are complete.
LEMMA NewestOrdered ==
  ASSUME NEW s \in Seq(Events), NEW n \in Nat, NEW to \in Nat,
         Len(s) <= to, Complete(s, to - Len(s), to)
  PROVE  /\ Len(Newest(n, s)) <= to
         /\ Complete(Newest(n, s), to - Len(Newest(n, s)), to)
<1>1. Len(s) \in Nat
  OBVIOUS
<1> DEFINE t == Newest(n, s)
<1>2. /\ Len(t) \in Nat /\ Len(t) <= Len(s)
      /\ \A i \in 1 .. Len(t) : t[i] = s[i + (Len(s) - Len(t))]
  BY <1>1, NewestIs
<1> HIDE DEF t
<1>3. ASSUME NEW i \in 1 .. Len(t) PROVE t[i].seq = (to - Len(t)) + i
  <2>1. i + (Len(s) - Len(t)) \in 1 .. Len(s)
    BY <1>1, <1>2
  <2>2. s[i + (Len(s) - Len(t))].seq = (to - Len(s)) + (i + (Len(s) - Len(t)))
    BY <2>1 DEF Complete
  <2> QED
    BY <1>1, <1>2, <2>2
<1>4. Len(t) <= to /\ Complete(t, to - Len(t), to)
  BY <1>1, <1>2, <1>3 DEF Complete
<1> QED
  BY <1>4 DEF t

-----------------------------------------------------------------------------
(* The last event of a domain.                                             *)

\* An event that is added is the last one of its domain, and of no other.
LEMMA AppendEnds ==
  ASSUME NEW s \in Seq(Events), NEW ev \in Events, NEW a, NEW v,
         ev.area = a => ev.is = v,
         ev.area # a => Ends(s, a, v)
  PROVE  /\ Ends(Append(s, ev), a, v)
         /\ Names(Append(s, ev), a) <=> ev.area = a \/ Names(s, a)
<1> DEFINE t == Append(s, ev)
<1>1. /\ Len(t) = Len(s) + 1 /\ Len(s) \in Nat
      /\ \A i \in 1 .. Len(s) : t[i] = s[i]
      /\ t[Len(s) + 1] = ev
  BY EventAt, AppendProperties
<1> HIDE DEF t
<1>2. ASSUME NEW i \in 1 .. Len(t), LastIn(t, a, i) PROVE t[i].is = v
  <2>1. CASE i = Len(s) + 1
    BY <1>1, <1>2, <2>1 DEF LastIn
  <2>2. CASE i \in 1 .. Len(s)
    <3>1. Len(s) + 1 > i /\ Len(s) + 1 \in 1 .. Len(t)
      BY <1>1, <2>2
    <3>2. ev.area # a
      BY <1>1, <1>2, <3>1 DEF LastIn
    <3>3. LastIn(s, a, i)
      BY <1>1, <1>2, <2>2 DEF LastIn
    <3> QED
      BY <1>1, <2>2, <3>2, <3>3 DEF Ends
  <2> QED
    BY <1>1, <2>1, <2>2
<1>3. Names(t, a) <=> ev.area = a \/ Names(s, a)
  <2>1. 1 .. Len(t) = 1 .. Len(s) \cup {Len(s) + 1}
    BY <1>1
  <2> QED
    BY <1>1, <2>1 DEF Names
<1> QED
  BY <1>2, <1>3 DEF Ends, t

\* Once the head is sent, what is left ends the same way; a domain that is left without an
\* event had its last one at the head.
LEMMA TailEnds ==
  ASSUME NEW s \in Seq(Events), s # <<>>, NEW a, NEW v, Ends(s, a, v)
  PROVE  /\ Ends(Tail(s), a, v)
         /\ Names(Tail(s), a) => Names(s, a)
         /\ ~Names(Tail(s), a) /\ Names(s, a) => Head(s).area = a /\ Head(s).is = v
         /\ Head(s).area = a => Names(s, a)
<1>1. Len(s) \in Nat /\ Len(s) > 0 /\ Head(s) = s[1]
  BY EventAt
<1>2. /\ Len(Tail(s)) = Len(s) - 1
      /\ \A i \in 1 .. Len(Tail(s)) : Tail(s)[i] = s[i + 1]
  BY HeadTailProperties
<1> DEFINE t == Tail(s)
<1> HIDE DEF t
<1>3. ASSUME NEW i \in 1 .. Len(t), LastIn(t, a, i) PROVE t[i].is = v
  <2>1. i + 1 \in 1 .. Len(s) /\ t[i] = s[i + 1]
    BY <1>1, <1>2 DEF t
  <2>2. ASSUME NEW j \in 1 .. Len(s), j > i + 1 PROVE s[j].area # a
    <3>1. j - 1 \in 1 .. Len(t) /\ j - 1 > i /\ (j - 1) + 1 = j
      BY <1>1, <1>2, <2>2 DEF t
    <3>2. t[j - 1] = s[j]
      BY <1>2, <3>1 DEF t
    <3> QED
      BY <1>3, <3>1, <3>2 DEF LastIn
  <2>3. LastIn(s, a, i + 1)
    BY <1>3, <2>1, <2>2 DEF LastIn
  <2> QED
    BY <2>1, <2>3 DEF Ends
<1>4. Names(t, a) => Names(s, a)
  <2>1. \A i \in 1 .. Len(t) : i + 1 \in 1 .. Len(s) /\ t[i] = s[i + 1]
    BY <1>1, <1>2 DEF t
  <2> QED
    BY <2>1 DEF Names
<1>5. ASSUME ~Names(t, a), Names(s, a) PROVE Head(s).area = a /\ Head(s).is = v
  <2>1. PICK i \in 1 .. Len(s) : s[i].area = a
    BY <1>5 DEF Names
  <2>2. ASSUME NEW j \in 1 .. Len(s), j # 1 PROVE s[j].area # a
    <3>1. j - 1 \in 1 .. Len(t) /\ (j - 1) + 1 = j
      BY <1>1, <1>2, <2>2 DEF t
    <3>2. t[j - 1] = s[j]
      BY <1>2, <3>1 DEF t
    <3> QED
      BY <1>5, <3>1, <3>2 DEF Names
  <2>3. i = 1 /\ 1 \in 1 .. Len(s)
    BY <1>1, <2>1, <2>2
  <2>4. LastIn(s, a, 1)
    BY <2>1, <2>2, <2>3 DEF LastIn
  <2> QED
    BY <1>1, <2>1, <2>3, <2>4 DEF Ends
<1>6. Head(s).area = a => Names(s, a)
  BY <1>1 DEF Names
<1> QED
  BY <1>3, <1>4, <1>5, <1>6 DEF Ends, t

LEMMA NewestEnds ==
  ASSUME NEW s \in Seq(Events), NEW n \in Nat, NEW a, NEW v, Ends(s, a, v)
  PROVE  Ends(Newest(n, s), a, v)
<1> DEFINE t == Newest(n, s)
           d == Len(s) - Len(t)
<1>0. /\ Len(s) \in Nat /\ Len(t) \in Nat /\ Len(t) <= Len(s)
      /\ \A i \in 1 .. Len(t) : t[i] = s[i + d]
  BY EventAt, NewestIs
<1> HIDE DEF t
<1>1. /\ Len(s) \in Nat /\ Len(t) \in Nat /\ d \in Nat /\ Len(s) = Len(t) + d
      /\ \A i \in 1 .. Len(t) : t[i] = s[i + d]
  BY <1>0
<1> HIDE DEF d
<1>2. ASSUME NEW i \in 1 .. Len(t), LastIn(t, a, i) PROVE t[i].is = v
  <2>1. i + d \in 1 .. Len(s) /\ t[i] = s[i + d]
    BY <1>1
  <2>2. ASSUME NEW j \in 1 .. Len(s), j > i + d PROVE s[j].area # a
    <3>1. j - d \in 1 .. Len(t) /\ j - d > i /\ (j - d) + d = j
      BY <1>1, <2>2
    <3>2. t[j - d] = s[j]
      BY <1>1, <3>1
    <3> QED
      BY <1>2, <3>1, <3>2 DEF LastIn
  <2>3. LastIn(s, a, i + d)
    BY <1>2, <2>1, <2>2 DEF LastIn
  <2> QED
    BY <2>1, <2>3 DEF Ends
<1> QED
  BY <1>2 DEF Ends, t

-----------------------------------------------------------------------------
(* The bus and its pages.                                                  *)

RingInv ==
    /\ Len(ring) <= seq /\ Complete(ring, seq - Len(ring), seq)
    /\ \A a \in Areas : Ends(ring, a, polled[a])

\* A page that is not subscribed has nothing; one that is has what NothingMissed says, and
\* of each domain it was or will be sent an event of, the last says what was polled last.
PageInv(p) ==
    /\ page[p] = "away" => recent[p] = <<>> /\ inbox[p] = <<>> /\ ~behind[p]
    /\ page[p] # "live" => heard[p] = {}
    /\ page[p] # "away" => Ordered(ToSend(p), sent[p], seq, behind[p])
    /\ page[p] # "away" /\ ~behind[p] => \A a \in Areas :
          /\ Ends(ToSend(p), a, polled[a])
          /\ a \in heard[p] /\ ~Names(ToSend(p), a) => picture[p][a] = polled[a]

StreamInv == RingInv /\ \A p \in Pages : PageInv(p)

LEMMA InitStream == StreamInit => StreamTypeOK /\ StreamInv
<1> SUFFICES ASSUME StreamInit PROVE StreamTypeOK /\ StreamInv
  OBVIOUS
<1>2. StreamTypeOK
  BY DEF StreamInit, StreamTypeOK, Blank
<1>3. RingInv
  <2>1. ring = <<>> /\ seq = 0
    BY DEF StreamInit
  <2>2. Len(ring) = 0
    BY <2>1
  <2>3. 0 <= 0 /\ 0 - 0 = 0 /\ 1 .. 0 = {}
    OBVIOUS
  <2>4. Len(ring) <= seq /\ Len(ring) = seq - (seq - Len(ring)) /\ 1 .. Len(ring) = {}
    BY <2>1, <2>2, <2>3
  <2> QED
    BY <2>4 DEF RingInv, Complete, Ends
<1>4. \A p \in Pages : PageInv(p)
  BY DEF StreamInit, PageInv
<1> QED
  BY <1>2, <1>3, <1>4 DEF StreamInv

\* The event that is published.
LEMMA EventOf ==
  ASSUME StreamTypeOK, reading # NoReading
  PROVE  /\ Coarse(seq + 1, reading.area, reading.is) \in Events
         /\ Coarse(seq + 1, reading.area, reading.is).seq = seq + 1
         /\ Coarse(seq + 1, reading.area, reading.is).area = reading.area
         /\ Coarse(seq + 1, reading.area, reading.is).is = reading.is
  BY DEF StreamTypeOK, Coarse, Events

LEMMA ReplayOf ==
  ASSUME StreamTypeOK, RingInv, NEW p \in Pages, NEW replay \in 0 .. RingMax,
         Subscribe(p, replay)
  PROVE  /\ recent' = [recent EXCEPT ![p] = Newest(replay, ring)]
         /\ sent' = [sent EXCEPT ![p] = seq - Len(Newest(replay, ring))]
         /\ Newest(replay, ring) \in Seq(Events)
         /\ seq - Len(Newest(replay, ring)) \in Nat
         /\ Complete(Newest(replay, ring), seq - Len(Newest(replay, ring)), seq)
<1>1. replay \in Nat
  BY StreamAssumption
<1>2. recent' = [recent EXCEPT ![p] = Newest(replay, ring)]
  BY DEF Subscribe
<1>3. recent'[p] = Newest(replay, ring)
  BY <1>2 DEF StreamTypeOK
<1>4. sent' = [sent EXCEPT ![p] = seq - Len(Newest(replay, ring))]
  BY <1>3 DEF Subscribe
<1>5. /\ Len(Newest(replay, ring)) <= seq
      /\ Complete(Newest(replay, ring), seq - Len(Newest(replay, ring)), seq)
  BY <1>1, NewestOrdered DEF StreamTypeOK, RingInv
<1>6. Newest(replay, ring) \in Seq(Events) /\ Len(Newest(replay, ring)) \in Nat
  BY <1>1, NewestIs DEF StreamTypeOK
<1> QED
  BY <1>2, <1>4, <1>5, <1>6 DEF StreamTypeOK

LEMMA StreamTypeStep ==
  ASSUME StreamTypeOK, RingInv, [StreamNext]_streamVars
  PROVE  StreamTypeOK'
<1> USE DEF StreamTypeOK, bus, delivery
<1>1. ASSUME NEW a \in Areas, NEW v \in Values, Change(a, v) PROVE StreamTypeOK'
  BY <1>1 DEF Change
<1>2. ASSUME NEW a \in Areas, PollReads(a) PROVE StreamTypeOK'
  <2>1. reading' \in Events
    BY <1>2 DEF PollReads, Coarse, Events
  <2> QED
    BY <1>2, <2>1 DEF PollReads
<1>3. CASE PollPublishes
  <2> DEFINE ev == Coarse(seq + 1, reading.area, reading.is)
             full == {p \in Pages : Subscribed(p) /\ Len(inbox[p]) = QueueMax}
  <2>1. ev \in Events
    BY <1>3, EventOf DEF PollPublishes
  <2>2. /\ seq' = seq + 1 /\ ring' = Newest(RingMax, Append(ring, ev))
        /\ inbox' = [p \in Pages |-> IF Subscribed(p) /\ p \notin full
                                     THEN Append(inbox[p], ev) ELSE inbox[p]]
        /\ behind' = [p \in Pages |-> behind[p] \/ p \in full]
    BY <1>3 DEF PollPublishes, Publish
  <2>4. UNCHANGED <<actual, page, snap, recent, picture, sent, heard>>
        /\ reading' = NoReading /\ DOMAIN polled' = Areas
    BY <1>3 DEF PollPublishes
  <2> HIDE DEF ev, full
  <2>5. RingMax \in Nat
    BY StreamAssumption
  <2>6. ring' \in Seq(Events)
    BY <2>1, <2>2, <2>5, AppendProperties, NewestIs
  <2>7. inbox' \in [Pages -> Seq(Events)]
    BY <2>1, <2>2, AppendProperties
  <2>8. behind' \in [Pages -> BOOLEAN]
    BY <2>2
  <2> QED
    BY <2>2, <2>4, <2>6, <2>7, <2>8
<1>4. ASSUME NEW p \in Pages, PageStep(p) PROVE StreamTypeOK'
  <2>0. ASSUME NEW ev \in Events, Folds(p, ev)
        PROVE  sent' \in [Pages -> Nat] /\ DOMAIN picture' = Pages
               /\ (\A q \in Pages : DOMAIN picture'[q] = Areas)
               /\ heard' \in [Pages -> SUBSET Areas]
    <3>1. ev.seq \in Nat /\ ev.area \in Areas
      BY <2>0 DEF Events
    <3> QED
      BY <2>0, <3>1 DEF Folds
  <2>1. ASSUME NEW replay \in 0 .. RingMax, Subscribe(p, replay) PROVE StreamTypeOK'
    BY <2>1, ReplayOf DEF Subscribe
  <2>2. ASSUME NEW a \in Areas, ReadArea(p, a) PROVE StreamTypeOK'
    BY <2>2 DEF ReadArea
  <2>3. CASE SendSnapshot(p)
    BY <2>3 DEF SendSnapshot, Blank
  <2>4. CASE SendReplay(p)
    <3>1. Head(recent[p]) \in Events /\ Tail(recent[p]) \in Seq(Events)
      BY <2>4, HeadTailProperties DEF SendReplay
    <3> QED
      BY <2>0, <2>4, <3>1 DEF SendReplay
  <2>5. CASE SendLive(p)
    <3>1. Head(inbox[p]) \in Events /\ Tail(inbox[p]) \in Seq(Events)
      BY <2>5, HeadTailProperties DEF SendLive
    <3> QED
      BY <2>0, <2>5, <3>1 DEF SendLive
  <2>6. CASE Unsubscribe(p)
    BY <2>6 DEF Unsubscribe, Blank
  <2> QED
    BY <1>4, <2>1, <2>2, <2>3, <2>4, <2>5, <2>6 DEF PageStep
<1>5. CASE UNCHANGED streamVars
  BY <1>5 DEF streamVars
<1> QED
  BY <1>1, <1>2, <1>3, <1>4, <1>5 DEF StreamNext

\* Steps of others leave a page as it is.
LEMMA PageSame ==
  ASSUME NEW p \in Pages, PageInv(p), UNCHANGED <<seq, polled>>,
         page'[p] = page[p], recent'[p] = recent[p], inbox'[p] = inbox[p], sent'[p] = sent[p],
         behind'[p] = behind[p], heard'[p] = heard[p], picture'[p] = picture[p]
  PROVE  PageInv(p)'
  BY DEF PageInv, ToSend

LEMMA ToSendIs ==
  ASSUME StreamTypeOK, NEW p \in Pages
  PROVE  /\ ToSend(p) \in Seq(Events)
         /\ seq \in Nat /\ sent[p] \in Nat /\ behind[p] \in BOOLEAN
  BY ConcatProperties DEF StreamTypeOK, ToSend

LEMMA HeadOfConcat ==
  ASSUME NEW s \in Seq(Events), NEW t \in Seq(Events), s # <<>>
  PROVE  s \o t # <<>> /\ Head(s \o t) = Head(s) /\ Tail(s) \o t = Tail(s \o t)
<1>1. /\ s \o t \in Seq(Events) /\ Len(s \o t) = Len(s) + Len(t)
      /\ \A i \in 1 .. Len(s) + Len(t) : (s \o t)[i] = IF i <= Len(s) THEN s[i] ELSE t[i - Len(s)]
  BY ConcatProperties
<1>2. Len(s) \in Nat /\ Len(s) > 0 /\ Len(t) \in Nat /\ Head(s) = s[1]
  BY EventAt
<1>3. s \o t # <<>> /\ Head(s \o t) = Head(s)
  <2>1. s \o t # <<>>
    BY ConcatEqualIffEmpty
  <2>2. Head(s \o t) = (s \o t)[1]
    BY <1>1, <2>1, EventAt
  <2> QED
    BY <1>1, <1>2, <2>1, <2>2
<1>4. Tail(s) \o t = Tail(s \o t)
  <2>1. /\ Tail(s) \in Seq(Events) /\ Len(Tail(s)) = Len(s) - 1
        /\ \A i \in 1 .. Len(Tail(s)) : Tail(s)[i] = s[i + 1]
    BY HeadTailProperties
  <2>2. /\ Tail(s \o t) \in Seq(Events) /\ Len(Tail(s \o t)) = Len(s \o t) - 1
        /\ \A i \in 1 .. Len(Tail(s \o t)) : Tail(s \o t)[i] = (s \o t)[i + 1]
    BY <1>1, <1>3, HeadTailProperties
  <2>3. /\ Tail(s) \o t \in Seq(Events) /\ Len(Tail(s) \o t) = Len(Tail(s)) + Len(t)
        /\ \A i \in 1 .. Len(Tail(s)) + Len(t) :
              (Tail(s) \o t)[i] = IF i <= Len(Tail(s)) THEN Tail(s)[i] ELSE t[i - Len(Tail(s))]
    BY <2>1, ConcatProperties
  <2>4. Len(Tail(s) \o t) = Len(Tail(s \o t))
    BY <1>1, <1>2, <2>1, <2>2, <2>3
  <2>5. ASSUME NEW i \in 1 .. Len(Tail(s) \o t) PROVE (Tail(s) \o t)[i] = Tail(s \o t)[i]
    <3>1. i \in 1 .. Len(Tail(s)) + Len(t) /\ i + 1 \in 1 .. Len(s) + Len(t)
          /\ i \in 1 .. Len(Tail(s \o t)) /\ (i + 1) - Len(s) = i - Len(Tail(s))
      BY <1>1, <1>2, <2>1, <2>2, <2>3
    <3>2. CASE i <= Len(Tail(s))
      BY <1>1, <1>2, <2>1, <2>2, <2>3, <3>1, <3>2
    <3>3. CASE ~(i <= Len(Tail(s)))
      BY <1>1, <1>2, <2>1, <2>2, <2>3, <3>1, <3>3
    <3> QED
      BY <3>2, <3>3
  <2> QED
    BY <2>2, <2>3, <2>4, <2>5, SeqEqual
<1> QED
  BY <1>3, <1>4

LEMMA AppendToConcat ==
  ASSUME NEW s \in Seq(Events), NEW t \in Seq(Events), NEW ev \in Events
  PROVE  s \o Append(t, ev) = Append(s \o t, ev)
<1>1. /\ s \o t \in Seq(Events) /\ Len(s \o t) = Len(s) + Len(t)
      /\ \A i \in 1 .. Len(s) + Len(t) : (s \o t)[i] = IF i <= Len(s) THEN s[i] ELSE t[i - Len(s)]
  BY ConcatProperties
<1>2. Len(s) \in Nat /\ Len(t) \in Nat
  BY EventAt
<1> DEFINE u == Append(t, ev)
           w == Append(s \o t, ev)
<1>3. /\ u \in Seq(Events) /\ Len(u) = Len(t) + 1 /\ u[Len(t) + 1] = ev
      /\ \A i \in 1 .. Len(t) : u[i] = t[i]
  BY AppendProperties
<1>4. /\ w \in Seq(Events) /\ Len(w) = Len(s \o t) + 1 /\ w[Len(s \o t) + 1] = ev
      /\ \A i \in 1 .. Len(s \o t) : w[i] = (s \o t)[i]
  BY <1>1, AppendProperties
<1> HIDE DEF u, w
<1>5. /\ s \o u \in Seq(Events) /\ Len(s \o u) = Len(s) + Len(u)
      /\ \A i \in 1 .. Len(s) + Len(u) : (s \o u)[i] = IF i <= Len(s) THEN s[i] ELSE u[i - Len(s)]
  BY <1>3, ConcatProperties
<1>6. Len(s \o u) = Len(w)
  BY <1>1, <1>2, <1>3, <1>4, <1>5
<1>7. ASSUME NEW i \in 1 .. Len(s \o u) PROVE (s \o u)[i] = w[i]
  <2>1. CASE i <= Len(s)
    <3>1. i \in 1 .. Len(s) + Len(t) /\ i \in 1 .. Len(s) + Len(u)
      BY <1>2, <1>3, <1>5, <2>1
    <3> QED
      BY <1>1, <1>4, <1>5, <2>1, <3>1
  <2>2. CASE i > Len(s) /\ i <= Len(s) + Len(t)
    <3>1. i \in 1 .. Len(s) + Len(t) /\ i \in 1 .. Len(s) + Len(u) /\ i - Len(s) \in 1 .. Len(t)
          /\ ~(i <= Len(s))
      BY <1>2, <1>3, <1>5, <2>2
    <3> QED
      BY <1>1, <1>3, <1>4, <1>5, <3>1
  <2>3. CASE i = Len(s) + Len(t) + 1
    <3>1. i \in 1 .. Len(s) + Len(u) /\ i - Len(s) = Len(t) + 1 /\ ~(i <= Len(s))
          /\ i = Len(s \o t) + 1
      BY <1>1, <1>2, <1>3, <1>5, <2>3
    <3> QED
      BY <1>3, <1>4, <1>5, <3>1
  <2>4. Len(s \o u) = Len(s) + Len(t) + 1
    BY <1>2, <1>3, <1>5
  <2>5. i \in Int /\ 1 <= i /\ i <= Len(s) + Len(t) + 1
    BY <1>2, <2>4
  <2> QED
    BY <1>2, <2>1, <2>2, <2>3, <2>5
<1> QED
  BY <1>4, <1>5, <1>6, <1>7, SeqEqual DEF u, w

\* The poller's event joins the ring and every queue with room.
LEMMA PublishStep ==
  ASSUME StreamTypeOK, StreamInv, PollPublishes
  PROVE  StreamInv'
<1> DEFINE ev == Coarse(seq + 1, reading.area, reading.is)
           full == {p \in Pages : Subscribed(p) /\ Len(inbox[p]) = QueueMax}
<1>1. ev \in Events /\ ev.seq = seq + 1 /\ ev.area = reading.area /\ ev.is = reading.is
  BY EventOf DEF PollPublishes
<1>2. /\ seq' = seq + 1 /\ ring' = Newest(RingMax, Append(ring, ev))
      /\ inbox' = [p \in Pages |-> IF Subscribed(p) /\ p \notin full
                                   THEN Append(inbox[p], ev) ELSE inbox[p]]
      /\ behind' = [p \in Pages |-> behind[p] \/ p \in full]
  BY DEF PollPublishes, Publish
<1>3. /\ UNCHANGED <<actual, page, snap, recent, picture, sent, heard>>
      /\ polled' = [polled EXCEPT ![reading.area] = reading.is]
  BY DEF PollPublishes
<1>4. \A p \in full : p \in Pages /\ Subscribed(p)
  OBVIOUS
<1> HIDE DEF ev, full
<1>5. RingMax \in Nat /\ seq \in Nat /\ ring \in Seq(Events)
  BY StreamAssumption DEF StreamTypeOK
<1>6. \A a \in Areas : (ev.area = a => polled'[a] = ev.is) /\ (ev.area # a => polled'[a] = polled[a])
  BY <1>1, <1>3 DEF StreamTypeOK
<1>7. RingInv'
  <2> DEFINE s == Append(ring, ev)
  <2>1. /\ s \in Seq(Events) /\ Len(s) = Len(ring) + 1 /\ Len(ring) \in Nat
        /\ \A i \in 1 .. Len(ring) : s[i] = ring[i]
        /\ s[Len(ring) + 1] = ev
    BY <1>1, <1>5, AppendProperties
  <2>2. ring' = Newest(RingMax, s)
    BY <1>2
  <2>3. \A a \in Areas : Ends(s, a, polled'[a])
    <3>1. ASSUME NEW a \in Areas PROVE Ends(s, a, polled'[a])
      <4>1. Ends(ring, a, polled[a])
        BY DEF StreamInv, RingInv
      <4> QED
        BY <1>1, <1>5, <1>6, <4>1, AppendEnds
    <3> QED
      BY <3>1
  <2>4. Len(ring) <= seq /\ \A i \in 1 .. Len(ring) : ring[i].seq = (seq - Len(ring)) + i
    BY DEF StreamInv, RingInv, Complete
  <2> HIDE DEF s
  <2>5. Len(s) <= seq + 1 /\ Complete(s, (seq + 1) - Len(s), seq + 1)
    <3>1. ASSUME NEW i \in 1 .. Len(s) PROVE s[i].seq = ((seq + 1) - Len(s)) + i
      <4>1. CASE i = Len(ring) + 1
        <5>1. s[i].seq = seq + 1
          <6>1. s[i] = ev
            BY <2>1, <4>1
          <6> QED
            BY <1>1, <6>1
        <5> QED
          BY <1>5, <2>1, <4>1, <5>1
      <4>2. CASE i \in 1 .. Len(ring)
        BY <1>5, <2>1, <2>4, <4>2
      <4> QED
        BY <2>1, <4>1, <4>2
    <3> QED
      BY <1>5, <2>1, <2>4, <3>1 DEF Complete
  <2>6. Len(ring') <= seq' /\ Complete(ring', seq' - Len(ring'), seq')
    <3>1. seq + 1 \in Nat
      BY <1>5
    <3>2. /\ Len(Newest(RingMax, s)) <= seq + 1
          /\ Complete(Newest(RingMax, s), (seq + 1) - Len(Newest(RingMax, s)), seq + 1)
      BY <1>5, <2>1, <2>5, <3>1, NewestOrdered
    <3> QED
      BY <1>2, <2>2, <3>2
  <2>7. \A a \in Areas : Ends(ring', a, polled'[a])
    BY <1>5, <2>1, <2>2, <2>3, NewestEnds
  <2> QED
    BY <2>6, <2>7 DEF RingInv
<1>8. ASSUME NEW p \in Pages PROVE PageInv(p)'
  <2>0. PageInv(p) /\ ToSend(p) \in Seq(Events) /\ sent[p] \in Nat /\ behind[p] \in BOOLEAN
    BY <1>8, ToSendIs DEF StreamInv
  <2>1. CASE ~Subscribed(p)
    <3>1. inbox'[p] = inbox[p] /\ behind'[p] = behind[p] /\ page[p] = "away"
      BY <1>2, <1>4, <2>0, <2>1 DEF Subscribed
    <3> QED
      BY <1>3, <2>0, <3>1 DEF PageInv
  <2>2. CASE p \in full
    <3>1. inbox'[p] = inbox[p] /\ behind'[p] = TRUE /\ page[p] # "away"
      BY <1>2, <1>4, <2>2 DEF Subscribed
    <3>2. ToSend(p)' = ToSend(p)
      BY <1>3, <3>1 DEF ToSend
    <3>3. Ordered(ToSend(p), sent[p], seq + 1, TRUE)
      BY <1>5, <2>0, <3>1, DroppedOrdered DEF PageInv
    <3> QED
      BY <1>2, <1>3, <2>0, <3>1, <3>2, <3>3 DEF PageInv
  <2>3. CASE Subscribed(p) /\ p \notin full
    <3>1. inbox'[p] = Append(inbox[p], ev) /\ behind'[p] = behind[p] /\ page[p] # "away"
      BY <1>2, <2>0, <2>3 DEF Subscribed
    <3>2. ToSend(p)' = Append(ToSend(p), ev)
      <4>1. recent[p] \in Seq(Events) /\ inbox[p] \in Seq(Events)
        BY DEF StreamTypeOK
      <4>2. recent[p] \o Append(inbox[p], ev) = Append(recent[p] \o inbox[p], ev)
        BY <1>1, <4>1, AppendToConcat
      <4> QED
        BY <1>3, <3>1, <4>2 DEF ToSend
    <3>3. Ordered(ToSend(p)', sent'[p], seq', behind'[p])
      BY <1>1, <1>2, <1>3, <1>5, <2>0, <3>1, <3>2, AppendOrdered DEF PageInv
    <3>4. ASSUME ~behind[p], NEW a \in Areas
          PROVE  /\ Ends(ToSend(p)', a, polled'[a])
                 /\ a \in heard'[p] /\ ~Names(ToSend(p)', a) => picture'[p][a] = polled'[a]
      <4>1. /\ Ends(ToSend(p), a, polled[a])
            /\ a \in heard[p] /\ ~Names(ToSend(p), a) => picture[p][a] = polled[a]
        BY <2>0, <3>1, <3>4 DEF PageInv
      <4>2. /\ Ends(Append(ToSend(p), ev), a, polled'[a])
            /\ Names(Append(ToSend(p), ev), a) <=> ev.area = a \/ Names(ToSend(p), a)
        BY <1>1, <1>6, <2>0, <4>1, AppendEnds
      <4> QED
        BY <1>3, <1>6, <3>2, <4>1, <4>2
    <3> QED
      BY <1>3, <2>0, <3>1, <3>3, <3>4 DEF PageInv
  <2> QED
    BY <2>1, <2>2, <2>3
<1> QED
  BY <1>7, <1>8 DEF StreamInv

\* A page is sent the first event that waits for it.
LEMMA SendStep ==
  ASSUME StreamTypeOK, NEW p \in Pages, PageInv(p), page[p] = "live", ToSend(p) # <<>>,
         ToSend(p)' = Tail(ToSend(p)), Folds(p, Head(ToSend(p))),
         UNCHANGED <<seq, polled, page, behind>>
  PROVE  PageInv(p)'
<1> DEFINE s == ToSend(p)
           ev == Head(ToSend(p))
<1>1. s \in Seq(Events) /\ seq \in Nat /\ sent[p] \in Nat /\ behind[p] \in BOOLEAN
  BY ToSendIs
<1>2. ev \in Events /\ ev.area \in Areas
  <2>1. ev \in Events
    BY <1>1, HeadTailProperties
  <2> QED
    BY <2>1 DEF Events
<1>3. sent'[p] = ev.seq /\ heard'[p] = heard[p] \cup {ev.area}
  BY DEF Folds, StreamTypeOK
<1>4. /\ picture'[p][ev.area] = ev.is
      /\ \A a \in Areas : a # ev.area => picture'[p][a] = picture[p][a]
  BY <1>2 DEF Folds, StreamTypeOK
<1> HIDE DEF s, ev
<1>5. Ordered(ToSend(p)', sent'[p], seq', behind'[p])
  BY <1>1, <1>3, TailOrdered DEF PageInv, s, ev
<1>6. ASSUME ~behind[p], NEW a \in Areas
      PROVE  /\ Ends(ToSend(p)', a, polled'[a])
             /\ a \in heard'[p] /\ ~Names(ToSend(p)', a) => picture'[p][a] = polled'[a]
  <2>1. /\ Ends(s, a, polled[a])
        /\ a \in heard[p] /\ ~Names(s, a) => picture[p][a] = polled[a]
    BY <1>6 DEF PageInv, s
  <2>2. /\ Ends(Tail(s), a, polled[a])
        /\ ~Names(Tail(s), a) /\ Names(s, a) => ev.area = a /\ ev.is = polled[a]
        /\ ev.area = a => Names(s, a)
    BY <1>1, <2>1, TailEnds DEF s, ev
  <2> QED
    BY <1>3, <1>4, <2>1, <2>2 DEF s
<1> QED
  BY <1>5, <1>6 DEF PageInv

LEMMA StreamStep ==
  ASSUME StreamTypeOK, StreamInv, [StreamNext]_streamVars
  PROVE  StreamInv'
<1> USE DEF bus, delivery
<1>0. ASSUME UNCHANGED <<seq, polled, ring>> PROVE RingInv'
  BY <1>0 DEF StreamInv, RingInv
<1>1. ASSUME UNCHANGED <<seq, polled, ring, page, recent, inbox, sent, behind, heard, picture>>
      PROVE  StreamInv'
  BY <1>0, <1>1, PageSame DEF StreamInv
<1>2. ASSUME NEW a \in Areas, NEW v \in Values, Change(a, v) PROVE StreamInv'
  BY <1>1, <1>2 DEF Change
<1>3. ASSUME NEW a \in Areas, PollReads(a) PROVE StreamInv'
  BY <1>1, <1>3 DEF PollReads
<1>4. CASE PollPublishes
  BY <1>4, PublishStep
<1>5. ASSUME NEW p \in Pages, PageStep(p) PROVE StreamInv'
  <2>0. UNCHANGED <<seq, polled, ring>>
    BY <1>5 DEF PageStep, Subscribe, ReadArea, SendSnapshot, SendReplay, SendLive, Unsubscribe
  <2>1. ASSUME NEW q \in Pages, q # p PROVE PageInv(q)'
    <3>1. /\ page'[q] = page[q] /\ recent'[q] = recent[q] /\ inbox'[q] = inbox[q]
          /\ sent'[q] = sent[q] /\ behind'[q] = behind[q] /\ heard'[q] = heard[q]
          /\ picture'[q] = picture[q]
      BY <1>5, <2>1 DEF PageStep, Subscribe, ReadArea, SendSnapshot, SendReplay, SendLive,
                        Unsubscribe, Folds, StreamTypeOK
    <3> QED
      BY <2>0, <2>1, <3>1, PageSame DEF StreamInv
  <2>2. ASSUME PageInv(p)' PROVE StreamInv'
    BY <1>0, <2>0, <2>1, <2>2 DEF StreamInv
  <2>3. PageInv(p)
    BY DEF StreamInv
  <2>4. ASSUME NEW replay \in 0 .. RingMax, Subscribe(p, replay) PROVE PageInv(p)'
    <3> DEFINE t == Newest(replay, ring)
    <3>1. /\ recent'[p] = t /\ sent'[p] = seq - Len(t)
          /\ t \in Seq(Events) /\ Complete(t, seq - Len(t), seq)
      BY <2>4, ReplayOf DEF StreamInv, StreamTypeOK
    <3>2. page[p] = "away" /\ page'[p] = "building" /\ inbox' = inbox /\ heard' = heard
          /\ behind' = behind /\ polled' = polled /\ seq' = seq
      BY <2>4 DEF Subscribe, StreamTypeOK
    <3>3. inbox[p] = <<>> /\ ~behind[p] /\ heard[p] = {}
      BY <2>3, <3>2 DEF PageInv
    <3>4. \A a \in Areas : Ends(t, a, polled[a])
      <4>1. ring \in Seq(Events) /\ replay \in Nat
        BY StreamAssumption DEF StreamTypeOK
      <4> QED
        BY <4>1, NewestEnds DEF StreamInv, RingInv
    <3> HIDE DEF t
    <3>5. ToSend(p)' = t
      BY <3>1, <3>2, <3>3, ConcatEmptySeq DEF ToSend
    <3> QED
      BY <3>1, <3>2, <3>3, <3>4, <3>5 DEF PageInv, Ordered
  <2>5. ASSUME NEW a \in Areas, ReadArea(p, a) PROVE StreamInv'
    BY <1>1, <2>5 DEF ReadArea
  <2>6. CASE SendSnapshot(p)
    <3>1. page[p] = "building" /\ page'[p] = "live" /\ heard[p] = {}
      BY <2>3, <2>6 DEF SendSnapshot, PageInv, StreamTypeOK
    <3>2. ToSend(p)' = ToSend(p) /\ UNCHANGED <<seq, polled, sent, behind, heard>>
      BY <2>6 DEF SendSnapshot, ToSend
    <3> QED
      BY <2>2, <2>3, <3>1, <3>2 DEF PageInv
  <2>7. CASE SendReplay(p)
    <3>1. recent[p] \in Seq(Events) /\ inbox[p] \in Seq(Events) /\ recent[p] # <<>>
      BY <2>7 DEF SendReplay, StreamTypeOK
    <3>2. recent'[p] = Tail(recent[p]) /\ inbox'[p] = inbox[p]
      BY <2>7 DEF SendReplay, StreamTypeOK
    <3>3. ToSend(p) # <<>> /\ Head(ToSend(p)) = Head(recent[p]) /\ ToSend(p)' = Tail(ToSend(p))
      BY <3>1, <3>2, HeadOfConcat DEF ToSend
    <3> QED
      BY <2>2, <2>3, <2>7, <3>3, SendStep DEF SendReplay
  <2>8. CASE SendLive(p)
    <3>1. recent[p] = <<>> /\ inbox[p] \in Seq(Events) /\ inbox[p] # <<>>
      BY <2>8 DEF SendLive, StreamTypeOK
    <3>2. recent'[p] = <<>> /\ inbox'[p] = Tail(inbox[p])
      BY <2>8 DEF SendLive, StreamTypeOK
    <3>3. ToSend(p) = inbox[p] /\ ToSend(p)' = Tail(inbox[p])
      BY <3>1, <3>2, HeadTailProperties, ConcatEmptySeq DEF ToSend
    <3> QED
      BY <2>2, <2>3, <2>8, <3>1, <3>3, SendStep DEF SendLive
  <2>9. CASE Unsubscribe(p)
    <3>1. page'[p] = "away" /\ recent'[p] = <<>> /\ inbox'[p] = <<>> /\ ~behind'[p] /\ heard'[p] = {}
      BY <2>9 DEF Unsubscribe, StreamTypeOK
    <3> QED
      BY <2>2, <3>1 DEF PageInv
  <2> QED
    BY <1>5, <2>2, <2>4, <2>5, <2>6, <2>7, <2>8, <2>9 DEF PageStep
<1>6. CASE UNCHANGED streamVars
  BY <1>1, <1>6 DEF streamVars
<1> QED
  BY <1>2, <1>3, <1>4, <1>5, <1>6 DEF StreamNext

LEMMA StreamInvariant == StreamSpec => [](StreamTypeOK /\ StreamInv)
<1>1. StreamInit => StreamTypeOK /\ StreamInv
  BY InitStream
<1>2. StreamTypeOK /\ StreamInv /\ [StreamNext]_streamVars => (StreamTypeOK /\ StreamInv)'
  BY StreamTypeStep, StreamStep DEF StreamInv
<1> QED
  BY <1>1, <1>2, PTL DEF StreamSpec

\* Every page is sent every event from its replay on, once and in order, or, once its queue
\* was full, what is left of them in order: for any ring, queues, pages and replay.
THEOREM EveryEventIsSent == StreamSpec => []NothingMissed
<1>1. StreamTypeOK /\ StreamInv => NothingMissed
  <2> SUFFICES ASSUME StreamTypeOK, StreamInv, NEW p \in Pages, Subscribed(p)
               PROVE  LET numbers == [i \in DOMAIN ToSend(p) |-> ToSend(p)[i].seq] IN
                      IF behind[p]
                      THEN \A i \in DOMAIN numbers :
                              numbers[i] > (IF i = 1 THEN sent[p] ELSE numbers[i - 1])
                      ELSE numbers = [i \in 1 .. seq - sent[p] |-> sent[p] + i]
    BY DEF NothingMissed
  <2>1. Ordered(ToSend(p), sent[p], seq, behind[p])
    BY DEF StreamInv, PageInv, Subscribed
  <2>2. DOMAIN ToSend(p) = 1 .. Len(ToSend(p)) /\ Len(ToSend(p)) \in Nat
    BY ToSendIs
  <2>3. CASE behind[p]
    <3>1. \A i \in 1 .. Len(ToSend(p)) : i = 1 \/ i - 1 \in 1 .. Len(ToSend(p))
      BY <2>2
    <3> QED
      BY <2>1, <2>2, <2>3, <3>1 DEF Ordered, Rising
  <2>4. CASE ~behind[p]
    BY <2>1, <2>2, <2>4 DEF Ordered, Complete
  <2> QED
    BY <2>3, <2>4
<1> QED
  BY <1>1, StreamInvariant, PTL

\* A page that is up to date has every domain right of which it was sent an event.
THEOREM FoldsToCurrent == StreamSpec => []FoldIsCurrent
<1>1. StreamTypeOK /\ StreamInv => FoldIsCurrent
  BY EmptySeq DEF StreamTypeOK, StreamInv, PageInv, Names, FoldIsCurrent
<1> QED
  BY <1>1, StreamInvariant, PTL

-----------------------------------------------------------------------------
(* The semantic events of one step.                                         *)

\* What the events of a change of samples say of a subject is one thing at most; of a subject
\* that the new sample tells, it is what the sample shows; and when they say nothing of it,
\* the sample before told the same.
Faithful(d, prev, cur, x) ==
    LET news == About(x, Semantic(d, prev, cur))
    IN  /\ \A m, n \in news : m = n
        /\ x \in Tells(d, cur) =>
              /\ \A n \in news : n.is = Shown(d, cur, x)
              /\ news = {} => x \in Tells(d, prev) /\ Shown(d, prev, x) = Shown(d, cur, x)

\* Something is said about a subject by one of the events.
LEMMA AboutIs ==
  ASSUME NEW evs, NEW x
  PROVE  About(x, evs) = {n \in UNION {Says(ev) : ev \in evs} : n.of = x}
BY DEF About, News

\* What each event says.
LEMMA SaysIs ==
  ASSUME NEW of
  PROVE  /\ \A type \in {"usb.enumerated", "usb.resumed"} :
               Says(Event(type, of)) = {[of |-> "usb", is |-> "configured"]}
         /\ Says(Event("usb.suspended", of)) = {[of |-> "usb", is |-> "suspended"]}
         /\ Says(Event("usb.detached", of)) = {[of |-> "usb", is |-> "not attached"]}
         /\ Says(Event("usb.enumerating", of)) = {[of |-> "usb", is |-> "enumerating"]}
         /\ Says(Event("gadget.bound", of)) = {[of |-> "bound", is |-> "yes"]}
         /\ Says(Event("gadget.unbound", of)) = {[of |-> "bound", is |-> "no"]}
         /\ Says(Event("serial.enumerated", of)) = {[of |-> "com", is |-> "yes"]}
         /\ Says(Event("serial.deenumerated", of)) = {[of |-> "com", is |-> "no"]}
         /\ \A type \in {"hid.online", "serial.opened", "power.on"} :
               Says(Event(type, of)) = {[of |-> of, is |-> "yes"]}
         /\ \A type \in {"hid.offline", "serial.closed", "power.off"} :
               Says(Event(type, of)) = {[of |-> of, is |-> "no"]}
         /\ \A type \in {"serial.error", "serial.error_cleared", "serial.reconnected"} :
               Says(Event(type, of)) = {}
         /\ Says(Event("drive.attached", of)) = {[of |-> "drive", is |-> "attached"]}
         /\ Says(Event("drive.detached", of)) = {[of |-> "drive", is |-> "detached"]}
         /\ Says(Event("drive.editing", of)) = {[of |-> "drive", is |-> "editing"]}
<1>1. \A type : Event(type, of).type = type /\ Event(type, of).of = of
  BY DEF Event
<1>2. \A type \in {"usb.enumerated", "usb.resumed"} : Says(Event(type, of)) = {[of |-> "usb", is |-> "configured"]}
  BY <1>1 DEF Says
<1>3. Says(Event("usb.suspended", of)) = {[of |-> "usb", is |-> "suspended"]}
  BY <1>1 DEF Says
<1>4. Says(Event("usb.detached", of)) = {[of |-> "usb", is |-> "not attached"]}
  BY <1>1 DEF Says
<1>5. Says(Event("usb.enumerating", of)) = {[of |-> "usb", is |-> "enumerating"]}
  BY <1>1 DEF Says
<1>6. Says(Event("gadget.bound", of)) = {[of |-> "bound", is |-> "yes"]}
  BY <1>1 DEF Says
<1>7. Says(Event("gadget.unbound", of)) = {[of |-> "bound", is |-> "no"]}
  BY <1>1 DEF Says
<1>8. Says(Event("serial.enumerated", of)) = {[of |-> "com", is |-> "yes"]}
  BY <1>1 DEF Says
<1>9. Says(Event("serial.deenumerated", of)) = {[of |-> "com", is |-> "no"]}
  BY <1>1 DEF Says
<1>10. \A type \in {"hid.online", "serial.opened", "power.on"} : Says(Event(type, of)) = {[of |-> of, is |-> "yes"]}
  BY <1>1 DEF Says
<1>11. \A type \in {"hid.offline", "serial.closed", "power.off"} : Says(Event(type, of)) = {[of |-> of, is |-> "no"]}
  BY <1>1 DEF Says
<1>12. \A type \in {"serial.error", "serial.error_cleared", "serial.reconnected"} : Says(Event(type, of)) = {}
  BY <1>1 DEF Says
<1>13. Says(Event("drive.attached", of)) = {[of |-> "drive", is |-> "attached"]}
  BY <1>1 DEF Says
<1>14. Says(Event("drive.detached", of)) = {[of |-> "drive", is |-> "detached"]}
  BY <1>1 DEF Says
<1>15. Says(Event("drive.editing", of)) = {[of |-> "drive", is |-> "editing"]}
  BY <1>1 DEF Says
<1> QED
  BY <1>2, <1>3, <1>4, <1>5, <1>6, <1>7, <1>8, <1>9, <1>10, <1>11, <1>12, <1>13, <1>14, <1>15

\* What one event says is what the events say.
LEMMA SaidIsNews ==
  ASSUME NEW evs, NEW x, About(x, evs) = {}
  PROVE  \A v : \A ev \in evs : Says(ev) # {[of |-> x, is |-> v]}
<1> SUFFICES ASSUME NEW ev \in evs, NEW v, Says(ev) = {[of |-> x, is |-> v]}
             PROVE  FALSE
  OBVIOUS
<1> DEFINE n == [of |-> x, is |-> v]
<1>1. n \in Says(ev) /\ n.of = x
  OBVIOUS
<1> HIDE DEF n
<1> QED
  BY <1>1 DEF About, News

LEMMA UsbFaithful ==
  ASSUME NEW prev \in UsbSamples, NEW cur \in UsbSamples, NEW x
  PROVE  Faithful("usb", prev, cur, x)
<1> DEFINE evs == Semantic("usb", prev, cur)
           bound == Event("gadget.bound", "usb")
           unbound == Event("gadget.unbound", "usb")
           up == Event("serial.enumerated", "usb")
           down == Event("serial.deenumerated", "usb")
           resumed == Event("usb.resumed", "usb")
           enumerated == Event("usb.enumerated", "usb")
           suspended == Event("usb.suspended", "usb")
           detached == Event("usb.detached", "usb")
           enumerating == Event("usb.enumerating", "usb")
           moved == cur.state # prev.state
<1>1. evs = {ev \in {bound} : IsBound(cur) /\ ~IsBound(prev)}
            \cup {ev \in {unbound} : IsBound(prev) /\ ~IsBound(cur)}
            \cup {ev \in {up} : ComPresent(cur) /\ ~ComPresent(prev)}
            \cup {ev \in {down} : ComPresent(prev) /\ ~ComPresent(cur)}
            \cup {ev \in {resumed} : moved /\ cur.state = "configured" /\ prev.state = "suspended"}
            \cup {ev \in {enumerated} : moved /\ cur.state = "configured" /\ prev.state # "suspended"}
            \cup {ev \in {suspended} : moved /\ cur.state = "suspended"}
            \cup {ev \in {detached} : moved /\ cur.state = "not attached"}
            \cup {ev \in {enumerating} : moved /\ cur.state \in Enumerating /\ prev.state \in PreLink}
  <2>1. evs = UsbEvents(prev, cur) \cup ComEvents(prev, cur)
    BY DEF Semantic
  <2>2. ComEvents(prev, cur) = {ev \in {up} : ComPresent(cur) /\ ~ComPresent(prev)}
            \cup {ev \in {down} : ComPresent(prev) /\ ~ComPresent(cur)}
    BY DEF ComEvents, When
  <2>3. UsbEvents(prev, cur) = {ev \in {bound} : IsBound(cur) /\ ~IsBound(prev)}
            \cup {ev \in {unbound} : IsBound(prev) /\ ~IsBound(cur)}
            \cup {ev \in {resumed} : moved /\ cur.state = "configured" /\ prev.state = "suspended"}
            \cup {ev \in {enumerated} : moved /\ cur.state = "configured" /\ prev.state # "suspended"}
            \cup {ev \in {suspended} : moved /\ cur.state = "suspended"}
            \cup {ev \in {detached} : moved /\ cur.state = "not attached"}
            \cup {ev \in {enumerating} : moved /\ cur.state \in Enumerating /\ prev.state \in PreLink}
    <3>1. CASE moved
      BY <3>1 DEF UsbEvents, When
    <3>2. CASE ~moved
      BY <3>2 DEF UsbEvents, When
    <3> QED
      BY <3>1, <3>2
  <2> QED
    BY <2>1, <2>2, <2>3
<1> DEFINE link == IF cur.state \in SettledLinks THEN cur.state ELSE "enumerating"
<1>2. /\ Says(bound) = {[of |-> "bound", is |-> "yes"]}
      /\ Says(unbound) = {[of |-> "bound", is |-> "no"]}
      /\ Says(up) = {[of |-> "com", is |-> "yes"]}
      /\ Says(down) = {[of |-> "com", is |-> "no"]}
      /\ Says(resumed) = {[of |-> "usb", is |-> "configured"]}
      /\ Says(enumerated) = {[of |-> "usb", is |-> "configured"]}
      /\ Says(suspended) = {[of |-> "usb", is |-> "suspended"]}
      /\ Says(detached) = {[of |-> "usb", is |-> "not attached"]}
      /\ Says(enumerating) = {[of |-> "usb", is |-> "enumerating"]}
  BY SaysIs
<1> HIDE DEF evs, bound, unbound, up, down, resumed, enumerated, suspended, detached, enumerating
\* What an event says is what the new sample shows.
<1>3. ASSUME NEW ev \in evs
      PROVE  \/ Says(ev) = {[of |-> "bound", is |-> YesNo(IsBound(cur))]}
             \/ Says(ev) = {[of |-> "com", is |-> YesNo(ComPresent(cur))]}
             \/ Says(ev) = {[of |-> "usb", is |-> link]}
  <2>1. CASE ev = bound /\ IsBound(cur)
    BY <1>2, <2>1 DEF YesNo
  <2>2. CASE ev = unbound /\ ~IsBound(cur)
    BY <1>2, <2>2 DEF YesNo
  <2>3. CASE ev = up /\ ComPresent(cur)
    BY <1>2, <2>3 DEF YesNo
  <2>4. CASE ev = down /\ ~ComPresent(cur)
    BY <1>2, <2>4 DEF YesNo
  <2>5. CASE (ev = resumed \/ ev = enumerated) /\ cur.state = "configured"
    BY <1>2, <2>5 DEF SettledLinks
  <2>6. CASE ev = suspended /\ cur.state = "suspended"
    BY <1>2, <2>6 DEF SettledLinks
  <2>7. CASE ev = detached /\ cur.state = "not attached"
    BY <1>2, <2>7 DEF SettledLinks
  <2>8. CASE ev = enumerating /\ cur.state \in Enumerating
    BY <1>2, <2>8 DEF SettledLinks, Enumerating
  <2> QED
    BY <1>1, <1>3, <2>1, <2>2, <2>3, <2>4, <2>5, <2>6, <2>7, <2>8
<1>4. \A n \in About(x, evs) : \/ x = "bound" /\ n = [of |-> x, is |-> YesNo(IsBound(cur))]
                               \/ x = "com" /\ n = [of |-> x, is |-> YesNo(ComPresent(cur))]
                               \/ x = "usb" /\ n = [of |-> x, is |-> link]
  <2> SUFFICES ASSUME NEW n \in About(x, evs)
               PROVE  \/ x = "bound" /\ n = [of |-> x, is |-> YesNo(IsBound(cur))]
                      \/ x = "com" /\ n = [of |-> x, is |-> YesNo(ComPresent(cur))]
                      \/ x = "usb" /\ n = [of |-> x, is |-> link]
    OBVIOUS
  <2>1. PICK ev \in evs : n \in Says(ev) /\ n.of = x
    BY DEF About, News
  <2> HIDE DEF link
  <2> QED
    BY <1>3, <2>1
<1>5. \A m, n \in About(x, evs) : m = n
  <2> HIDE DEF link
  <2> QED
    BY <1>4
<1>6. ASSUME x \in Tells("usb", cur), NEW n \in About(x, evs)
      PROVE  n.is = Shown("usb", cur, x)
  <2>1. CASE x = "bound"
    BY <1>4, <2>1 DEF Shown
  <2>2. CASE x = "com"
    BY <1>4, <2>2 DEF Shown
  <2>3. CASE x = "usb" /\ cur.state \in SettledLinks
    <3>1. n.is = link
      <4> HIDE DEF link
      <4> QED
        BY <1>4, <2>3
    <3> QED
      BY <2>3, <3>1 DEF Shown
  <2> QED
    BY <1>6, <2>1, <2>2, <2>3 DEF Tells
<1>7. ASSUME x \in Tells("usb", cur), About(x, evs) = {}
      PROVE  x \in Tells("usb", prev) /\ Shown("usb", prev, x) = Shown("usb", cur, x)
  <2>0. \A v : \A ev \in evs : Says(ev) # {[of |-> x, is |-> v]}
    BY <1>7, SaidIsNews
  <2>1. CASE x = "bound"
    <3>1. bound \notin evs /\ unbound \notin evs
      BY <1>2, <1>7, <2>1, <2>0
    <3>2. IsBound(cur) <=> IsBound(prev)
      BY <1>1, <3>1
    <3> QED
      BY <2>1, <3>2 DEF Tells, Shown, YesNo
  <2>2. CASE x = "com"
    <3>1. up \notin evs /\ down \notin evs
      BY <1>2, <1>7, <2>2, <2>0
    <3>2. ComPresent(cur) <=> ComPresent(prev)
      BY <1>1, <3>1
    <3> QED
      BY <2>2, <3>2 DEF Tells, Shown, YesNo
  <2>3. CASE x = "usb" /\ cur.state \in SettledLinks
    <3>1. /\ resumed \notin evs /\ enumerated \notin evs
          /\ suspended \notin evs /\ detached \notin evs
      BY <1>2, <1>7, <2>3, <2>0
    <3>2. cur.state = prev.state
      BY <1>1, <2>3, <3>1 DEF SettledLinks
    <3> QED
      BY <2>3, <3>2 DEF Tells, Shown
  <2> QED
    BY <1>7, <2>1, <2>2, <2>3 DEF Tells
<1> QED
  BY <1>5, <1>6, <1>7 DEF Faithful, evs

LEMMA HidFaithful ==
  ASSUME NEW prev \in HidSamples, NEW cur \in HidSamples, NEW x
  PROVE  Faithful("hid", prev, cur, x)
<1> DEFINE evs == Semantic("hid", prev, cur)
           is(d) == [of |-> d, is |-> YesNo(cur[d])]
<1>1. evs = UNION {When(cur[d] /\ ~prev[d], "hid.online", d)
                   \cup When(prev[d] /\ ~cur[d], "hid.offline", d) : d \in HidDevices}
  BY DEF Semantic, HidEvents, Each
<1>2. \A d : /\ Says(Event("hid.online", d)) = {[of |-> d, is |-> "yes"]}
             /\ Says(Event("hid.offline", d)) = {[of |-> d, is |-> "no"]}
  BY SaysIs
<1>3. ASSUME NEW ev \in evs
      PROVE  \E d \in HidDevices : Says(ev) = {is(d)}
  <2>1. PICK d \in HidDevices : \/ ev \in When(cur[d] /\ ~prev[d], "hid.online", d)
                                \/ ev \in When(prev[d] /\ ~cur[d], "hid.offline", d)
    BY <1>1
  <2>2. \/ ev = Event("hid.online", d) /\ cur[d]
        \/ ev = Event("hid.offline", d) /\ ~cur[d]
    BY <2>1 DEF When
  <2>3. Says(ev) = {is(d)}
    BY <1>2, <2>2 DEF YesNo
  <2> QED
    BY <2>3
<1>4. ASSUME NEW n \in About(x, evs)
      PROVE  x \in HidDevices /\ n = is(x)
  <2>1. PICK ev \in evs : n \in Says(ev) /\ n.of = x
    BY DEF About, News
  <2>2. PICK d \in HidDevices : Says(ev) = {is(d)}
    BY <1>3
  <2>3. n = is(d) /\ is(d).of = d
    BY <2>1, <2>2
  <2> QED
    BY <2>1, <2>3
<1>5. ASSUME x \in HidDevices, About(x, evs) = {}
      PROVE  YesNo(cur[x]) = YesNo(prev[x])
  <2>1. \A v : \A ev \in evs : Says(ev) # {[of |-> x, is |-> v]}
    BY <1>5, SaidIsNews
  <2>2. Event("hid.online", x) \notin evs /\ Event("hid.offline", x) \notin evs
    BY <1>2, <2>1
  <2>3. /\ When(cur[x] /\ ~prev[x], "hid.online", x) \subseteq evs
        /\ When(prev[x] /\ ~cur[x], "hid.offline", x) \subseteq evs
    BY <1>1, <1>5
  <2>4. ~(cur[x] /\ ~prev[x]) /\ ~(prev[x] /\ ~cur[x])
    BY <2>2, <2>3 DEF When
  <2> QED
    BY <2>4 DEF YesNo
<1>6. \A n \in About(x, evs) : n.is = YesNo(cur[x])
  BY <1>4
<1>7. \A m, n \in About(x, evs) : m = n
  BY <1>4
<1> HIDE DEF is
<1> QED
  BY <1>4, <1>5, <1>6, <1>7 DEF Faithful, Tells, Shown

LEMMA SerialFaithful ==
  ASSUME NEW prev \in SerialSamples, NEW cur \in SerialSamples, NEW x
  PROVE  Faithful("serial", prev, cur, x)
<1> DEFINE evs == Semantic("serial", prev, cur)
           is(p) == [of |-> p, is |-> YesNo(cur[p].open)]
           of(p) == IF cur[p].listed
                    THEN When(cur[p].open /\ ~prev[p].open, "serial.opened", p)
                         \cup When(prev[p].open /\ ~cur[p].open, "serial.closed", p)
                         \cup When(prev[p].listed /\ cur[p].reconnects > prev[p].reconnects,
                                   "serial.reconnected", p)
                         \cup When(cur[p].error /\ ~prev[p].error, "serial.error", p)
                         \cup When(prev[p].error /\ ~cur[p].error, "serial.error_cleared", p)
                    ELSE When(prev[p].open, "serial.closed", p)
<1>1. evs = UNION {of(p) : p \in Ports}
  BY DEF Semantic, SerialEvents, Each
<1>2. \A p : /\ Says(Event("serial.opened", p)) = {[of |-> p, is |-> "yes"]}
             /\ Says(Event("serial.closed", p)) = {[of |-> p, is |-> "no"]}
             /\ Says(Event("serial.reconnected", p)) = {}
             /\ Says(Event("serial.error", p)) = {}
             /\ Says(Event("serial.error_cleared", p)) = {}
  BY SaysIs
\* A port that is not listed is not open.
<1>3. \A p \in Ports : cur[p].listed \/ ~cur[p].open
  <2>1. \A p \in Ports : cur[p] \in PortStates
    BY DEF SerialSamples
  <2>2. Absent.open = FALSE
    BY DEF Absent
  <2>3. \A s \in PortStates \ {Absent} : s.listed
    BY DEF PortStates
  <2> QED
    BY <2>1, <2>2, <2>3
<1>4. ASSUME NEW ev \in evs
      PROVE  \E p \in Ports : Says(ev) \subseteq {is(p)}
  <2>1. PICK p \in Ports : ev \in of(p)
    BY <1>1
  <2>2. \/ ev = Event("serial.opened", p) /\ cur[p].open
        \/ ev = Event("serial.closed", p) /\ ~cur[p].open
        \/ ev = Event("serial.reconnected", p)
        \/ ev = Event("serial.error", p)
        \/ ev = Event("serial.error_cleared", p)
    BY <1>3, <2>1 DEF When
  <2>3. Says(ev) \subseteq {is(p)}
    BY <1>2, <2>2 DEF YesNo
  <2> QED
    BY <2>3
<1>5. ASSUME NEW n \in About(x, evs)
      PROVE  x \in Ports /\ n = is(x)
  <2>1. PICK ev \in evs : n \in Says(ev) /\ n.of = x
    BY DEF About, News
  <2>2. PICK p \in Ports : Says(ev) \subseteq {is(p)}
    BY <1>4
  <2>3. n = is(p) /\ is(p).of = p
    BY <2>1, <2>2
  <2> QED
    BY <2>1, <2>3
<1>6. ASSUME x \in Ports, About(x, evs) = {}
      PROVE  YesNo(cur[x].open) = YesNo(prev[x].open)
  <2>1. \A v : \A ev \in evs : Says(ev) # {[of |-> x, is |-> v]}
    BY <1>6, SaidIsNews
  <2>2. Event("serial.opened", x) \notin evs /\ Event("serial.closed", x) \notin evs
    BY <1>2, <2>1
  <2>3. of(x) \subseteq evs
    BY <1>1, <1>6
  <2>4. ~(cur[x].open /\ ~prev[x].open) /\ ~(prev[x].open /\ ~cur[x].open)
    BY <1>3, <1>6, <2>2, <2>3 DEF When
  <2> QED
    BY <2>4 DEF YesNo
<1>7. \A n \in About(x, evs) : n.is = YesNo(cur[x].open)
  BY <1>5
<1>8. \A m, n \in About(x, evs) : m = n
  BY <1>5
<1> HIDE DEF is, of
<1> QED
  BY <1>5, <1>6, <1>7, <1>8 DEF Faithful, Tells, Shown

LEMMA PowerFaithful ==
  ASSUME NEW prev \in PowerSamples, NEW cur \in PowerSamples, NEW x
  PROVE  Faithful("power", prev, cur, x)
<1> DEFINE evs == Semantic("power", prev, cur)
           known == {t \in Targets : cur[t] \in {"on", "off"}}
           is(t) == [of |-> t, is |-> YesNo(cur[t] = "on")]
           of(t) == When(cur[t] = "on", "power.on", t) \cup When(cur[t] = "off", "power.off", t)
<1>1. evs = UNION {of(t) : t \in {u \in Targets : cur[u] \in {"on", "off"} /\ cur[u] # prev[u]}}
  BY DEF Semantic, PowerEvents, Each
<1>2. \A t : /\ Says(Event("power.on", t)) = {[of |-> t, is |-> "yes"]}
             /\ Says(Event("power.off", t)) = {[of |-> t, is |-> "no"]}
  BY SaysIs
<1>3. ASSUME NEW ev \in evs
      PROVE  \E t \in known : Says(ev) = {is(t)}
  <2>1. PICK t \in known : ev \in of(t)
    BY <1>1
  <2>2. \/ ev = Event("power.on", t) /\ cur[t] = "on"
        \/ ev = Event("power.off", t) /\ cur[t] = "off"
    BY <2>1 DEF When
  <2>3. Says(ev) = {is(t)}
    BY <1>2, <2>2 DEF YesNo
  <2> QED
    BY <2>3
<1>4. ASSUME NEW n \in About(x, evs)
      PROVE  x \in known /\ n = is(x)
  <2>1. PICK ev \in evs : n \in Says(ev) /\ n.of = x
    BY DEF About, News
  <2>2. PICK t \in known : Says(ev) = {is(t)}
    BY <1>3
  <2>3. n = is(t) /\ is(t).of = t
    BY <2>1, <2>2
  <2> QED
    BY <2>1, <2>3
<1>5. ASSUME x \in known, About(x, evs) = {}
      PROVE  cur[x] = prev[x]
  <2>1. \A v : \A ev \in evs : Says(ev) # {[of |-> x, is |-> v]}
    BY <1>5, SaidIsNews
  <2>2. Event("power.on", x) \notin evs /\ Event("power.off", x) \notin evs
    BY <1>2, <2>1
  <2>3. cur[x] # prev[x] => of(x) \subseteq evs
    BY <1>1, <1>5
  <2> QED
    BY <1>5, <2>2, <2>3 DEF When
<1>6. \A n \in About(x, evs) : n.is = YesNo(cur[x] = "on")
  BY <1>4
<1>7. \A m, n \in About(x, evs) : m = n
  BY <1>4
<1> HIDE DEF is, of
<1> QED
  BY <1>5, <1>6, <1>7 DEF Faithful, Tells, Shown

LEMMA DriveFaithful ==
  ASSUME NEW prev \in DriveSamples, NEW cur \in DriveSamples, NEW x
  PROVE  Faithful("drive", prev, cur, x)
<1> DEFINE evs == Semantic("drive", prev, cur)
<1>1. evs = IF cur = prev THEN {} ELSE {Event(CASE cur = "attached" -> "drive.attached"
                                                [] cur = "detached" -> "drive.detached"
                                                [] cur = "editing" -> "drive.editing", "drive")}
  BY DEF Semantic, DriveEvents, When, DriveSamples
<1>2. \A ev \in evs : Says(ev) = {[of |-> "drive", is |-> cur]}
  <2>0. /\ Says(Event("drive.attached", "drive")) = {[of |-> "drive", is |-> "attached"]}
        /\ Says(Event("drive.detached", "drive")) = {[of |-> "drive", is |-> "detached"]}
        /\ Says(Event("drive.editing", "drive")) = {[of |-> "drive", is |-> "editing"]}
    BY SaysIs
  <2>1. CASE cur = "attached"
    <3>1. \A ev \in evs : ev = Event("drive.attached", "drive")
      BY <1>1, <2>1
    <3> QED
      BY <2>0, <2>1, <3>1
  <2>2. CASE cur = "detached"
    <3>1. \A ev \in evs : ev = Event("drive.detached", "drive")
      BY <1>1, <2>2
    <3> QED
      BY <2>0, <2>2, <3>1
  <2>3. CASE cur = "editing"
    <3>1. \A ev \in evs : ev = Event("drive.editing", "drive")
      BY <1>1, <2>3
    <3> QED
      BY <2>0, <2>3, <3>1
  <2> QED
    BY <2>1, <2>2, <2>3 DEF DriveSamples
<1>3. cur # prev => evs # {}
  BY <1>1
<1> HIDE DEF evs
<1>4. ASSUME NEW n \in About(x, evs)
      PROVE  n = [of |-> "drive", is |-> cur]
  BY <1>2 DEF About, News
<1>5. ASSUME x = "drive", About(x, evs) = {}
      PROVE  cur = prev
  <2>1. \A v : \A ev \in evs : Says(ev) # {[of |-> x, is |-> v]}
    BY <1>5, SaidIsNews
  <2> QED
    BY <1>2, <1>3, <1>5, <2>1
<1>6. \A n \in About(x, evs) : n.is = cur
  BY <1>4
<1> QED
  BY <1>4, <1>5, <1>6 DEF Faithful, Tells, Shown, evs

LEMMA StepFaithful ==
  ASSUME NEW d \in Domains, NEW prev \in SamplesOf(d), NEW cur \in SamplesOf(d), NEW x
  PROVE  Faithful(d, prev, cur, x)
<1>1. CASE d = "usb"
  BY <1>1, UsbFaithful DEF SamplesOf
<1>2. CASE d = "hid"
  BY <1>2, HidFaithful DEF SamplesOf
<1>3. CASE d = "serial"
  BY <1>3, SerialFaithful DEF SamplesOf
<1>4. CASE d = "power"
  BY <1>4, PowerFaithful DEF SamplesOf
<1>5. CASE d = "drive"
  BY <1>5, DriveFaithful DEF SamplesOf
<1> QED
  BY <1>1, <1>2, <1>3, <1>4, <1>5 DEF Domains

\* The poller has no sample or one, and the listener knows what that one shows.
PollInv ==
    /\ domain \in Domains
    /\ sample = <<>> \/ \E s \in SamplesOf(domain) : sample = <<s>>
    /\ \A i \in DOMAIN sample :
          \A x \in Tells(domain, sample[i]) : told[x] = Shown(domain, sample[i], x)

LEMMA TellsSubjects ==
  ASSUME NEW d \in Domains, NEW s
  PROVE  Tells(d, s) \subseteq Subjects
<1>1. CASE d = "usb"
  BY <1>1 DEF Tells, Subjects
<1>2. CASE d \in {"hid", "serial", "drive"}
  BY <1>2 DEF Tells, Subjects
<1>3. CASE d = "power"
  BY <1>3 DEF Tells, Subjects
<1> QED
  BY <1>1, <1>2, <1>3 DEF Domains

LEMMA PollStep ==
  ASSUME PollInv, [PollNext]_pollVars
  PROVE  PollInv'
<1>1. CASE UNCHANGED pollVars
  BY <1>1 DEF PollInv, pollVars
<1>2. CASE FirstPoll
  <2>1. PICK s \in SamplesOf(domain) :
            /\ sample' = <<s>>
            /\ told' = [x \in Subjects |-> IF x \in Tells(domain, s)
                                           THEN Shown(domain, s, x) ELSE told[x]]
    BY <1>2 DEF FirstPoll
  <2>2. domain' = domain /\ DOMAIN sample' = {1} /\ sample'[1] = s
    BY <1>2, <2>1 DEF FirstPoll
  <2>3. \A x \in Tells(domain, s) : told'[x] = Shown(domain, s, x)
    BY <2>1, TellsSubjects DEF PollInv
  <2> QED
    BY <2>1, <2>2, <2>3 DEF PollInv
<1>3. CASE NextPoll
  <2>1. PICK s \in SamplesOf(domain) :
            /\ sample' = <<s>>
            /\ told' = Hear(told, Semantic(domain, sample[1], s))
    BY <1>3 DEF NextPoll
  <2>2. domain' = domain /\ DOMAIN sample' = {1} /\ sample'[1] = s
    BY <1>3, <2>1 DEF NextPoll
  <2>3. PICK prev \in SamplesOf(domain) : sample = <<prev>>
    BY <1>3 DEF PollInv, NextPoll
  <2>4. /\ sample[1] = prev
        /\ \A x \in Tells(domain, prev) : told[x] = Shown(domain, prev, x)
    BY <2>3 DEF PollInv
  <2>5. ASSUME NEW x \in Tells(domain, s)
        PROVE  told'[x] = Shown(domain, s, x)
    <3> DEFINE news == About(x, Semantic(domain, prev, s))
    <3>1. x \in Subjects /\ domain \in Domains
      BY TellsSubjects DEF PollInv
    <3>2. told'[x] = IF news = {} THEN told[x] ELSE (CHOOSE n \in news : TRUE).is
      BY <2>1, <2>4, <3>1 DEF Hear
    <3>3. Faithful(domain, prev, s, x)
      BY <3>1, StepFaithful
    <3>4. /\ \A n \in news : n.is = Shown(domain, s, x)
          /\ news = {} => x \in Tells(domain, prev) /\ Shown(domain, prev, x) = Shown(domain, s, x)
      BY <3>3 DEF Faithful
    <3> HIDE DEF news
    <3>5. news # {} => (CHOOSE n \in news : TRUE) \in news
      OBVIOUS
    <3> QED
      BY <2>4, <3>2, <3>4, <3>5
  <2> QED
    BY <2>1, <2>2, <2>5 DEF PollInv
<1> QED
  BY <1>1, <1>2, <1>3 DEF PollNext

\* The semantic events add up: whoever hears every one of them knows what the last sample
\* shows, and the events of one step never contradict each other, for any serial ports,
\* power targets and samples.
THEOREM EventsAddUp == PollSpec => []SemanticAddsUp
<1>1. PollInit => PollInv
  BY DEF PollInit, PollInv
<1>2. PollInv /\ [PollNext]_pollVars => PollInv'
  BY PollStep
<1>3. PollInv => SemanticAddsUp
  <2> SUFFICES ASSUME PollInv, NEW i \in DOMAIN sample, NEW s \in SamplesOf(domain), NEW x,
                      NEW m \in About(x, Semantic(domain, sample[i], s)),
                      NEW n \in About(x, Semantic(domain, sample[i], s))
               PROVE  m = n
    BY DEF PollInv, SemanticAddsUp
  <2>1. domain \in Domains /\ sample[i] \in SamplesOf(domain)
    BY DEF PollInv
  <2> QED
    BY <2>1, StepFaithful DEF Faithful
<1> QED
  BY <1>1, <1>2, <1>3, PTL DEF PollSpec

=============================================================================
