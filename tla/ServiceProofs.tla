---------------------------- MODULE ServiceProofs ----------------------------
(***************************************************************************)
(* VideoTap, Settings and InputSessions for every value of their           *)
(* constants: what a slow viewer is sent, which card streams, what a       *)
(* partial save leaves alone, and that the input of a page is applied      *)
(* whole, in order, and let go of when the page is gone (SessInv).         *)
(***************************************************************************)
EXTENDS VideoTap, Settings, InputSessions, SequenceTheorems, TLAPS

-----------------------------------------------------------------------------
(* The tap keeps one part, the newest.                                     *)

\* What has not been taken is the newest part there is.
KeepsNewest == latest \in {0, part}

LEMMA KeepsNewestStep == ASSUME KeepsNewest, [TapNext]_tapVars PROVE KeepsNewest'
<1> USE DEF KeepsNewest, tap
<1>1. CASE OpenTap  BY <1>1 DEF OpenTap
<1>2. CASE PumpReceives  BY <1>2 DEF PumpReceives
<1>3. CASE StreamerEnds  BY <1>3 DEF StreamerEnds
<1>4. CASE TakeSteps  BY <1>4 DEF TakeSteps, TakeBegins, TakeWakes, CloseTap
<1>5. CASE Encoded \/ RelaySends \/ Acknowledged \/ ViewerGone
  BY <1>5 DEF Encoded, RelaySends, Acknowledged, ViewerGone
<1>6. CASE UNCHANGED tapVars  BY <1>6 DEF tapVars
<1> QED
  BY <1>1, <1>2, <1>3, <1>4, <1>5, <1>6 DEF TapNext

\* What a viewer's handler takes is the newest part.
LEMMA NewestStep ==
  ASSUME KeepsNewest, [TapNext]_tapVars, handler = "waiting",
         handler' \in {"encoding", "sending"}
  PROVE  inFlight' = part
<1> USE DEF KeepsNewest, tap
<1>1. CASE OpenTap  BY <1>1 DEF OpenTap
<1>2. CASE PumpReceives \/ StreamerEnds  BY <1>2 DEF PumpReceives, StreamerEnds
<1>3. CASE TakeSteps  BY <1>3 DEF TakeSteps, TakeBegins, TakeWakes, CloseTap
<1>4. CASE Encoded \/ RelaySends \/ Acknowledged \/ ViewerGone
  BY <1>4 DEF Encoded, RelaySends, Acknowledged, ViewerGone
<1>5. CASE UNCHANGED tapVars  BY <1>5 DEF tapVars
<1> QED
  BY <1>1, <1>2, <1>3, <1>4, <1>5 DEF TapNext

\* However slow the viewer, what is taken for it next is the newest part that has come, for
\* any number of parts.
THEOREM NewestIsSent == TapSpec => SendsTheNewest
<1> DEFINE Sends == handler = "waiting" /\ handler' \in {"encoding", "sending"} => inFlight' = part
<1>1. TapInit => KeepsNewest
  BY DEF TapInit, KeepsNewest
<1>2. KeepsNewest /\ [TapNext]_tapVars => KeepsNewest'
  BY KeepsNewestStep
<1>3. KeepsNewest /\ [TapNext]_tapVars => [Sends]_tapVars
  BY NewestStep
<1> QED
  BY <1>1, <1>2, <1>3, PTL DEF TapSpec, SendsTheNewest

-----------------------------------------------------------------------------
(* Requests and what they hold.                                            *)

\* A request that selects has its card.
HasCard ==
    /\ DOMAIN request = Requests
    /\ \A r \in Requests : request[r].at \in {"selecting", "writing"} =>
           request[r] = [at |-> request[r].at, card |-> request[r].card]

LEMMA IdleIs == Idle.at = "idle"
  BY DEF Idle

\* Parsers that agree choose the same card.
LEMMA AgreedCard ==
  \A list, card : Agree(list, card) => Played(list, card) = Active(list, card)
<1> TAKE list, card
<1>1. CASE Offered(list) = Playable(list)
  BY <1>1 DEF Played, Active
<1>2. CASE \E i \in Offered(list) : list[i].card = card /\ \E j \in Playable(list) : list[j].card = card
  BY <1>2 DEF Played, Active, Chosen
<1> QED
  BY <1>1, <1>2 DEF Agree

LEMMA ShownStep ==
  ASSUME HasCard, ShownIsStreamed, [SettingsNext]_settingsVars
  PROVE  HasCard' /\ ShownIsStreamed'
<1> USE IdleIs DEF HasCard, ShownIsStreamed, Choosing
<1>1. ASSUME NEW r \in Requests, RequestStep(r) PROVE HasCard' /\ ShownIsStreamed'
  <2>1. ASSUME NEW key \in Fields, NEW value \in ValuesOf(key), SaveReads(r, key, value)
        PROVE  HasCard' /\ ShownIsStreamed'
    BY <2>1 DEF SaveReads
  <2>2. CASE SaveWrites(r)
    BY <2>2 DEF SaveWrites
  <2>3. CASE SaveRefused(r)
    BY <2>3 DEF SaveRefused
  <2>4. ASSUME NEW card \in Cards, SelectReads(r, card) PROVE HasCard' /\ ShownIsStreamed'
    BY <2>4 DEF SelectReads
  <2>5. CASE SelectEmpties(r)
    <3>1. request'[r] = [at |-> "writing", card |-> request[r].card]
      BY <2>5 DEF SelectEmpties
    <3>2. \A q \in Requests : q # r => request'[q] = request[q]
      BY <2>5 DEF SelectEmpties
    <3>3. DOMAIN request' = Requests
      BY <2>5 DEF SelectEmpties
    <3> QED
      BY <3>1, <3>2, <3>3
  <2>6. CASE SelectWrites(r)
    BY <2>6 DEF SelectWrites
  <2>7. CASE RestartButton(r)
    BY <2>7 DEF RestartButton
  <2>8. CASE Restarts(r)
    BY <2>8, AgreedCard DEF Restarts, StreamerStarts
  <2>9. CASE SelectRefused(r) \/ SelectFails(r)
    BY <2>9 DEF SelectRefused, SelectFails
  <2> QED
    BY <1>1, <2>1, <2>2, <2>3, <2>4, <2>5, <2>6, <2>7, <2>8, <2>9 DEF RequestStep
<1>2. CASE StreamerRestarted
  BY <1>2, AgreedCard DEF StreamerRestarted, StreamerStarts
<1>3. CASE UNCHANGED settingsVars
  BY <1>3 DEF settingsVars
<1> QED
  BY <1>1, <1>2, <1>3 DEF SettingsNext

\* With no selection under way or failed half way and nothing unapplied, the card shown as
\* active is the one that streams whenever the app and kvm-ustreamer read the list alike,
\* for any number of concurrent requests, cards and lists.
THEOREM ActiveStreams == SettingsSpec => []ShownIsStreamed
<1>1. SettingsInit => HasCard /\ ShownIsStreamed
  BY IdleIs, AgreedCard DEF SettingsInit, HasCard, ShownIsStreamed
<1>2. HasCard /\ ShownIsStreamed /\ [SettingsNext]_settingsVars => (HasCard /\ ShownIsStreamed)'
  BY ShownStep
<1> QED
  BY <1>1, <1>2, PTL DEF SettingsSpec

-----------------------------------------------------------------------------
(* Partial saves.                                                          *)

\* A save that no other has overtaken has the file's values but for the key it was given.
Carries ==
    /\ DOMAIN request = Requests /\ DOMAIN conf = Fields
    /\ \A r \in Requests : request[r].at = "saving" =>
           /\ DOMAIN request[r].draft = Fields
           /\ ~raced[r] => \A k \in Fields \ {request[r].key} : request[r].draft[k] = conf[k]

LEMMA InitCarries == SettingsInit => Carries
<1> SUFFICES ASSUME SettingsInit PROVE Carries
  OBVIOUS
<1>1. DOMAIN conf = Fields
  BY DEF SettingsInit, Default, Fields
<1> QED
  BY <1>1, IdleIs DEF SettingsInit, Carries

LEMMA CarriesStep ==
  ASSUME Carries, DOMAIN raced = Requests, [SettingsNext]_settingsVars
  PROVE  Carries' /\ DOMAIN raced' = Requests
<1> USE IdleIs DEF Carries
<1>1. ASSUME NEW r \in Requests, RequestStep(r) PROVE Carries' /\ DOMAIN raced' = Requests
  <2>1. ASSUME NEW key \in Fields, NEW value \in ValuesOf(key), SaveReads(r, key, value)
        PROVE  Carries' /\ DOMAIN raced' = Requests
    <3> DEFINE draft == [conf EXCEPT ![key] = value]
    <3>1. DOMAIN draft = Fields /\ \A k \in Fields \ {key} : draft[k] = conf[k]
      OBVIOUS
    <3>2. /\ request' = [request EXCEPT ![r] = [at |-> "saving", key |-> key, draft |-> draft]]
          /\ raced' = [raced EXCEPT ![r] = FALSE] /\ conf' = conf
      BY <2>1 DEF SaveReads
    <3> HIDE DEF draft
    <3>3. /\ request'[r].draft = draft /\ request'[r].key = key
          /\ \A q \in Requests : q # r => request'[q] = request[q] /\ raced'[q] = raced[q]
      BY <3>2
    <3> QED
      BY <3>1, <3>2, <3>3
  <2>2. CASE SaveWrites(r)
    <3>1. DOMAIN conf' = Fields
      BY <2>2 DEF SaveWrites
    <3>2. request'[r] = Idle /\ \A q \in Requests : q # r => request'[q] = request[q] /\ raced'[q]
      BY <2>2 DEF SaveWrites
    <3>3. DOMAIN request' = Requests /\ DOMAIN raced' = Requests
      BY <2>2 DEF SaveWrites
    <3> QED
      BY <3>1, <3>2, <3>3
  <2>3. CASE SaveRefused(r)
    BY <2>3 DEF SaveRefused
  <2>4. ASSUME NEW card \in Cards, SelectReads(r, card)
        PROVE  Carries' /\ DOMAIN raced' = Requests
    BY <2>4 DEF SelectReads
  <2>5. CASE SelectEmpties(r)
    <3>1. request'[r] = [request[r] EXCEPT !.at = "writing"] /\ DOMAIN request' = Requests
      BY <2>5 DEF SelectEmpties
    <3>2. \A q \in Requests : q # r => request'[q] = request[q]
      BY <2>5 DEF SelectEmpties
    <3>3. request'[r].at # "saving"
      BY <2>5, <3>1 DEF SelectEmpties
    <3> QED
      BY <2>5, <3>1, <3>2, <3>3 DEF SelectEmpties
  <2>6. CASE SelectWrites(r)
    BY <2>6 DEF SelectWrites
  <2>7. CASE RestartButton(r)
    BY <2>7 DEF RestartButton
  <2>8. CASE Restarts(r)
    BY <2>8 DEF Restarts, StreamerStarts
  <2>9. CASE SelectRefused(r) \/ SelectFails(r)
    BY <2>9 DEF SelectRefused, SelectFails
  <2> QED
    BY <1>1, <2>1, <2>2, <2>3, <2>4, <2>5, <2>6, <2>7, <2>8, <2>9 DEF RequestStep
<1>2. CASE StreamerRestarted
  BY <1>2 DEF StreamerRestarted, StreamerStarts
<1>3. CASE UNCHANGED settingsVars
  BY <1>3 DEF settingsVars
<1> QED
  BY <1>1, <1>2, <1>3 DEF SettingsNext

\* A partial save that no other save has overtaken leaves every other key as it was, for
\* any number of concurrent requests.
THEOREM OmittedStay == SettingsSpec => OmittedKept
<1> DEFINE Kept == \A r \in Requests :
               request[r].at = "saving" /\ conf' = request[r].draft /\ request'[r] = Idle
               /\ ~raced[r] => \A k \in Fields \ {request[r].key} : conf'[k] = conf[k]
           IInv == Carries /\ DOMAIN raced = Requests
<1>1. SettingsInit => IInv
  BY InitCarries DEF SettingsInit
<1>2. IInv /\ [SettingsNext]_settingsVars => IInv'
  BY CarriesStep
<1>3. IInv => [Kept]_settingsVars
  BY DEF Carries
<1> QED
  BY <1>1, <1>2, <1>3, PTL DEF SettingsSpec, OmittedKept

-----------------------------------------------------------------------------
(* Input sessions: the jobs in the pool.                                   *)

Places == {"off", "idle", "abs", "rel", "op", "leaving"}
Ops == {"none", "down", "up", "release"}
Hands == [at : Places, rel : Nat, op : Ops, key : Keys \cup {"none"}]
Kinds == {"abs", "rel", "down", "up", "release"}
Jobs == [task : Tasks, op : Kinds, arg : Nat \cup Keys \cup {"none"}]

\* A flush of the flusher that its connection's click must not overtake, and such a click.
Moving(o, j) == j.task = Flusher(o) /\ (j.op = "abs" \/ o \in Relative)
Click(o, j) == j.task = Loop(o) /\ j.op \in {"down", "up"}

\* Pool p has one job of a task at most, and no click before such a flush.
Orderly(p) ==
    /\ \A i, j \in DOMAIN p : p[i].task = p[j].task => i = j
    /\ \A o \in Operators : \A i, j \in DOMAIN p : Moving(o, p[i]) /\ Click(o, p[j]) => i < j

HasJob(p, t) == \E i \in DOMAIN p : p[i].task = t

\* The relative motion of a job, and of the job of task t in pool p.
Units(j) == IF j.op = "rel" THEN j.arg ELSE 0
MovesIn(p, t) == {i \in {i \in DOMAIN p : p[i].task = t} : p[i].op = "rel"}
HandedIn(p, t) == IF MovesIn(p, t) = {} THEN 0 ELSE p[CHOOSE i \in MovesIn(p, t) : TRUE].arg

LEMMA PoolReads == ASSUME NEW t PROVE Handed(t) = HandedIn(pool, t) /\ (JobsOf(t) = {} <=> ~HasJob(pool, t))
  BY DEF Handed, HandedIn, MovesIn, JobsOf, HasJob

\* The motion of a task is that of its one job.
LEMMA HandedOne ==
  ASSUME NEW p, Orderly(p), NEW i \in DOMAIN p
  PROVE  HandedIn(p, p[i].task) = Units(p[i])
<1> DEFINE t == p[i].task
<1>1. CASE p[i].op = "rel"
  <2>1. i \in MovesIn(p, t)
    BY <1>1 DEF MovesIn
  <2>2. (CHOOSE k \in MovesIn(p, t) : TRUE) \in MovesIn(p, t)
    BY <2>1
  <2>3. \A k \in MovesIn(p, t) : k = i
    BY DEF MovesIn, Orderly
  <2> QED
    BY <1>1, <2>1, <2>2, <2>3 DEF HandedIn, Units
<1>2. CASE p[i].op # "rel"
  <2>1. MovesIn(p, t) = {}
    BY <1>2 DEF MovesIn, Orderly
  <2> QED
    BY <1>2, <2>1 DEF HandedIn, Units
<1> QED
  BY <1>1, <1>2

LEMMA HandedNone == ASSUME NEW p, NEW t, ~HasJob(p, t) PROVE HandedIn(p, t) = 0
  BY DEF HandedIn, MovesIn, HasJob

\* A job that is added behind the others.
LEMMA JobAdded ==
  ASSUME NEW p \in Seq(Jobs), Orderly(p), NEW j \in Jobs, ~HasJob(p, j.task),
         \A o \in Operators, i \in DOMAIN p : ~(Moving(o, j) /\ Click(o, p[i]))
  PROVE  /\ Append(p, j) \in Seq(Jobs) /\ Orderly(Append(p, j))
         /\ HandedIn(Append(p, j), j.task) = Units(j)
         /\ \A t : t # j.task => HandedIn(Append(p, j), t) = HandedIn(p, t)
                                 /\ (HasJob(Append(p, j), t) <=> HasJob(p, t))
         /\ HasJob(Append(p, j), j.task)
         /\ \A i \in DOMAIN Append(p, j) : Append(p, j)[i] = j \/ \E k \in DOMAIN p : Append(p, j)[i] = p[k]
<1> DEFINE r == Append(p, j)
<1>1. /\ r \in Seq(Jobs) /\ DOMAIN r = 1 .. Len(p) + 1 /\ DOMAIN p = 1 .. Len(p) /\ Len(p) \in Nat
      /\ r[Len(p) + 1] = j /\ \A i \in 1 .. Len(p) : r[i] = p[i]
  OBVIOUS
<1> HIDE DEF r
<1>2. Orderly(r)
  <2>1. \A i, k \in DOMAIN r : r[i].task = r[k].task => i = k
    BY <1>1 DEF Orderly, HasJob
  <2>2. ASSUME NEW o \in Operators, NEW i \in DOMAIN r, NEW k \in DOMAIN r, Moving(o, r[i]), Click(o, r[k])
        PROVE  i < k
    <3>1. i \in 1 .. Len(p)
      <4>1. CASE i = Len(p) + 1 /\ k = Len(p) + 1
        BY <1>1, <2>2, <4>1 DEF Moving, Click, Flusher, Loop
      <4>2. CASE i = Len(p) + 1 /\ k # Len(p) + 1
        BY <1>1, <2>2, <4>2
      <4> QED
        BY <1>1, <4>1, <4>2
    <3>2. CASE k = Len(p) + 1
      BY <1>1, <3>1, <3>2
    <3>3. CASE k # Len(p) + 1
      BY <1>1, <2>2, <3>1, <3>3 DEF Orderly
    <3> QED
      BY <3>2, <3>3
  <2> QED
    BY <2>1, <2>2 DEF Orderly
<1>3. HandedIn(r, j.task) = Units(j) /\ HasJob(r, j.task)
  BY <1>1, <1>2, HandedOne DEF HasJob
<1>4. ASSUME NEW t, t # j.task
      PROVE  HandedIn(r, t) = HandedIn(p, t) /\ (HasJob(r, t) <=> HasJob(p, t))
  <2>1. MovesIn(r, t) = MovesIn(p, t)
    BY <1>1, <1>4 DEF MovesIn
  <2>2. \A i \in MovesIn(p, t) : r[i] = p[i]
    BY <1>1 DEF MovesIn
  <2>3. HandedIn(r, t) = HandedIn(p, t)
    BY <2>1, <2>2 DEF HandedIn
  <2>4. HasJob(r, t) <=> HasJob(p, t)
    BY <1>1, <1>4 DEF HasJob
  <2> QED
    BY <2>3, <2>4
<1>5. \A i \in DOMAIN r : r[i] = j \/ \E k \in DOMAIN p : r[i] = p[k]
  BY <1>1
<1> QED
  BY <1>1, <1>2, <1>3, <1>4, <1>5 DEF r

\* r is p without its k-th job.
Without(p, k, r) ==
    /\ r \in Seq(Jobs) /\ Len(r) = Len(p) - 1
    /\ \A i \in 1 .. Len(p) - 1 : r[i] = IF i < k THEN p[i] ELSE p[i + 1]

LEMMA JobGone ==
  ASSUME NEW p \in Seq(Jobs), Orderly(p), NEW k \in DOMAIN p, NEW r, Without(p, k, r)
  PROVE  /\ Orderly(r) /\ HandedIn(r, p[k].task) = 0 /\ ~HasJob(r, p[k].task)
         /\ \A t : t # p[k].task => HandedIn(r, t) = HandedIn(p, t) /\ (HasJob(r, t) <=> HasJob(p, t))
         /\ \A i \in DOMAIN r : \E m \in DOMAIN p : m # k /\ r[i] = p[m]
<1>1. /\ DOMAIN r = 1 .. Len(p) - 1 /\ DOMAIN p = 1 .. Len(p) /\ Len(p) \in Nat /\ k \in 1 .. Len(p)
      /\ \A i \in 1 .. Len(p) - 1 : r[i] = IF i < k THEN p[i] ELSE p[i + 1]
  BY DEF Without
<1> DEFINE From(i) == IF i < k THEN i ELSE i + 1
<1>2. \A i \in DOMAIN r : From(i) \in DOMAIN p /\ From(i) # k /\ r[i] = p[From(i)]
  BY <1>1
<1>3. \A i, j \in DOMAIN r : (From(i) < From(j) => i < j) /\ (From(i) = From(j) => i = j)
  BY <1>1
<1>4. \A m \in DOMAIN p : m # k => \E i \in DOMAIN r : From(i) = m
  <2> SUFFICES ASSUME NEW m \in DOMAIN p, m # k PROVE \E i \in DOMAIN r : From(i) = m
    OBVIOUS
  <2>1. CASE m < k
    <3>1. m \in DOMAIN r /\ From(m) = m
      BY <1>1, <2>1
    <3> QED
      BY <3>1
  <2>2. CASE m > k
    <3>1. m - 1 \in DOMAIN r /\ From(m - 1) = m
      BY <1>1, <2>2
    <3> QED
      BY <3>1
  <2> QED
    BY <1>1, <2>1, <2>2
<1> HIDE DEF From
<1>5. Orderly(r)
  BY <1>2, <1>3 DEF Orderly
<1>6. \A i \in DOMAIN r : \E m \in DOMAIN p : m # k /\ r[i] = p[m]
  BY <1>2
<1>7. ~HasJob(r, p[k].task)
  BY <1>6 DEF HasJob, Orderly
<1>8. ASSUME NEW t, t # p[k].task
      PROVE  HandedIn(r, t) = HandedIn(p, t) /\ (HasJob(r, t) <=> HasJob(p, t))
  <2>1. ASSUME NEW m \in DOMAIN p, p[m].task = t
        PROVE  HandedIn(r, t) = HandedIn(p, t) /\ HasJob(r, t)
    <3>1. PICK i \in DOMAIN r : From(i) = m
      BY <1>4, <1>8, <2>1
    <3>2. r[i] = p[m]
      BY <1>2, <3>1
    <3>3. HandedIn(r, t) = Units(p[m]) /\ HandedIn(p, t) = Units(p[m])
      BY <1>5, <2>1, <3>2, HandedOne
    <3> QED
      BY <2>1, <3>2, <3>3 DEF HasJob
  <2>2. CASE ~HasJob(p, t)
    <3>1. ~HasJob(r, t)
      BY <1>6, <2>2 DEF HasJob
    <3> QED
      BY <2>2, <3>1, HandedNone
  <2> QED
    BY <2>1, <2>2 DEF HasJob
<1> QED
  BY <1>5, <1>6, <1>7, <1>8, HandedNone

LEMMA TailIsWithout ==
  ASSUME NEW p \in Seq(Jobs), p # <<>>
  PROVE  Without(p, 1, Tail(p)) /\ 1 \in DOMAIN p /\ Head(p) = p[1]
  BY DEF Without

LEMMA RemoveIsWithout ==
  ASSUME NEW p \in Seq(Jobs), NEW k \in DOMAIN p
  PROVE  Without(p, k, RemoveAt(p, k))
<1> DEFINE a == SubSeq(p, 1, k - 1)
           b == SubSeq(p, k + 1, Len(p))
<1>1. Len(p) \in Nat /\ k \in 1 .. Len(p)
  OBVIOUS
<1>2. a \in Seq(Jobs) /\ Len(a) = k - 1 /\ \A i \in 1 .. k - 1 : a[i] = p[i]
  BY <1>1, SubSeqProperties
<1>3. b \in Seq(Jobs) /\ Len(b) = Len(p) - k /\ \A i \in 1 .. Len(p) - k : b[i] = p[k + i]
  BY <1>1, SubSeqProperties
<1> HIDE DEF a, b
<1>4. /\ a \o b \in Seq(Jobs) /\ Len(a \o b) = Len(a) + Len(b)
      /\ \A i \in 1 .. Len(a) + Len(b) : (a \o b)[i] = IF i <= Len(a) THEN a[i] ELSE b[i - Len(a)]
  BY <1>2, <1>3, ConcatProperties
<1>5. Len(a \o b) = Len(p) - 1
  BY <1>1, <1>2, <1>3, <1>4
<1>6. ASSUME NEW i \in 1 .. Len(p) - 1 PROVE (a \o b)[i] = IF i < k THEN p[i] ELSE p[i + 1]
  <2>1. i \in 1 .. Len(a) + Len(b)
    BY <1>1, <1>2, <1>3
  <2>2. CASE i < k
    BY <1>1, <1>2, <1>4, <2>1, <2>2
  <2>3. CASE i >= k
    <3>1. i - Len(a) \in 1 .. Len(p) - k /\ k + (i - Len(a)) = i + 1 /\ ~(i <= Len(a)) /\ ~(i < k)
      BY <1>1, <1>2, <2>3
    <3>2. (a \o b)[i] = b[i - Len(a)]
      BY <1>4, <2>1, <3>1
    <3>3. b[i - Len(a)] = p[k + (i - Len(a))]
      BY <1>3, <3>1
    <3> QED
      BY <3>1, <3>2, <3>3
  <2>4. i < k \/ i >= k
    BY <1>1
  <2> QED
    BY <2>2, <2>3, <2>4
<1> QED
  BY <1>4, <1>5, <1>6 DEF Without, RemoveAt, a, b

-----------------------------------------------------------------------------
(* Input sessions: who waits for what.                                     *)

SessTypes ==
    /\ task \in [Tasks -> Hands] /\ pend \in [Operators -> [abs : BOOLEAN, rel : Nat]]
    /\ pool \in Seq(Jobs) /\ running \in Jobs \cup {NoWork} /\ DOMAIN holder = Keys
    /\ received \in [Operators -> Nat] /\ applied \in [Operators -> Nat]

\* A task with a job is where that job left it.
WaitsAt(j, h) ==
    /\ j.op = "abs" => h.at = "abs"
    /\ j.op = "rel" => h.at = "rel" /\ j.arg \in Nat
    /\ j.op \in {"down", "up"} => h.at = "op"
    /\ j.op = "release" => h.at \in {"op", "leaving"}

\* What a task has in its hands where it is; a flusher only flushes.
HandFits(h) ==
    /\ h.at = "off" => h = Off
    /\ h.at = "idle" => h = Ready
    /\ h.at # "abs" => h.rel = 0
FlushesOnly(o) ==
    LET h == task[Flusher(o)] IN
    /\ h.op = "none" /\ h.at \notin {"op", "leaving"}
    /\ o \in Relative => h.at # "abs" /\ task[Loop(o)].at # "abs"
    /\ task[Loop(o)].at \in {"off", "leaving"} => h = Off

Carried ==
    /\ \A t \in Tasks : HandFits(task[t])
    /\ \A o \in Operators : FlushesOnly(o)

\* A receive loop that is busy has emptied the pending motion; a page with a locked pointer
\* never has an absolute one.
PendFits ==
    \A o \in Operators :
        /\ task[Loop(o)].at = "off" => pend[o] = Motionless /\ received[o] = 0 /\ applied[o] = 0
        /\ task[Loop(o)].at \in {"abs", "rel", "op"} => pend[o] = Motionless
        /\ o \in Relative => ~pend[o].abs

Waiting == \A i \in DOMAIN pool : WaitsAt(pool[i], task[pool[i].task])

\* The worker is at the only job of a receive loop; it is at no click before a flush.
AtWork ==
    \A o \in Operators :
        /\ running.task = Loop(o) => ~HasJob(pool, Loop(o)) /\ WaitsAt(running, task[Loop(o)])
        /\ Click(o, running) => \A i \in DOMAIN pool : ~Moving(o, pool[i])

\* A key is held for somebody who is there, and whose last release is yet to come.
LetGo ==
    \A k \in Keys : holder[k] # NoTask =>
        \E o \in Operators :
            /\ Who(holder[k]) = o /\ task[Loop(o)].at # "off"
            /\ task[Loop(o)].at = "leaving" => HasJob(pool, Loop(o))

Balance(o) == applied[o] + pend[o].rel + InHands(o) + InPool(o)
Balanced == \A o \in Operators : task[Loop(o)].at \notin {"off", "leaving"} => received[o] = Balance(o)

SessInv == SessTypes /\ Orderly(pool) /\ Carried /\ PendFits /\ Waiting /\ AtWork /\ LetGo /\ Balanced

LEMMA TasksAre ==
  /\ \A o \in Operators : Loop(o) \in Tasks /\ Flusher(o) \in Tasks /\ Loop(o) # Flusher(o)
                          /\ Who(Loop(o)) = o /\ Who(Flusher(o)) = o
  /\ \A o, q \in Operators : (Loop(o) = Loop(q) => o = q) /\ (Flusher(o) = Flusher(q) => o = q)
                             /\ Loop(o) # Flusher(q)
  /\ \A t \in Tasks : Who(t) \in Operators /\ (t = Loop(Who(t)) \/ t = Flusher(Who(t)))
  BY DEF Tasks, Roles, Loop, Flusher, Who

\* What is handed over: a job of the task's own, and the motion is in it or in its hands.
Handover(t, abs, rel, op) ==
    /\ task' \in [Tasks -> Hands] /\ \A u \in Tasks \ {t} : task'[u] = task[u]
    /\ pool' \in Seq(Jobs) /\ Orderly(pool')
    /\ task'[t].rel + HandedIn(pool', t) = rel /\ HandedIn(pool', t) \in Nat
    /\ \A u \in Tasks \ {t} : HandedIn(pool', u) = HandedIn(pool, u) /\ (HasJob(pool', u) <=> HasJob(pool, u))
    /\ \A i \in DOMAIN pool' :
           \/ \E k \in DOMAIN pool : pool'[i] = pool[k] /\ pool[k].task # t
           \/ /\ pool'[i].task = t /\ WaitsAt(pool'[i], task'[t])
              /\ pool'[i].op = "abs" => abs
              /\ \/ abs
                 \/ rel > 0
                 \/ op # "none"
    /\ HandFits(task'[t]) /\ task'[t].op \in {op, "none"} /\ task'[t].at \in {"idle", "abs", "rel", "op"}
    /\ (task'[t].at = "abs" => abs) /\ (task'[t].at = "op" => op # "none")

LEMMA HandsAre ==
  /\ Ready \in Hands /\ Off \in Hands /\ [Off EXCEPT !.at = "leaving"] \in Hands
  /\ Ready.at = "idle" /\ Ready.rel = 0 /\ Ready.op = "none"
  /\ Off.at = "off" /\ Off.rel = 0 /\ Off.op = "none"
  /\ [Off EXCEPT !.at = "leaving"].at = "leaving" /\ [Off EXCEPT !.at = "leaving"].rel = 0
  BY DEF Hands, Ready, Off, Places, Ops

LEMMA HandedOver ==
  ASSUME SessTypes, Orderly(pool), Carried, NEW t \in Tasks, ~HasJob(pool, t),
         NEW abs \in BOOLEAN, NEW rel \in Nat, NEW op \in Ops, NEW key \in Keys \cup {"none"},
         Submits(t, abs, rel, op, key),
         \A o \in Operators : t = Flusher(o) =>
             op = "none" /\ (abs \/ (o \in Relative /\ rel > 0) => ~HasJob(pool, Loop(o)))
  PROVE  Handover(t, abs, rel, op)
<1>0. task \in [Tasks -> Hands] /\ pool \in Seq(Jobs)
  BY DEF SessTypes
<1>1. ASSUME NEW j \in Jobs, NEW h \in Hands, j.task = t, pool' = Append(pool, j),
             task' = [task EXCEPT ![t] = h], WaitsAt(j, h), h.rel + Units(j) = rel,
             j.op = "abs" => abs, abs \/ rel > 0 \/ op # "none", HandFits(h), h.op = op,
             h.at \in {"abs", "rel", "op"}, h.at = "abs" => abs, h.at = "op" => op # "none"
      PROVE  Handover(t, abs, rel, op)
  <2>1. \A o \in Operators, i \in DOMAIN pool : ~(Moving(o, j) /\ Click(o, pool[i]))
    <3> SUFFICES ASSUME NEW o \in Operators, NEW i \in DOMAIN pool, Moving(o, j), Click(o, pool[i])
                 PROVE  FALSE
      OBVIOUS
    <3>1. t = Flusher(o) /\ op = "none" /\ HasJob(pool, Loop(o))
      BY <1>1 DEF Moving, Click, HasJob
    <3>2. ~abs /\ rel > 0 /\ o \notin Relative
      BY <1>1, <3>1
    <3> QED
      BY <1>1, <3>2 DEF Moving
  <2>2. /\ pool' \in Seq(Jobs) /\ Orderly(pool') /\ HandedIn(pool', t) = Units(j)
        /\ \A u \in Tasks \ {t} : HandedIn(pool', u) = HandedIn(pool, u) /\ (HasJob(pool', u) <=> HasJob(pool, u))
        /\ \A i \in DOMAIN pool' : pool'[i] = j \/ \E k \in DOMAIN pool : pool'[i] = pool[k]
    BY <1>0, <1>1, <2>1, JobAdded
  <2>3. task' \in [Tasks -> Hands] /\ task'[t] = h /\ \A u \in Tasks \ {t} : task'[u] = task[u]
    BY <1>0, <1>1
  <2>4. ASSUME NEW i \in DOMAIN pool'
        PROVE  \/ \E k \in DOMAIN pool : pool'[i] = pool[k] /\ pool[k].task # t
               \/ pool'[i] = j
    BY <2>2 DEF HasJob
  <2>5. Units(j) \in Nat
    BY <1>1 DEF Units, WaitsAt
  <2> QED
    BY <1>1, <2>2, <2>3, <2>4, <2>5 DEF Handover
<1>2. CASE abs
  <2> DEFINE j == Job(t, "abs", 0)
             h == [at |-> "abs", rel |-> rel, op |-> op, key |-> key]
  <2>1. j \in Jobs /\ h \in Hands /\ j.task = t /\ j.op = "abs" /\ Units(j) = 0
    BY DEF Job, Jobs, Hands, Kinds, Places, Units
  <2>2. pool' = Append(pool, j) /\ task' = [task EXCEPT ![t] = h]
    BY <1>2 DEF Submits
  <2>3. WaitsAt(j, h) /\ HandFits(h) /\ h.rel = rel /\ h.op = op /\ h.at = "abs"
    BY <2>1 DEF WaitsAt, HandFits
  <2> HIDE DEF j, h
  <2>4. h.rel + Units(j) = rel
    BY <2>1, <2>3
  <2>5. abs \/ rel > 0 \/ op # "none"
    BY <1>2
  <2> QED
    BY <1>1, <1>2, <2>1, <2>2, <2>3, <2>4, <2>5
<1>3. CASE ~abs /\ rel > 0
  <2> DEFINE j == Job(t, "rel", rel)
             h == [at |-> "rel", rel |-> 0, op |-> op, key |-> key]
  <2>1. j \in Jobs /\ h \in Hands /\ j.task = t /\ j.op = "rel" /\ Units(j) = rel /\ j.arg = rel
    BY DEF Job, Jobs, Hands, Kinds, Places, Units
  <2>2. pool' = Append(pool, j) /\ task' = [task EXCEPT ![t] = h]
    BY <1>3 DEF Submits
  <2>3. WaitsAt(j, h) /\ HandFits(h) /\ h.rel = 0 /\ h.op = op /\ h.at = "rel"
    BY <2>1 DEF WaitsAt, HandFits
  <2> HIDE DEF j, h
  <2>4. h.rel + Units(j) = rel
    BY <2>1, <2>3
  <2>5. abs \/ rel > 0 \/ op # "none"
    BY <1>3
  <2> QED
    BY <1>1, <1>3, <2>1, <2>2, <2>3, <2>4, <2>5
<1>4. CASE ~abs /\ ~(rel > 0) /\ op # "none"
  <2> DEFINE j == Job(t, op, key)
             h == [at |-> "op", rel |-> 0, op |-> op, key |-> key]
  <2>1. j \in Jobs /\ h \in Hands /\ j.task = t /\ j.op \in {"down", "up", "release"} /\ Units(j) = 0
    BY <1>4 DEF Job, Jobs, Hands, Kinds, Places, Units, Ops
  <2>2. pool' = Append(pool, j) /\ task' = [task EXCEPT ![t] = h]
    BY <1>4 DEF Submits
  <2>3. WaitsAt(j, h) /\ HandFits(h) /\ h.rel = 0 /\ h.op = op /\ h.at = "op" /\ rel = 0
    BY <1>4, <2>1 DEF WaitsAt, HandFits
  <2> HIDE DEF j, h
  <2>4. h.rel + Units(j) = rel
    BY <2>1, <2>3
  <2>5. abs \/ rel > 0 \/ op # "none"
    BY <1>4
  <2> QED
    BY <1>1, <1>4, <2>1, <2>2, <2>3, <2>4, <2>5
<1>5. CASE ~abs /\ ~(rel > 0) /\ op = "none"
  <2>1. task' = [task EXCEPT ![t] = Ready] /\ pool' = pool /\ rel = 0
    BY <1>5 DEF Submits
  <2>2. task' \in [Tasks -> Hands] /\ task'[t] = Ready /\ \A u \in Tasks \ {t} : task'[u] = task[u]
    BY <1>0, <2>1, HandsAre
  <2>3. HandedIn(pool', t) = 0 /\ \A i \in DOMAIN pool : pool[i].task # t
    BY <2>1, HandedNone DEF HasJob
  <2> QED
    BY <1>0, <2>1, <2>2, <2>3, HandsAre DEF Handover, HandFits
<1> QED
  BY <1>2, <1>3, <1>4, <1>5

LEMMA JobsAre == ASSUME NEW p \in Seq(Jobs), NEW i \in DOMAIN p PROVE p[i] \in Jobs /\ p[i].task \in Tasks
<1>1. p[i] \in Jobs
  OBVIOUS
<1> QED
  BY <1>1 DEF Jobs

\* A step that hands over keeps who waits for what.
LEMMA HandoverKeeps ==
  ASSUME SessInv, NEW t \in Tasks, NEW abs, NEW rel, NEW op, Handover(t, abs, rel, op),
         ~HasJob(pool, t), running' = running, holder' = holder, task[t].at \notin {"off", "leaving"},
         \A o \in Operators : t = Loop(o) => running.task # t,
         \A o \in Operators : t = Flusher(o) =>
             op = "none" /\ (abs \/ (o \in Relative /\ rel > 0) => task[Loop(o)].at = "idle"),
         Who(t) \in Relative => ~abs
  PROVE  Orderly(pool)' /\ Carried' /\ Waiting' /\ AtWork' /\ LetGo'
<1>1. /\ \A u \in Tasks \ {t} : task'[u] = task[u]
      /\ \A u \in Tasks \ {t} : HasJob(pool', u) <=> HasJob(pool, u)
      /\ Orderly(pool') /\ task'[t].at \in {"idle", "abs", "rel", "op"} /\ HandFits(task'[t])
      /\ (task'[t].at = "abs" => abs) /\ (task'[t].at = "op" => op # "none")
      /\ task'[t].op \in {op, "none"}
  BY DEF Handover
<1>2. \A i \in DOMAIN pool : pool[i].task \in Tasks
  BY JobsAre DEF SessInv, SessTypes
<1>3. \A i \in DOMAIN pool' :
           \/ \E k \in DOMAIN pool : pool'[i] = pool[k] /\ pool[k].task # t
           \/ /\ pool'[i].task = t /\ WaitsAt(pool'[i], task'[t])
              /\ pool'[i].op = "abs" => abs
              /\ \/ abs
                 \/ rel > 0
                 \/ op # "none"
  BY DEF Handover
<1>4. Carried'
  <2>1. ASSUME NEW u \in Tasks PROVE HandFits(task'[u])
    BY <1>1 DEF SessInv, Carried
  <2>2. ASSUME NEW o \in Operators PROVE FlushesOnly(o)'
    <3>0. FlushesOnly(o) /\ Loop(o) \in Tasks /\ Flusher(o) \in Tasks /\ Loop(o) # Flusher(o)
      BY TasksAre DEF SessInv, Carried
    <3>1. CASE t = Flusher(o)
      <4>1. task'[Loop(o)] = task[Loop(o)] /\ op = "none" /\ (o \in Relative => ~abs)
        BY <1>1, <3>0, <3>1, TasksAre
      <4>2. task[Loop(o)].at \notin {"off", "leaving"}
        BY <3>0, <3>1, HandsAre DEF FlushesOnly
      <4>3. task'[Flusher(o)].op = "none" /\ task'[Flusher(o)].at \in {"idle", "abs", "rel"}
        BY <1>1, <3>1, <4>1
      <4>4. o \in Relative => task'[Flusher(o)].at # "abs"
        BY <1>1, <3>1, <4>1
      <4> QED
        BY <3>0, <4>1, <4>2, <4>3, <4>4 DEF FlushesOnly
    <3>2. CASE t = Loop(o)
      <4>1. task'[Flusher(o)] = task[Flusher(o)] /\ (o \in Relative => ~abs)
        BY <1>1, <3>0, <3>2, TasksAre
      <4>2. task'[Loop(o)].at \notin {"off", "leaving"} /\ (o \in Relative => task'[Loop(o)].at # "abs")
        BY <1>1, <3>2, <4>1
      <4> QED
        BY <3>0, <4>1, <4>2 DEF FlushesOnly
    <3>3. CASE t # Flusher(o) /\ t # Loop(o)
      BY <1>1, <3>0, <3>3 DEF FlushesOnly
    <3> QED
      BY <3>1, <3>2, <3>3
  <2> QED
    BY <2>1, <2>2 DEF Carried
<1>5. Waiting'
  BY <1>1, <1>2, <1>3 DEF SessInv, Waiting
<1>6. AtWork'
  <2> SUFFICES ASSUME NEW o \in Operators
               PROVE  /\ running.task = Loop(o) =>
                            ~HasJob(pool', Loop(o)) /\ WaitsAt(running, task'[Loop(o)])
                      /\ Click(o, running) => \A i \in DOMAIN pool' : ~Moving(o, pool'[i])
    BY DEF AtWork
  <2>1. running.task = Loop(o) => ~HasJob(pool', Loop(o)) /\ WaitsAt(running, task'[Loop(o)])
    BY <1>1, TasksAre DEF SessInv, AtWork
  <2>2. ASSUME Click(o, running), NEW i \in DOMAIN pool', Moving(o, pool'[i]) PROVE FALSE
    <3>1. task[Loop(o)].at = "op"
      BY <2>2 DEF SessInv, AtWork, Click, WaitsAt
    <3>2. ~\E k \in DOMAIN pool : pool'[i] = pool[k]
      BY <2>2 DEF SessInv, AtWork
    <3>3. pool'[i].task = t /\ t = Flusher(o)
      BY <1>3, <2>2, <3>2 DEF Moving
    <3>4. op = "none" /\ ~(abs \/ (o \in Relative /\ rel > 0))
      BY <3>1, <3>3
    <3> QED
      BY <1>3, <2>2, <3>2, <3>4 DEF Moving
  <2> QED
    BY <2>1, <2>2
<1>7. LetGo'
  <2> SUFFICES ASSUME NEW k \in Keys, holder[k] # NoTask
               PROVE  \E o \in Operators :
                          /\ Who(holder[k]) = o /\ task'[Loop(o)].at # "off"
                          /\ task'[Loop(o)].at = "leaving" => HasJob(pool', Loop(o))
    BY DEF LetGo
  <2>1. PICK o \in Operators :
            /\ Who(holder[k]) = o /\ task[Loop(o)].at # "off"
            /\ task[Loop(o)].at = "leaving" => HasJob(pool, Loop(o))
    BY DEF SessInv, LetGo
  <2>2. CASE Loop(o) = t
    BY <1>1, <2>1, <2>2
  <2>3. CASE Loop(o) # t
    BY <1>1, <2>1, <2>3, TasksAre
  <2> QED
    BY <2>2, <2>3
<1> QED
  BY <1>1, <1>4, <1>5, <1>6, <1>7

\* The relative motion of a connection before and after.
LEMMA HandedNat == ASSUME SessInv, NEW t PROVE HandedIn(pool, t) \in Nat
<1>1. CASE HasJob(pool, t)
  <2>1. PICK i \in DOMAIN pool : pool[i].task = t
    BY <1>1 DEF HasJob
  <2>2. HandedIn(pool, t) = Units(pool[i])
    BY <2>1, HandedOne DEF SessInv
  <2> QED
    BY <2>2 DEF SessInv, Waiting, WaitsAt, Units
<1>2. CASE ~HasJob(pool, t)
  BY <1>2, HandedNone
<1> QED
  BY <1>1, <1>2

LEMMA HandoverMoves ==
  ASSUME SessInv, NEW t \in Tasks, NEW abs, NEW rel \in Nat, NEW op, Handover(t, abs, rel, op),
         ~HasJob(pool, t), NEW o \in Operators
  PROVE  /\ InHands(o) \in Nat /\ InPool(o) \in Nat /\ InHands(o)' \in Nat /\ InPool(o)' \in Nat
         /\ (InHands(o) + InPool(o))' =
                IF Who(t) = o THEN InHands(o) + InPool(o) - task[t].rel + rel ELSE InHands(o) + InPool(o)
<1> DEFINE l == Loop(o)
           f == Flusher(o)
<1>1. /\ l \in Tasks /\ f \in Tasks /\ l # f
      /\ (Who(t) = o <=> t \in {l, f})
  BY TasksAre
<1>2. \A u \in Tasks : task[u].rel \in Nat /\ HandedIn(pool, u) \in Nat /\ task'[u].rel \in Nat
  BY HandedNat DEF SessInv, SessTypes, Hands, Handover
<1>3. /\ InHands(o) = task[l].rel + task[f].rel /\ InPool(o) = HandedIn(pool, l) + HandedIn(pool, f)
      /\ InHands(o)' = task'[l].rel + task'[f].rel /\ InPool(o)' = HandedIn(pool', l) + HandedIn(pool', f)
  BY DEF InHands, InPool, Handed, HandedIn, JobsOf, MovesIn
<1>4. HandedIn(pool, t) = 0
  BY HandedNone
<1>5. /\ \A u \in Tasks \ {t} : task'[u] = task[u] /\ HandedIn(pool', u) = HandedIn(pool, u)
      /\ task'[t].rel + HandedIn(pool', t) = rel /\ HandedIn(pool', t) \in Nat
  BY DEF Handover
<1> HIDE DEF l, f
<1>6. CASE t = l
  BY <1>1, <1>2, <1>3, <1>4, <1>5, <1>6
<1>7. CASE t = f
  BY <1>1, <1>2, <1>3, <1>4, <1>5, <1>7
<1>8. CASE t \notin {l, f}
  <2>1. task'[l] = task[l] /\ task'[f] = task[f]
        /\ HandedIn(pool', l) = HandedIn(pool, l) /\ HandedIn(pool', f) = HandedIn(pool, f)
    BY <1>1, <1>5, <1>8
  <2> QED
    BY <1>1, <1>2, <1>3, <1>8, <2>1
<1> QED
  BY <1>6, <1>7, <1>8

-----------------------------------------------------------------------------
(* Input sessions: the steps.                                              *)

LEMMA SessInit == SessionInit => SessInv
<1> SUFFICES ASSUME SessionInit PROVE SessInv
  OBVIOUS
<1>1. /\ \A t \in Tasks : task[t] = Off
      /\ \A o \in Operators : task[Loop(o)] = Off /\ task[Flusher(o)] = Off
                              /\ pend[o] = Motionless /\ received[o] = 0 /\ applied[o] = 0
      /\ pool = <<>> /\ running = NoWork /\ \A k \in Keys : holder[k] = NoTask
  BY TasksAre DEF SessionInit, NothingDown
<1>2. SessTypes
  <2>1. task \in [Tasks -> Hands]
    BY HandsAre DEF SessionInit
  <2>2. pend \in [Operators -> [abs : BOOLEAN, rel : Nat]]
    BY DEF SessionInit, Motionless
  <2> QED
    BY <2>1, <2>2 DEF SessionInit, SessTypes, NothingDown
<1>3. DOMAIN pool = {}
  BY <1>1
<1>4. Orderly(pool) /\ Waiting
  BY <1>3 DEF Orderly, Waiting
<1>5. Carried
  BY <1>1, HandsAre DEF Carried, HandFits, FlushesOnly
<1>6. PendFits
  BY <1>1, HandsAre DEF PendFits, Motionless
<1>7. AtWork
  <2>1. \A o \in Operators : running.task # Loop(o) /\ ~Click(o, running)
    BY <1>1 DEF NoWork, Job, NoTask, Loop, Click
  <2> QED
    BY <2>1 DEF AtWork
<1> QED
  BY <1>1, <1>2, <1>4, <1>5, <1>6, <1>7, HandsAre DEF SessInv, LetGo, Balanced

LEMMA PendTypes ==
  ASSUME SessTypes, NEW o \in Operators
  PROVE  /\ pend[o] \in [abs : BOOLEAN, rel : Nat] /\ pend[o].abs \in BOOLEAN /\ pend[o].rel \in Nat
         /\ received[o] \in Nat /\ applied[o] \in Nat
         /\ Motionless \in [abs : BOOLEAN, rel : Nat] /\ ~Motionless.abs /\ Motionless.rel = 0
<1>1. pend[o] \in [abs : BOOLEAN, rel : Nat]
  BY DEF SessTypes
<1> QED
  BY <1>1 DEF SessTypes, Motionless

\* An idle task has no job; neither has a receive loop that is off.
LEMMA IdleHasNone ==
  ASSUME SessInv, NEW t \in Tasks, task[t].at \in {"idle", "off"}
  PROVE  ~HasJob(pool, t) /\ \A o \in Operators : t = Loop(o) => running.task # t
<1>1. \A i \in DOMAIN pool : pool[i].task = t => FALSE
  <2> SUFFICES ASSUME NEW i \in DOMAIN pool, pool[i].task = t PROVE FALSE
    OBVIOUS
  <2>1. pool[i] \in Jobs
    BY JobsAre DEF SessInv, SessTypes
  <2>2. pool[i].op \in Kinds
    BY <2>1 DEF Jobs
  <2> QED
    BY <2>2 DEF SessInv, Waiting, WaitsAt, Kinds
<1>2. ASSUME NEW o \in Operators, t = Loop(o), running.task = t PROVE FALSE
  <2>1. running \in Jobs
    BY <1>2, TasksAre DEF SessInv, SessTypes, NoWork, Job, NoTask, Loop
  <2>2. running.op \in Kinds
    BY <2>1 DEF Jobs
  <2> QED
    BY <1>2, <2>2 DEF SessInv, AtWork, WaitsAt, Kinds
<1> QED
  BY <1>1, <1>2 DEF HasJob

\* flush_mouse, from either task: the pending motion is taken and handed over.
LEMMA FlushStep ==
  ASSUME SessInv, NEW t \in Tasks, NEW op \in Ops, NEW key \in Keys \cup {"none"},
         task[t] = Ready, Flush(t, op, key), running' = running, holder' = holder,
         received' = received, applied' = applied,
         t = Flusher(Who(t)) => op = "none" /\ pend[Who(t)] # Motionless
  PROVE  SessInv'
<1> DEFINE o == Who(t)
           abs == pend[o].abs
           rel == pend[o].rel
<1>1. /\ o \in Operators /\ abs \in BOOLEAN /\ rel \in Nat /\ Submits(t, abs, rel, op, key)
      /\ pend' = [pend EXCEPT ![o] = Motionless]
  BY TasksAre, PendTypes DEF SessInv, Flush
<1>2. task[t].at = "idle" /\ task[t].rel = 0 /\ ~HasJob(pool, t)
      /\ \A q \in Operators : t = Loop(q) => running.task # t
  BY HandsAre, IdleHasNone
<1>3. \A q \in Operators : t = Flusher(q) => q = o /\ op = "none" /\ task[Loop(q)].at = "idle"
  <2> SUFFICES ASSUME t = Flusher(o) PROVE op = "none" /\ task[Loop(o)].at = "idle"
    BY TasksAre
  <2>1. pend[o] # Motionless /\ op = "none"
    OBVIOUS
  <2>2. task[Loop(o)].at \notin {"abs", "rel", "op", "off"}
    BY <1>1, <2>1 DEF SessInv, PendFits
  <2>3. task[Loop(o)].at # "leaving"
    BY <1>1, <1>2, HandsAre DEF SessInv, Carried, FlushesOnly
  <2>4. task[Loop(o)].at \in Places
    BY <1>1, TasksAre DEF SessInv, SessTypes, Hands
  <2> QED
    BY <2>1, <2>2, <2>3, <2>4 DEF Places
<1>4. \A q \in Operators : t = Flusher(q) => ~HasJob(pool, Loop(q))
  BY <1>3, TasksAre, IdleHasNone
<1>5. SessTypes /\ Orderly(pool) /\ Carried
  BY DEF SessInv
<1> HIDE DEF abs, rel
<1>6. Handover(t, abs, rel, op)
  BY <1>1, <1>2, <1>3, <1>4, <1>5, HandedOver
<1>7. o \in Relative => ~abs
  BY <1>1 DEF SessInv, PendFits, abs
<1>8. Orderly(pool)' /\ Carried' /\ Waiting' /\ AtWork' /\ LetGo'
  BY <1>2, <1>3, <1>6, <1>7, HandoverKeeps
<1>9. SessTypes'
  BY <1>1, <1>5, <1>6, PendTypes DEF SessTypes, Handover
<1>10. \A q \in Operators : pend'[q] = IF q = o THEN Motionless ELSE pend[q]
  BY <1>1, <1>5 DEF SessTypes
<1>11. PendFits'
  <2> SUFFICES ASSUME NEW q \in Operators
               PROVE  /\ task'[Loop(q)].at = "off" => pend'[q] = Motionless /\ received[q] = 0 /\ applied[q] = 0
                      /\ task'[Loop(q)].at \in {"abs", "rel", "op"} => pend'[q] = Motionless
                      /\ q \in Relative => ~pend'[q].abs
    BY DEF PendFits
  <2>1. CASE q = o
    <3>1. task'[Loop(q)].at # "off"
      <4>1. task'[t].at # "off" /\ \A u \in Tasks \ {t} : task'[u] = task[u]
        BY <1>6 DEF Handover
      <4>2. task[Loop(o)].at # "off"
        BY <1>1, <1>2, <1>3, TasksAre
      <4> QED
        BY <1>1, <2>1, <4>1, <4>2, TasksAre
    <3> QED
      BY <1>1, <1>5, <1>10, <2>1, <3>1, PendTypes
  <2>2. CASE q # o
    <3>1. task'[Loop(q)] = task[Loop(q)]
      BY <1>6, <2>2, TasksAre DEF Handover
    <3> QED
      BY <1>10, <2>2, <3>1 DEF SessInv, PendFits
  <2> QED
    BY <2>1, <2>2
<1>12. Balanced'
  <2> SUFFICES ASSUME NEW q \in Operators, task'[Loop(q)].at \notin {"off", "leaving"}
               PROVE  received'[q] = Balance(q)'
    BY DEF Balanced
  <2>1. /\ InHands(q) \in Nat /\ InPool(q) \in Nat /\ InHands(q)' \in Nat /\ InPool(q)' \in Nat
        /\ (InHands(q) + InPool(q))' = IF o = q THEN InHands(q) + InPool(q) - task[t].rel + rel
                                                ELSE InHands(q) + InPool(q)
    BY <1>1, <1>2, <1>6, HandoverMoves
  <2>2. task[Loop(q)].at \notin {"off", "leaving"}
    <3>1. CASE q = o
      BY <1>1, <1>2, <1>3, <3>1, TasksAre
    <3>2. CASE q # o
      BY <1>6, <3>2, TasksAre DEF Handover
    <3> QED
      BY <3>1, <3>2
  <2>3. received[q] = applied[q] + pend[q].rel + InHands(q) + InPool(q)
    BY <2>2 DEF SessInv, Balanced, Balance
  <2>4. /\ pend[q].rel \in Nat /\ applied[q] \in Nat /\ Motionless.rel = 0
        /\ pend'[q].rel = IF q = o THEN 0 ELSE pend[q].rel
    BY <1>5, <1>10, PendTypes
  <2>5. Balance(q)' = applied[q] + pend'[q].rel + InHands(q)' + InPool(q)'
    BY DEF Balance
  <2>6. CASE q = o
    <3>1. pend[q].rel = rel
      BY <2>6 DEF rel
    <3> QED
      BY <1>1, <1>2, <2>1, <2>3, <2>4, <2>5, <2>6, <3>1
  <2>7. CASE q # o
    BY <2>1, <2>3, <2>4, <2>5, <2>7
  <2> QED
    BY <2>6, <2>7
<1> QED
  BY <1>8, <1>9, <1>11, <1>12 DEF SessInv

\* "reset": the pending motion is dropped and a release handed over.
LEMMA ResetStep ==
  ASSUME SessInv, NEW o \in Operators, ReceiveReset(o)
  PROVE  SessInv'
<1> DEFINE t == Loop(o)
<1>1. /\ t \in Tasks /\ Who(t) = o /\ Submits(t, FALSE, 0, "release", "none")
      /\ pend' = [pend EXCEPT ![o] = Motionless]
      /\ received' = [received EXCEPT ![o] = @ - pend[o].rel]
      /\ running' = running /\ holder' = holder /\ applied' = applied
      /\ \A q \in Operators : t # Flusher(q)
  BY TasksAre DEF ReceiveReset
<1>2. task[t].at = "idle" /\ task[t].rel = 0 /\ ~HasJob(pool, t)
      /\ \A q \in Operators : t = Loop(q) => running.task # t
  BY <1>1, HandsAre, IdleHasNone DEF ReceiveReset, Receiving
<1>3. SessTypes /\ Orderly(pool) /\ Carried
  BY DEF SessInv
<1>4. Handover(t, FALSE, 0, "release")
  <2>1. "release" \in Ops /\ "none" \in Keys \cup {"none"} /\ FALSE \in BOOLEAN /\ 0 \in Nat
    BY DEF Ops
  <2> HIDE DEF t
  <2> QED
    BY <1>1, <1>2, <1>3, <2>1, HandedOver
<1>5. Orderly(pool)' /\ Carried' /\ Waiting' /\ AtWork' /\ LetGo'
  BY <1>1, <1>2, <1>4, HandoverKeeps
<1>6. /\ \A q \in Operators : pend'[q] = IF q = o THEN Motionless ELSE pend[q]
      /\ \A q \in Operators : received'[q] = IF q = o THEN received[o] - pend[o].rel ELSE received[q]
  BY <1>1, <1>3 DEF SessTypes
<1>7. ASSUME NEW q \in Operators
      PROVE  /\ InHands(q) \in Nat /\ InPool(q) \in Nat /\ InHands(q)' \in Nat /\ InPool(q)' \in Nat
             /\ InHands(q)' + InPool(q)' = InHands(q) + InPool(q)
  <2>0. 0 \in Nat
    OBVIOUS
  <2>1. /\ InHands(q) \in Nat /\ InPool(q) \in Nat /\ InHands(q)' \in Nat /\ InPool(q)' \in Nat
        /\ InHands(q)' + InPool(q)' = IF Who(t) = q THEN InHands(q) + InPool(q) - task[t].rel + 0
                                                    ELSE InHands(q) + InPool(q)
    <3> HIDE DEF t
    <3> QED
      BY <1>1, <1>2, <1>4, <2>0, HandoverMoves
  <2> QED
    BY <1>2, <2>1
<1>8. task'[t].at # "off" /\ \A q \in Operators : q # o => task'[Loop(q)] = task[Loop(q)]
  BY <1>1, <1>4, TasksAre DEF Handover
<1>9. \A q \in Operators : /\ pend[q].rel \in Nat /\ applied[q] \in Nat /\ received[q] \in Nat
                           /\ Motionless.rel = 0 /\ ~Motionless.abs
  BY <1>3, PendTypes
<1>10. received[o] = applied[o] + pend[o].rel + InHands(o) + InPool(o)
  BY <1>2 DEF SessInv, Balanced, Balance
<1>11. SessTypes'
  <2>1. received[o] - pend[o].rel \in Nat
    BY <1>7, <1>9, <1>10
  <2>2. received' \in [Operators -> Nat]
    BY <1>1, <1>3, <2>1 DEF SessTypes
  <2>3. pend' \in [Operators -> [abs : BOOLEAN, rel : Nat]]
    BY <1>1, <1>3, PendTypes DEF SessTypes
  <2> QED
    BY <1>1, <1>3, <1>4, <2>2, <2>3 DEF SessTypes, Handover
<1>12. PendFits'
  BY <1>1, <1>6, <1>8, <1>9 DEF SessInv, PendFits
<1>13. Balanced'
  <2> SUFFICES ASSUME NEW q \in Operators, task'[Loop(q)].at \notin {"off", "leaving"}
               PROVE  received'[q] = applied[q] + pend'[q].rel + InHands(q)' + InPool(q)'
    BY <1>1 DEF Balanced, Balance
  <2>1. CASE q = o
    <3>1. received'[q] = received[o] - pend[o].rel /\ pend'[q].rel = 0
      BY <1>6, <1>9, <2>1
    <3> QED
      BY <1>7, <1>9, <1>10, <2>1, <3>1
  <2>2. CASE q # o
    <3>1. received[q] = applied[q] + pend[q].rel + InHands(q) + InPool(q)
      BY <1>8, <2>2 DEF SessInv, Balanced, Balance
    <3>2. received'[q] = received[q] /\ pend'[q].rel = pend[q].rel
      BY <1>6, <2>2
    <3> QED
      BY <1>7, <1>9, <3>1, <3>2
  <2> QED
    BY <2>1, <2>2
<1> QED
  BY <1>5, <1>11, <1>12, <1>13 DEF SessInv

\* A task goes on with what it has in its hands.
LEMMA ResumesStep ==
  ASSUME SessInv, NEW t \in Tasks, Resumes(t)
  PROVE  SessInv'
<1> DEFINE o == Who(t)
           rel == task[t].rel
           op == IF task[t].at = "op" THEN "none" ELSE task[t].op
           key == IF task[t].at = "op" THEN "none" ELSE task[t].key
<1>0. task[t] \in Hands /\ SessTypes /\ Orderly(pool) /\ Carried
  BY DEF SessInv, SessTypes
<1>1. /\ o \in Operators /\ rel \in Nat /\ op \in Ops /\ key \in Keys \cup {"none"}
      /\ task[t].at \in {"abs", "rel", "op"} /\ task[t].at # "off"
      /\ UNCHANGED <<pend, running, holder, received, applied>>
  BY <1>0, TasksAre DEF Hands, Ops, Resumes, counts
<1>2. Submits(t, FALSE, rel, op, key)
  <2>1. task[t].at = "op" => rel = 0
    BY <1>0 DEF Carried, HandFits
  <2> QED
    BY <2>1 DEF Resumes
<1>3. ~HasJob(pool, t) /\ \A q \in Operators : t = Loop(q) => running.task # t
  BY PoolReads DEF Resumes, JobDone
<1>4. ASSUME NEW q \in Operators, t = Flusher(q)
      PROVE  q = o /\ op = "none" /\ (q \in Relative => rel = 0)
  <2>1. q = o /\ FlushesOnly(q) /\ HandFits(task[t])
    BY <1>0, <1>4, TasksAre DEF Carried
  <2> QED
    BY <1>4, <2>1 DEF FlushesOnly, HandFits
<1> HIDE DEF rel, op, key
<1>5. Handover(t, FALSE, rel, op)
  <2>1. \A q \in Operators : t = Flusher(q) =>
            op = "none" /\ (FALSE \/ (q \in Relative /\ rel > 0) => ~HasJob(pool, Loop(q)))
    BY <1>4
  <2> QED
    BY <1>0, <1>1, <1>2, <1>3, <2>1, HandedOver
<1>6. Orderly(pool)' /\ Carried' /\ Waiting' /\ AtWork' /\ LetGo'
  <2>1. \A q \in Operators : t = Flusher(q) =>
            op = "none" /\ (FALSE \/ (q \in Relative /\ rel > 0) => task[Loop(q)].at = "idle")
    BY <1>4
  <2> QED
    BY <1>1, <1>3, <1>5, <2>1, HandoverKeeps
<1>7. SessTypes'
  BY <1>0, <1>1, <1>5 DEF SessTypes, Handover
<1>8. ASSUME NEW q \in Operators
      PROVE  /\ task'[Loop(q)].at \in {"off", "leaving"} <=> task[Loop(q)].at \in {"off", "leaving"}
             /\ task'[Loop(q)].at = "off" <=> task[Loop(q)].at = "off"
             /\ task'[Loop(q)].at \in {"abs", "rel", "op"} => task[Loop(q)].at \in {"abs", "rel", "op"}
  <2>1. CASE t = Loop(q)
    BY <1>1, <1>5, <2>1 DEF Handover
  <2>2. CASE t # Loop(q)
    BY <1>5, <2>2, TasksAre DEF Handover
  <2> QED
    BY <2>1, <2>2
<1>9. PendFits'
  BY <1>1, <1>8 DEF SessInv, PendFits
<1>10. Balanced'
  <2> SUFFICES ASSUME NEW q \in Operators, task'[Loop(q)].at \notin {"off", "leaving"}
               PROVE  received'[q] = Balance(q)'
    BY DEF Balanced
  <2>1. /\ InHands(q) \in Nat /\ InPool(q) \in Nat /\ InHands(q)' \in Nat /\ InPool(q)' \in Nat
        /\ InHands(q)' + InPool(q)' = IF o = q THEN InHands(q) + InPool(q) - task[t].rel + rel
                                               ELSE InHands(q) + InPool(q)
    BY <1>1, <1>3, <1>5, HandoverMoves
  <2>2. InHands(q)' + InPool(q)' = InHands(q) + InPool(q)
    BY <1>1, <2>1 DEF rel
  <2>3. received[q] = applied[q] + pend[q].rel + InHands(q) + InPool(q)
    BY <1>8 DEF SessInv, Balanced, Balance
  <2>4. pend[q].rel \in Nat /\ applied[q] \in Nat
    BY <1>0, PendTypes
  <2> QED
    BY <1>1, <2>1, <2>2, <2>3, <2>4 DEF Balance
<1> QED
  BY <1>6, <1>7, <1>9, <1>10 DEF SessInv

\* Where the tasks are not moved and the pool is not touched.
LEMMA StillStep ==
  ASSUME SessInv, UNCHANGED <<task, pool>>
  PROVE  /\ Orderly(pool)' /\ Carried' /\ Waiting'
         /\ \A o \in Operators : InHands(o)' = InHands(o) /\ InPool(o)' = InPool(o)
                                 /\ InHands(o) \in Nat /\ InPool(o) \in Nat
<1>1. ASSUME NEW o \in Operators
      PROVE  InHands(o) \in Nat /\ InPool(o) \in Nat
  <2>1. task[Loop(o)].rel \in Nat /\ task[Flusher(o)].rel \in Nat
    BY TasksAre DEF SessInv, SessTypes, Hands
  <2>2. Handed(Loop(o)) \in Nat /\ Handed(Flusher(o)) \in Nat
    BY PoolReads, HandedNat
  <2> QED
    BY <2>1, <2>2 DEF InHands, InPool
<1>2. \A o \in Operators : InHands(o)' = InHands(o) /\ InPool(o)' = InPool(o)
  BY DEF InHands, InPool, Handed, JobsOf
<1>3. Orderly(pool)' /\ Carried' /\ Waiting'
  <2>1. Orderly(pool) /\ Carried /\ Waiting
    BY DEF SessInv
  <2>2. Orderly(pool)'
    BY <2>1
  <2>3. Carried'
    BY <2>1 DEF Carried, FlushesOnly
  <2>4. Waiting'
    BY <2>1 DEF Waiting
  <2> QED
    BY <2>2, <2>3, <2>4
<1> QED
  BY <1>1, <1>2, <1>3

LEMMA ReceiveMotionStep ==
  ASSUME SessInv, NEW o \in Operators, ReceiveAbs(o) \/ ReceiveRel(o)
  PROVE  SessInv'
<1>1. /\ UNCHANGED <<task, pool, running, holder, applied>> /\ task[Loop(o)].at = "idle"
      /\ \A q \in Operators : q # o => pend'[q] = pend[q] /\ received'[q] = received[q]
      /\ SessTypes
  BY HandsAre DEF ReceiveAbs, ReceiveRel, Receiving, counts, SessInv, SessTypes
<1>2. pend[o] \in [abs : BOOLEAN, rel : Nat] /\ pend[o].rel \in Nat /\ received[o] \in Nat
      /\ pend[o].abs \in BOOLEAN
  BY <1>1, PendTypes
<1>3. \/ pend'[o] = [abs |-> TRUE, rel |-> pend[o].rel] /\ o \notin Relative /\ received'[o] = received[o]
      \/ pend'[o] = [abs |-> pend[o].abs, rel |-> pend[o].rel + 1] /\ received'[o] = received[o] + 1
  <2>1. CASE ReceiveAbs(o)
    <3>1. pend'[o] = [pend[o] EXCEPT !.abs = TRUE] /\ received' = received /\ o \notin Relative
      BY <1>1, <2>1 DEF ReceiveAbs, SessTypes, counts
    <3> QED
      BY <1>2, <3>1
  <2>2. CASE ReceiveRel(o)
    <3>1. pend'[o] = [pend[o] EXCEPT !.rel = pend[o].rel + 1] /\ received'[o] = received[o] + 1
      BY <1>1, <2>2 DEF ReceiveRel, SessTypes
    <3> QED
      BY <1>2, <3>1
  <2> QED
    BY <2>1, <2>2
<1>4. SessTypes'
  <2>1. pend'[o] \in [abs : BOOLEAN, rel : Nat] /\ received'[o] \in Nat
    <3>1. CASE pend'[o] = [abs |-> TRUE, rel |-> pend[o].rel] /\ received'[o] = received[o]
      BY <1>2, <3>1
    <3>2. CASE pend'[o] = [abs |-> pend[o].abs, rel |-> pend[o].rel + 1] /\ received'[o] = received[o] + 1
      <4> DEFINE abs == pend[o].abs
                 rel == pend[o].rel + 1
      <4>1. abs \in BOOLEAN /\ rel \in Nat /\ pend'[o] = [abs |-> abs, rel |-> rel]
        BY <1>2, <3>2
      <4>2. received'[o] \in Nat
        BY <1>2, <3>2
      <4> HIDE DEF abs, rel
      <4>3. [abs |-> abs, rel |-> rel] \in [abs : BOOLEAN, rel : Nat]
        BY <4>1
      <4> QED
        BY <4>1, <4>2, <4>3
    <3> QED
      BY <1>3, <3>1, <3>2
  <2>2. pend' = [q \in Operators |-> pend'[q]] /\ received' = [q \in Operators |-> received'[q]]
    BY <1>1 DEF ReceiveAbs, ReceiveRel, SessTypes, counts
  <2>3. \A q \in Operators : pend'[q] \in [abs : BOOLEAN, rel : Nat] /\ received'[q] \in Nat
    BY <1>1, <2>1, PendTypes
  <2> QED
    BY <1>1, <2>2, <2>3 DEF SessTypes
<1>5. PendFits'
  BY <1>1, <1>3 DEF SessInv, PendFits
<1>6. Balanced'
  <2> SUFFICES ASSUME NEW q \in Operators, task'[Loop(q)].at \notin {"off", "leaving"}
               PROVE  received'[q] = Balance(q)'
    BY DEF Balanced
  <2>1. received[q] = applied[q] + pend[q].rel + InHands(q) + InPool(q) /\ applied[q] \in Nat
    BY <1>1, PendTypes DEF SessInv, Balanced, Balance
  <2>2. InHands(q)' = InHands(q) /\ InPool(q)' = InPool(q) /\ InHands(q) \in Nat /\ InPool(q) \in Nat
    BY <1>1, StillStep
  <2>3. CASE q # o
    BY <1>1, <2>1, <2>2, <2>3 DEF Balance
  <2>4. CASE q = o
    <3>1. pend'[q].rel - pend[q].rel = received'[q] - received[q] /\ pend'[q].rel \in Nat
          /\ received'[q] \in Nat
      BY <1>2, <1>3, <2>4
    <3> QED
      BY <1>1, <1>2, <2>1, <2>2, <2>4, <3>1 DEF Balance
  <2> QED
    BY <2>3, <2>4
<1> QED
  BY <1>1, <1>4, <1>5, <1>6, StillStep DEF SessInv, AtWork, LetGo

LEMMA InMotion ==
  ASSUME SessInv, NEW o \in Operators
  PROVE  /\ InHands(o) = task[Loop(o)].rel + task[Flusher(o)].rel
         /\ InPool(o) = HandedIn(pool, Loop(o)) + HandedIn(pool, Flusher(o))
         /\ InPool(o)' = HandedIn(pool', Loop(o)) + HandedIn(pool', Flusher(o))
         /\ task[Loop(o)].rel \in Nat /\ task[Flusher(o)].rel \in Nat
         /\ HandedIn(pool, Loop(o)) \in Nat /\ HandedIn(pool, Flusher(o)) \in Nat
<1>1. task[Loop(o)].rel \in Nat /\ task[Flusher(o)].rel \in Nat
  BY TasksAre DEF SessInv, SessTypes, Hands
<1>2. HandedIn(pool, Loop(o)) \in Nat /\ HandedIn(pool, Flusher(o)) \in Nat
  BY HandedNat
<1> QED
  BY <1>1, <1>2 DEF InHands, InPool, Handed, HandedIn, JobsOf, MovesIn

\* Both tasks of a connection change.
LEMMA BothChange ==
  ASSUME SessTypes, NEW o \in Operators, NEW x \in Hands, NEW y \in Hands,
         task' = [task EXCEPT ![Flusher(o)] = x, ![Loop(o)] = y]
  PROVE  /\ task' \in [Tasks -> Hands] /\ task'[Flusher(o)] = x /\ task'[Loop(o)] = y
         /\ \A u \in Tasks \ {Flusher(o), Loop(o)} : task'[u] = task[u]
<1>1. Flusher(o) \in Tasks /\ Loop(o) \in Tasks /\ Loop(o) # Flusher(o)
  BY TasksAre
<1>2. task \in [Tasks -> Hands]
  BY DEF SessTypes
<1> DEFINE mid == [task EXCEPT ![Flusher(o)] = x]
<1>3. mid \in [Tasks -> Hands] /\ mid[Flusher(o)] = x /\ \A u \in Tasks \ {Flusher(o)} : mid[u] = task[u]
  BY <1>1, <1>2
<1>4. task' = [mid EXCEPT ![Loop(o)] = y]
  OBVIOUS
<1> HIDE DEF mid
<1> QED
  BY <1>1, <1>3, <1>4

LEMMA OpenStep ==
  ASSUME SessInv, NEW o \in Operators, OpenSession(o)
  PROVE  SessInv'
<1>0. SessTypes /\ Orderly(pool) /\ UNCHANGED <<pend, pool, running, holder, received, applied>>
  BY DEF SessInv, OpenSession, counts
<1>1. task[Loop(o)].at = "off" /\ task[Flusher(o)].at = "off"
  BY HandsAre DEF OpenSession, Connected, SessInv, Carried, FlushesOnly
<1>2. ~HasJob(pool, Loop(o)) /\ ~HasJob(pool, Flusher(o)) /\ running.task # Loop(o)
  BY <1>1, TasksAre, IdleHasNone
<1>3. /\ task' \in [Tasks -> Hands] /\ task'[Flusher(o)] = Ready /\ task'[Loop(o)] = Ready
      /\ \A u \in Tasks \ {Flusher(o), Loop(o)} : task'[u] = task[u]
  <2>1. task' = [task EXCEPT ![Flusher(o)] = Ready, ![Loop(o)] = Ready]
    BY <1>0, TasksAre DEF OpenSession, SessTypes
  <2> QED
    BY <1>0, <2>1, HandsAre, BothChange
<1>4. \A q \in Operators : q # o => task'[Loop(q)] = task[Loop(q)] /\ task'[Flusher(q)] = task[Flusher(q)]
  BY <1>3, TasksAre
<1>5. Carried'
  <2>1. \A t \in Tasks : HandFits(task'[t])
    BY <1>3, HandsAre DEF SessInv, Carried, HandFits
  <2>2. ASSUME NEW q \in Operators PROVE FlushesOnly(q)'
    BY <1>3, <1>4, HandsAre DEF SessInv, Carried, FlushesOnly
  <2> QED
    BY <2>1, <2>2 DEF Carried
<1>6. Waiting'
  <2>1. \A i \in DOMAIN pool : task'[pool[i].task] = task[pool[i].task]
    BY <1>0, <1>2, <1>3, JobsAre DEF HasJob, SessTypes
  <2> QED
    BY <1>0, <2>1 DEF SessInv, Waiting
<1>7. PendFits'
  BY <1>0, <1>1, <1>3, <1>4, HandsAre DEF SessInv, PendFits
<1>8. AtWork'
  BY <1>0, <1>2, <1>4 DEF SessInv, AtWork
<1>9. LetGo'
  BY <1>0, <1>3, <1>4, HandsAre DEF SessInv, LetGo
<1>10. Balanced'
  <2> SUFFICES ASSUME NEW q \in Operators, task'[Loop(q)].at \notin {"off", "leaving"}
               PROVE  received'[q] = Balance(q)'
    BY DEF Balanced
  <2>0. InPool(q)' = InPool(q)
    BY <1>0 DEF InPool, Handed, JobsOf
  <2>1. CASE q = o
    <3>1. pend[q].rel = 0 /\ received[q] = 0 /\ applied[q] = 0
      BY <1>0, <1>1, <2>1, PendTypes DEF SessInv, PendFits
    <3>2. InHands(q)' = 0
      BY <1>3, <2>1, HandsAre DEF InHands
    <3>3. InPool(q)' = 0
      BY <1>2, <2>0, <2>1, InMotion, HandedNone
    <3> QED
      BY <1>0, <3>1, <3>2, <3>3 DEF Balance
  <2>2. CASE q # o
    <3>1. InHands(q)' = InHands(q)
      BY <1>4, <2>2 DEF InHands
    <3> QED
      BY <1>0, <1>4, <2>0, <2>2, <3>1 DEF SessInv, Balanced, Balance
  <2> QED
    BY <2>1, <2>2
<1> QED
  BY <1>0, <1>3, <1>5, <1>6, <1>7, <1>8, <1>9, <1>10 DEF SessInv, SessTypes

\* The pool without the job of a flusher that is cancelled.
LEMMA WithdrawnIs ==
  ASSUME SessInv, NEW o \in Operators
  PROVE  /\ Withdrawn(o) \in Seq(Jobs) /\ Orderly(Withdrawn(o)) /\ ~HasJob(Withdrawn(o), Flusher(o))
         /\ \A u : u # Flusher(o) => HandedIn(Withdrawn(o), u) = HandedIn(pool, u)
                                     /\ (HasJob(Withdrawn(o), u) <=> HasJob(pool, u))
         /\ \A i \in DOMAIN Withdrawn(o) : \E m \in DOMAIN pool : Withdrawn(o)[i] = pool[m]
<1>0. pool \in Seq(Jobs) /\ Orderly(pool)
  BY DEF SessInv, SessTypes
<1>1. CASE JobsOf(Flusher(o)) = {}
  <2>1. Withdrawn(o) = pool /\ ~HasJob(pool, Flusher(o))
    BY <1>1, PoolReads DEF Withdrawn
  <2> QED
    BY <1>0, <2>1
<1>2. CASE JobsOf(Flusher(o)) # {}
  <2> DEFINE k == CHOOSE i \in JobsOf(Flusher(o)) : TRUE
             r == RemoveAt(pool, k)
  <2>1. k \in DOMAIN pool /\ pool[k].task = Flusher(o)
    BY <1>2 DEF JobsOf
  <2>2. Withdrawn(o) = r
    BY <1>2 DEF Withdrawn
  <2>3. Without(pool, k, r)
    BY <1>0, <2>1, RemoveIsWithout
  <2>4. r \in Seq(Jobs)
    BY <2>3 DEF Without
  <2> HIDE DEF k, r
  <2>5. /\ Orderly(r) /\ ~HasJob(r, pool[k].task)
        /\ \A t : t # pool[k].task => HandedIn(r, t) = HandedIn(pool, t) /\ (HasJob(r, t) <=> HasJob(pool, t))
        /\ \A i \in DOMAIN r : \E m \in DOMAIN pool : m # k /\ r[i] = pool[m]
    BY <1>0, <2>1, <2>3, JobGone
  <2> QED
    BY <2>1, <2>2, <2>4, <2>5
<1> QED
  BY <1>1, <1>2

LEMMA DisconnectStep ==
  ASSUME SessInv, NEW o \in Operators, Disconnect(o)
  PROVE  SessInv'
<1> DEFINE w == Withdrawn(o)
           j == Job(Loop(o), "release", "none")
           gone == [Off EXCEPT !.at = "leaving"]
<1>0. SessTypes /\ Orderly(pool) /\ UNCHANGED <<pend, running, holder, received, applied>>
  BY DEF SessInv, Disconnect, counts
<1>1. task[Loop(o)].at = "idle" /\ Loop(o) \in Tasks /\ Flusher(o) \in Tasks /\ Loop(o) # Flusher(o)
  BY HandsAre, TasksAre DEF Disconnect, Receiving
<1>2. ~HasJob(pool, Loop(o)) /\ running.task # Loop(o)
  BY <1>1, IdleHasNone
<1>3. /\ w \in Seq(Jobs) /\ Orderly(w) /\ ~HasJob(w, Flusher(o))
      /\ \A u : u # Flusher(o) => HandedIn(w, u) = HandedIn(pool, u) /\ (HasJob(w, u) <=> HasJob(pool, u))
      /\ \A i \in DOMAIN w : \E m \in DOMAIN pool : w[i] = pool[m]
  BY WithdrawnIs
<1>4. j \in Jobs /\ j.task = Loop(o) /\ j.op = "release" /\ pool' = Append(w, j)
  BY <1>1 DEF Job, Jobs, Kinds, Disconnect
<1>5. \A q \in Operators : ~Moving(q, j)
  BY <1>4, TasksAre DEF Moving
<1> HIDE DEF w, j
<1>6. /\ pool' \in Seq(Jobs) /\ Orderly(pool') /\ HasJob(pool', Loop(o))
      /\ \A u : u # Loop(o) => HandedIn(pool', u) = HandedIn(w, u) /\ (HasJob(pool', u) <=> HasJob(w, u))
      /\ \A i \in DOMAIN pool' : pool'[i] = j \/ \E k \in DOMAIN w : pool'[i] = w[k]
  BY <1>1, <1>2, <1>3, <1>4, <1>5, JobAdded
<1>7. /\ task' \in [Tasks -> Hands] /\ task'[Flusher(o)] = Off /\ task'[Loop(o)] = gone
      /\ \A u \in Tasks \ {Flusher(o), Loop(o)} : task'[u] = task[u]
  BY <1>0, HandsAre, BothChange DEF Disconnect
<1>8. gone.at = "leaving" /\ gone.rel = 0
  BY HandsAre
<1> HIDE DEF gone
<1>9. ASSUME NEW q \in Operators, q # o
      PROVE  /\ task'[Loop(q)] = task[Loop(q)] /\ task'[Flusher(q)] = task[Flusher(q)]
             /\ InPool(q)' = InPool(q) /\ InHands(q)' = InHands(q)
             /\ HasJob(pool', Loop(q)) <=> HasJob(pool, Loop(q))
  <2>1. task'[Loop(q)] = task[Loop(q)] /\ task'[Flusher(q)] = task[Flusher(q)]
    BY <1>7, <1>9, TasksAre
  <2>2. /\ HandedIn(pool', Loop(q)) = HandedIn(pool, Loop(q))
        /\ HandedIn(pool', Flusher(q)) = HandedIn(pool, Flusher(q))
        /\ HasJob(pool', Loop(q)) <=> HasJob(pool, Loop(q))
    BY <1>3, <1>6, <1>9, TasksAre
  <2> QED
    BY <2>1, <2>2, InMotion DEF InHands
<1>10. Carried'
  <2>1. \A t \in Tasks : HandFits(task'[t])
    BY <1>7, <1>8, HandsAre DEF SessInv, Carried, HandFits
  <2>2. ASSUME NEW q \in Operators PROVE FlushesOnly(q)'
    BY <1>7, <1>8, <1>9, HandsAre DEF SessInv, Carried, FlushesOnly
  <2> QED
    BY <2>1, <2>2 DEF Carried
<1>11. ASSUME NEW i \in DOMAIN pool'
       PROVE  \/ pool'[i] = j
              \/ \E m \in DOMAIN pool : pool'[i] = pool[m] /\ pool[m].task \in Tasks \ {Loop(o), Flusher(o)}
  <2>1. CASE pool'[i] # j
    <3>1. PICK k \in DOMAIN w : pool'[i] = w[k]
      BY <1>6, <2>1
    <3>2. PICK m \in DOMAIN pool : w[k] = pool[m]
      BY <1>3
    <3>3. pool[m].task # Flusher(o) /\ pool[m].task # Loop(o)
      BY <1>2, <1>3, <3>2 DEF HasJob
    <3>4. pool[m].task \in Tasks
      BY <1>0, JobsAre DEF SessTypes
    <3> QED
      BY <3>1, <3>2, <3>3, <3>4
  <2> QED
    BY <2>1
<1>12. Waiting'
  <2> SUFFICES ASSUME NEW i \in DOMAIN pool' PROVE WaitsAt(pool'[i], task'[pool'[i].task])
    BY DEF Waiting
  <2>1. CASE pool'[i] = j
    BY <1>4, <1>7, <1>8, <2>1 DEF WaitsAt
  <2>2. ASSUME NEW m \in DOMAIN pool, pool'[i] = pool[m], pool[m].task \in Tasks \ {Loop(o), Flusher(o)}
        PROVE  WaitsAt(pool'[i], task'[pool'[i].task])
    BY <1>7, <2>2 DEF SessInv, Waiting
  <2> QED
    BY <1>11, <2>1, <2>2
<1>13. AtWork'
  <2> SUFFICES ASSUME NEW q \in Operators
               PROVE  /\ running.task = Loop(q) =>
                            ~HasJob(pool', Loop(q)) /\ WaitsAt(running, task'[Loop(q)])
                      /\ Click(q, running) => \A i \in DOMAIN pool' : ~Moving(q, pool'[i])
    BY <1>0 DEF AtWork
  <2>1. running.task = Loop(q) => ~HasJob(pool', Loop(q)) /\ WaitsAt(running, task'[Loop(q)])
    BY <1>2, <1>9 DEF SessInv, AtWork
  <2>2. Click(q, running) => \A i \in DOMAIN pool' : ~Moving(q, pool'[i])
    BY <1>5, <1>11 DEF SessInv, AtWork
  <2> QED
    BY <2>1, <2>2
<1>14. LetGo'
  <2> SUFFICES ASSUME NEW k \in Keys, holder[k] # NoTask
               PROVE  \E q \in Operators :
                          /\ Who(holder[k]) = q /\ task'[Loop(q)].at # "off"
                          /\ task'[Loop(q)].at = "leaving" => HasJob(pool', Loop(q))
    BY <1>0 DEF LetGo
  <2>1. PICK q \in Operators :
            /\ Who(holder[k]) = q /\ task[Loop(q)].at # "off"
            /\ task[Loop(q)].at = "leaving" => HasJob(pool, Loop(q))
    BY DEF SessInv, LetGo
  <2>2. CASE q = o
    BY <1>6, <1>7, <1>8, <2>1, <2>2
  <2>3. CASE q # o
    BY <1>9, <2>1, <2>3
  <2> QED
    BY <2>2, <2>3
<1>15. PendFits'
  BY <1>0, <1>7, <1>8, <1>9 DEF SessInv, PendFits
<1>16. Balanced'
  <2> SUFFICES ASSUME NEW q \in Operators, task'[Loop(q)].at \notin {"off", "leaving"}
               PROVE  received'[q] = Balance(q)'
    BY DEF Balanced
  <2>1. q # o
    BY <1>7, <1>8
  <2> QED
    BY <1>0, <1>9, <2>1 DEF SessInv, Balanced, Balance
<1> QED
  BY <1>0, <1>6, <1>7, <1>10, <1>12, <1>13, <1>14, <1>15, <1>16 DEF SessInv, SessTypes

\* The last release of a connection is done: nothing of it is left anywhere.
LEMMA LeavesStep ==
  ASSUME SessInv, NEW o \in Operators, Leaves(o)
  PROVE  SessInv'
<1>0. /\ SessTypes /\ Orderly(pool) /\ UNCHANGED <<pool, running, holder>>
      /\ Loop(o) \in Tasks /\ Flusher(o) \in Tasks /\ Loop(o) # Flusher(o)
  BY TasksAre DEF SessInv, Leaves
<1>1. task[Loop(o)].at = "leaving" /\ ~HasJob(pool, Loop(o)) /\ running.task # Loop(o)
  BY PoolReads DEF Leaves, JobDone
<1>2. task[Flusher(o)] = Off
  BY <1>1 DEF SessInv, Carried, FlushesOnly
<1>3. task' \in [Tasks -> Hands] /\ task'[Loop(o)] = Off /\ \A u \in Tasks : u # Loop(o) => task'[u] = task[u]
  BY <1>0, HandsAre DEF Leaves, SessTypes
<1>4. \A q \in Operators : q # o => task'[Loop(q)] = task[Loop(q)]
  BY <1>3, TasksAre
<1>5. \A q \in Operators : task'[Flusher(q)] = task[Flusher(q)]
  BY <1>3, TasksAre
<1>6. /\ \A q \in Operators : pend'[q] = IF q = o THEN Motionless ELSE pend[q]
      /\ \A q \in Operators : received'[q] = IF q = o THEN 0 ELSE received[q]
      /\ \A q \in Operators : applied'[q] = IF q = o THEN 0 ELSE applied[q]
  BY <1>0 DEF Leaves, Forget, SessTypes
<1>7. SessTypes'
  <2>1. pend' \in [Operators -> [abs : BOOLEAN, rel : Nat]]
    BY <1>0, PendTypes DEF Leaves, Forget, SessTypes
  <2>2. received' \in [Operators -> Nat] /\ applied' \in [Operators -> Nat]
    BY <1>0 DEF Leaves, Forget, SessTypes
  <2> QED
    BY <1>0, <1>3, <2>1, <2>2 DEF SessTypes
<1>8. Carried'
  <2>1. \A t \in Tasks : HandFits(task'[t])
    BY <1>3, HandsAre DEF SessInv, Carried, HandFits
  <2>2. ASSUME NEW q \in Operators PROVE FlushesOnly(q)'
    <3>1. CASE q = o
      BY <1>2, <1>3, <1>5, <3>1, HandsAre DEF FlushesOnly
    <3>2. CASE q # o
      BY <1>4, <1>5, <3>2 DEF SessInv, Carried, FlushesOnly
    <3> QED
      BY <3>1, <3>2
  <2> QED
    BY <2>1, <2>2 DEF Carried
<1>9. PendFits'
  BY <1>3, <1>4, <1>6, <1>0, PendTypes, HandsAre DEF SessInv, PendFits
<1>10. Waiting'
  <2>1. \A i \in DOMAIN pool : task'[pool[i].task] = task[pool[i].task]
    BY <1>0, <1>1, <1>3, JobsAre DEF HasJob, SessTypes
  <2> QED
    BY <1>0, <2>1 DEF SessInv, Waiting
<1>11. AtWork'
  BY <1>0, <1>1, <1>4 DEF SessInv, AtWork
<1>12. LetGo'
  <2> SUFFICES ASSUME NEW k \in Keys, holder[k] # NoTask
               PROVE  \E q \in Operators :
                          /\ Who(holder[k]) = q /\ task'[Loop(q)].at # "off"
                          /\ task'[Loop(q)].at = "leaving" => HasJob(pool, Loop(q))
    BY <1>0 DEF LetGo
  <2>1. PICK q \in Operators :
            /\ Who(holder[k]) = q /\ task[Loop(q)].at # "off"
            /\ task[Loop(q)].at = "leaving" => HasJob(pool, Loop(q))
    BY DEF SessInv, LetGo
  <2>2. q # o
    BY <1>1, <2>1
  <2> QED
    BY <1>4, <2>1, <2>2
<1>13. Balanced'
  <2> SUFFICES ASSUME NEW q \in Operators, task'[Loop(q)].at \notin {"off", "leaving"}
               PROVE  received'[q] = Balance(q)'
    BY DEF Balanced
  <2>1. q # o
    BY <1>3, HandsAre
  <2>2. InPool(q)' = InPool(q) /\ InHands(q)' = InHands(q)
    BY <1>0, <1>4, <1>5, <2>1 DEF InPool, InHands, Handed, JobsOf
  <2> QED
    BY <1>4, <1>6, <2>1, <2>2 DEF SessInv, Balanced, Balance
<1> QED
  BY <1>0, <1>7, <1>8, <1>9, <1>10, <1>11, <1>12, <1>13 DEF SessInv

\* The worker begins the oldest job.
LEMMA BeginsStep ==
  ASSUME SessInv, WorkerBegins
  PROVE  SessInv'
<1> DEFINE j == pool[1]
           rest == Tail(pool)
<1>0. SessTypes /\ Orderly(pool) /\ UNCHANGED <<task, pend, received>> /\ pool # <<>> /\ running = NoWork
  BY DEF SessInv, WorkerBegins
<1>1. Without(pool, 1, rest) /\ 1 \in DOMAIN pool /\ Head(pool) = j /\ j \in Jobs /\ j.task \in Tasks
  BY <1>0, TailIsWithout, JobsAre DEF SessTypes
<1>2. running' = j /\ pool' = rest
  BY <1>1 DEF WorkerBegins
<1>3. /\ rest \in Seq(Jobs) /\ Orderly(rest) /\ HandedIn(rest, j.task) = 0 /\ ~HasJob(rest, j.task)
      /\ \A t : t # j.task => HandedIn(rest, t) = HandedIn(pool, t) /\ (HasJob(rest, t) <=> HasJob(pool, t))
      /\ \A i \in DOMAIN rest : \E m \in DOMAIN pool : m # 1 /\ rest[i] = pool[m]
  <2>1. pool \in Seq(Jobs) /\ rest \in Seq(Jobs)
    BY <1>0, <1>1 DEF Without, SessTypes
  <2>2. 1 \in DOMAIN pool /\ Without(pool, 1, rest) /\ pool[1].task = j.task
    BY <1>1
  <2> HIDE DEF j, rest
  <2>3. /\ Orderly(rest) /\ HandedIn(rest, pool[1].task) = 0 /\ ~HasJob(rest, pool[1].task)
        /\ \A t : t # pool[1].task => HandedIn(rest, t) = HandedIn(pool, t)
                                      /\ (HasJob(rest, t) <=> HasJob(pool, t))
        /\ \A i \in DOMAIN rest : \E m \in DOMAIN pool : m # 1 /\ rest[i] = pool[m]
    BY <1>0, <2>1, <2>2, JobGone
  <2> QED
    BY <2>1, <2>2, <2>3
<1>4. WaitsAt(j, task[j.task]) /\ HandedIn(pool, j.task) = Units(j)
  BY <1>0, <1>1, HandedOne DEF SessInv, Waiting
<1>5. j.op \in Kinds
  BY <1>1 DEF Jobs
<1>6. /\ holder' = CASE j.op = "down" -> [holder EXCEPT ![j.arg] = j.task]
                     [] j.op = "up" -> [holder EXCEPT ![j.arg] = NoTask]
                     [] j.op = "release" -> NothingDown
                     [] OTHER -> holder
      /\ applied' = IF j.op = "rel" THEN [applied EXCEPT ![Who(j.task)] = @ + j.arg] ELSE applied
  BY <1>1 DEF WorkerBegins
<1>7. \A i \in DOMAIN pool : i >= 1
  BY <1>0 DEF SessTypes
<1> HIDE DEF j, rest
<1>8. Carried' /\ Waiting'
  <2>1. Carried'
    BY <1>0 DEF SessInv, Carried, FlushesOnly
  <2>2. Waiting'
    BY <1>0, <1>2, <1>3 DEF SessInv, Waiting
  <2> QED
    BY <2>1, <2>2
<1>9. AtWork'
  <2> SUFFICES ASSUME NEW q \in Operators
               PROVE  /\ j.task = Loop(q) => ~HasJob(rest, Loop(q)) /\ WaitsAt(j, task[Loop(q)])
                      /\ Click(q, j) => \A i \in DOMAIN rest : ~Moving(q, rest[i])
    BY <1>0, <1>2 DEF AtWork
  <2>1. ASSUME Click(q, j), NEW i \in DOMAIN rest, Moving(q, rest[i]) PROVE FALSE
    <3>1. PICK m \in DOMAIN pool : m # 1 /\ rest[i] = pool[m]
      BY <1>3
    <3>2. m < 1
      BY <1>1, <2>1, <3>1 DEF SessInv, Orderly, j
    <3> QED
      BY <1>0, <1>7, <3>2 DEF SessTypes
  <2> QED
    BY <1>3, <1>4, <2>1
<1>10. DOMAIN holder' = Keys
  BY <1>0, <1>6 DEF SessTypes, NothingDown
<1>11. LetGo'
  <2> SUFFICES ASSUME NEW k \in Keys, holder'[k] # NoTask
               PROVE  \E q \in Operators :
                          /\ Who(holder'[k]) = q /\ task[Loop(q)].at # "off"
                          /\ task[Loop(q)].at = "leaving" => HasJob(rest, Loop(q))
    BY <1>0, <1>2 DEF LetGo
  <2>1. j.op # "release"
    BY <1>6 DEF NothingDown
  <2>2. \/ holder'[k] = holder[k]
        \/ holder'[k] = j.task /\ j.op = "down"
    BY <1>0, <1>6, <2>1 DEF SessTypes
  <2>3. CASE holder'[k] = j.task /\ j.op = "down"
    <3>1. task[j.task].at = "op"
      BY <1>4, <2>3 DEF WaitsAt
    <3>2. j.task = Loop(Who(j.task)) /\ Who(j.task) \in Operators
      BY <1>1, <3>1, TasksAre DEF SessInv, Carried, FlushesOnly
    <3> QED
      BY <2>3, <3>1, <3>2
  <2>4. CASE holder'[k] = holder[k]
    <3>1. PICK q \in Operators :
              /\ Who(holder[k]) = q /\ task[Loop(q)].at # "off"
              /\ task[Loop(q)].at = "leaving" => HasJob(pool, Loop(q))
      BY <2>4 DEF SessInv, LetGo
    <3>2. task[Loop(q)].at = "leaving" => j.task # Loop(q)
      BY <1>4, <1>5, <2>1 DEF WaitsAt, Kinds
    <3> QED
      BY <1>3, <2>4, <3>1, <3>2
  <2> QED
    BY <2>2, <2>3, <2>4
<1>12. /\ Who(j.task) \in Operators
       /\ \A q \in Operators : applied'[q] = IF q = Who(j.task) THEN applied[q] + Units(j) ELSE applied[q]
       /\ Units(j) \in Nat
  <2>1. Who(j.task) \in Operators /\ (j.op = "rel" => j.arg \in Nat)
    BY <1>1, <1>4, TasksAre DEF WaitsAt
  <2>2. CASE j.op = "rel"
    BY <1>0, <1>6, <2>1, <2>2 DEF Units, SessTypes
  <2>3. CASE j.op # "rel"
    <3>1. Units(j) = 0 /\ applied' = applied
      BY <1>6, <2>3 DEF Units
    <3>2. \A q \in Operators : applied[q] \in Nat
      BY <1>0 DEF SessTypes
    <3> QED
      BY <2>1, <3>1, <3>2
  <2> QED
    BY <2>2, <2>3
<1>13. applied' \in [Operators -> Nat]
  <2>1. applied' = [q \in Operators |-> applied'[q]]
    BY <1>0, <1>6 DEF SessTypes
  <2>2. ASSUME NEW q \in Operators PROVE applied'[q] \in Nat
    <3>1. applied[q] \in Nat
      BY <1>0 DEF SessTypes
    <3> QED
      BY <1>12, <3>1
  <2> QED
    BY <2>1, <2>2
<1>14. SessTypes'
  BY <1>0, <1>1, <1>2, <1>3, <1>10, <1>13 DEF SessTypes
<1>15. PendFits'
  <2> SUFFICES ASSUME NEW q \in Operators, task[Loop(q)].at = "off" PROVE applied'[q] = 0
    BY <1>0 DEF SessInv, PendFits
  <2>1. applied[q] = 0
    BY DEF SessInv, PendFits
  <2>2. ASSUME q = Who(j.task) PROVE Units(j) = 0
    <3>1. task[Flusher(q)].at = "off"
      BY HandsAre DEF SessInv, Carried, FlushesOnly
    <3>2. task[j.task].at = "off"
      BY <1>1, <2>2, <3>1, TasksAre
    <3> QED
      BY <1>4, <3>2 DEF WaitsAt, Units
  <2> QED
    BY <1>12, <2>1, <2>2
<1>16. Balanced'
  <2> SUFFICES ASSUME NEW q \in Operators, task[Loop(q)].at \notin {"off", "leaving"}
               PROVE  received[q] = applied'[q] + pend[q].rel + InHands(q) + InPool(q)'
    BY <1>0 DEF Balanced, Balance, InHands
  <2> DEFINE l == HandedIn(pool, Loop(q))
             f == HandedIn(pool, Flusher(q))
             h == InHands(q)
  <2>1. received[q] = applied[q] + pend[q].rel + h + (l + f)
    BY InMotion DEF SessInv, Balanced, Balance
  <2>2. InPool(q)' = HandedIn(rest, Loop(q)) + HandedIn(rest, Flusher(q))
    BY <1>2, InMotion
  <2>3. applied[q] \in Nat /\ pend[q].rel \in Nat /\ h \in Nat /\ l \in Nat /\ f \in Nat
    BY <1>0, PendTypes, InMotion
  <2> HIDE DEF l, f, h
  <2>4. CASE j.task = Loop(q)
    <3>1. HandedIn(rest, Loop(q)) = 0 /\ HandedIn(rest, Flusher(q)) = f /\ l = Units(j)
      BY <1>3, <1>4, <2>4, TasksAre DEF l, f
    <3>2. applied'[q] = applied[q] + l
      BY <1>12, <2>4, <3>1, TasksAre
    <3>3. received[q] = applied'[q] + pend[q].rel + h + (0 + f)
      BY <2>1, <2>3, <3>2
    <3> QED
      BY <2>2, <3>1, <3>3 DEF h
  <2>5. CASE j.task = Flusher(q)
    <3>1. HandedIn(rest, Loop(q)) = l /\ HandedIn(rest, Flusher(q)) = 0 /\ f = Units(j)
      BY <1>3, <1>4, <2>5, TasksAre DEF l, f
    <3>2. applied'[q] = applied[q] + f
      BY <1>12, <2>5, <3>1, TasksAre
    <3>3. received[q] = applied'[q] + pend[q].rel + h + (l + 0)
      BY <2>1, <2>3, <3>2
    <3> QED
      BY <2>2, <3>1, <3>3 DEF h
  <2>6. CASE j.task \notin {Loop(q), Flusher(q)}
    <3>1. HandedIn(rest, Loop(q)) = l /\ HandedIn(rest, Flusher(q)) = f /\ Who(j.task) # q
      BY <1>1, <1>3, <2>6, TasksAre DEF l, f
    <3> QED
      BY <1>12, <2>1, <2>2, <3>1 DEF h
  <2> QED
    BY <2>4, <2>5, <2>6
<1> QED
  BY <1>2, <1>3, <1>8, <1>9, <1>11, <1>14, <1>15, <1>16 DEF SessInv

LEMMA EndsStep ==
  ASSUME SessInv, WorkerEnds
  PROVE  SessInv'
<1>1. running' = NoWork /\ UNCHANGED <<task, pend, pool, holder, received, applied>>
  BY DEF WorkerEnds, counts
<1>2. \A o \in Operators : running'.task # Loop(o) /\ ~Click(o, running')
  BY <1>1 DEF NoWork, Job, NoTask, Loop, Click
<1>3. Carried' /\ Waiting' /\ Orderly(pool)'
      /\ \A o \in Operators : InHands(o)' = InHands(o) /\ InPool(o)' = InPool(o)
  BY <1>1, StillStep
<1>4. AtWork'
  BY <1>2 DEF AtWork
<1>5. PendFits' /\ LetGo' /\ SessTypes'
  BY <1>1 DEF SessInv, PendFits, LetGo, SessTypes
<1>6. Balanced'
  BY <1>1, <1>3 DEF SessInv, Balanced, Balance
<1> QED
  BY <1>3, <1>4, <1>5, <1>6 DEF SessInv

LEMMA SessStep == ASSUME SessInv, [SessionNext]_sessionVars PROVE SessInv'
<1>1. ASSUME NEW o \in Operators, SessionStep(o) PROVE SessInv'
  <2>1. ASSUME NEW op \in {"down", "up"}, NEW key \in Keys, ReceiveOp(o, op, key) PROVE SessInv'
    <3>1. Loop(o) \in Tasks /\ Loop(o) # Flusher(Who(Loop(o))) /\ op \in Ops
      BY TasksAre DEF Ops
    <3> QED
      BY <2>1, <3>1, FlushStep DEF ReceiveOp, Receiving, counts
  <2>2. CASE FlusherWakes(o)
    <3>1. Flusher(o) \in Tasks /\ Who(Flusher(o)) = o /\ "none" \in Ops
      BY TasksAre DEF Ops
    <3> QED
      BY <2>2, <3>1, FlushStep DEF FlusherWakes, counts
  <2> QED
    BY <1>1, <2>1, <2>2, OpenStep, ReceiveMotionStep, ResetStep, DisconnectStep, LeavesStep DEF SessionStep
<1>2. CASE UNCHANGED sessionVars
  <2>1. UNCHANGED <<task, pend, pool, running, holder, received, applied>>
    BY <1>2 DEF sessionVars
  <2>2. Carried' /\ Waiting' /\ Orderly(pool)'
        /\ \A o \in Operators : InHands(o)' = InHands(o) /\ InPool(o)' = InPool(o)
    BY <2>1, StillStep
  <2>3. PendFits' /\ LetGo' /\ SessTypes' /\ AtWork'
    BY <2>1 DEF SessInv, PendFits, LetGo, SessTypes, AtWork
  <2>4. Balanced'
    BY <2>1, <2>2 DEF SessInv, Balanced, Balance
  <2> QED
    BY <2>2, <2>3, <2>4 DEF SessInv
<1> QED
  BY <1>1, <1>2, ResumesStep, BeginsStep, EndsStep DEF SessionNext

LEMMA SessInvariant == SessionSpec => []SessInv
<1>1. SessInv /\ [SessionNext]_sessionVars => SessInv'
  BY SessStep
<1> QED
  BY <1>1, SessInit, PTL DEF SessionSpec

\* Every unit of relative motion a connection receives is moved once or still on its way,
\* and a task has one job in the pool at most, for any number of operators and any motion.
THEOREM MotionIsKept == SessionSpec => []MotionAddsUp
<1>1. SessInv => MotionAddsUp
  BY DEF SessInv, Orderly, Balanced, Balance, Connected, JobsOf, MotionAddsUp
<1> QED
  BY <1>1, SessInvariant, PTL

\* A click lands where the pointer was moved before it.
THEOREM ClicksLandInPlace == SessionSpec => []ClickInPlace
<1>1. SessInv => ClickInPlace
  <2> SUFFICES ASSUME SessInv, NEW o \in Operators, running.task = Loop(o), running.op \in {"down", "up"}
               PROVE  /\ pend[o] = Motionless
                      /\ \A i \in JobsOf(Flusher(o)) : pool[i].op # "abs"
                      /\ o \in Relative => InHands(o) + InPool(o) = 0
    BY DEF ClickInPlace
  <2>1. task[Loop(o)].at = "op" /\ ~HasJob(pool, Loop(o)) /\ \A i \in DOMAIN pool : ~Moving(o, pool[i])
    BY DEF SessInv, AtWork, WaitsAt, Click
  <2>2. pend[o] = Motionless
    BY <2>1 DEF SessInv, PendFits
  <2>3. \A i \in JobsOf(Flusher(o)) : pool[i].op # "abs"
    BY <2>1 DEF JobsOf, Moving
  <2>4. ASSUME o \in Relative PROVE InHands(o) + InPool(o) = 0
    <3>1. ~HasJob(pool, Flusher(o))
      BY <2>1, <2>4 DEF HasJob, Moving
    <3>2. task[Loop(o)].rel = 0 /\ task[Flusher(o)].rel = 0
      BY <2>1, <2>4, TasksAre DEF SessInv, Carried, FlushesOnly, HandFits
    <3> QED
      BY <2>1, <3>1, <3>2, InMotion, HandedNone
  <2> QED
    BY <2>2, <2>3, <2>4
<1> QED
  BY <1>1, SessInvariant, PTL

\* Nothing is held for an operator who has gone, whatever the others press meanwhile.
THEOREM NothingHeld == SessionSpec => []NothingHeldForTheGone
<1>1. SessInv => NothingHeldForTheGone
  BY DEF SessInv, LetGo, Connected, NothingHeldForTheGone
<1> QED
  BY <1>1, SessInvariant, PTL

=============================================================================
