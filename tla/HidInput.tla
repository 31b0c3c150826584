------------------------------ MODULE HidInput ------------------------------
(***************************************************************************)
(* The keyboard and the two mice (HIDController) with everything that runs *)
(* against them at once: the single worker of _hid_pool that executes the  *)
(* operators' input, the request thread that bounces the gadget, the       *)
(* events poller that reopens HID when a host configures the gadget, the   *)
(* helper that unbinds it, and the host.                                   *)
(*                                                                         *)
(* Only _write, close and the sections of reopen hold the controller's     *)
(* lock, so an input operation is a job of several steps: mutate the held  *)
(* state, compose a report, write it, record what was written.  A report   *)
(* is reduced to the keys or buttons it shows as held; motion is left out. *)
(***************************************************************************)
EXTENDS GadgetHelper

CONSTANTS
    Usages,         \* keyboard usages that go to the six-slot array
    Modifiers,      \* keys that are a bit of the modifier byte
    Buttons,        \* mouse buttons
    MaxKeys,        \* slots in a keyboard report (six)
    MaxChunks,      \* reports one relative move is split into, at most
    RelConfigured   \* whether the gadget has the relative mouse

ASSUME HidAssumption ==
    /\ MaxKeys \in Nat
    /\ MaxChunks \in Nat \ {0}
    /\ RelConfigured \in BOOLEAN
    /\ Usages \cap Modifiers = {}

VARIABLES
    fd,             \* per device: "none", "live", or "stale" (its node is gone)
    suspended, mods, keys, btn, btnSent, posKnown, mmode,
    job,            \* what the pool's worker executes
    report,         \* the report in its hands
    bounce,         \* where the thread in _bounce_gadget is
    poll, wasConfigured,    \* the poller
    ready,          \* udev has applied the permissions of the nodes
    host,           \* per device: what the target believes is held
    early,          \* a reopen opened devices under a bounce that had closed them
    forgot          \* per device: what a reopen forgot that the target may still show

held == <<mods, keys, btn, btnSent>>
pointer == <<posKnown, mmode>>
worker == <<job, report>>
poller == <<poll, wasConfigured>>
ghosts == <<early, forgot>>     \* history only: no action of the code reads them
vars == <<gadgetVars, fd, suspended, held, pointer, worker, bounce, poller, ready, host,
          ghosts>>

Mice == {"mabs", "mrel"}
Devices == {"kbd"} \cup Mice
NoJob == [op |-> "idle", todo |-> <<>>, lost |-> FALSE]
NoReport == [dev |-> "none", shows |-> {}, sent |-> FALSE]
NothingHeld == [d \in Devices |-> {}]

IsOpen == fd["kbd"] # "none" /\ fd["mabs"] # "none"
Node(d) == Bound /\ (d = "mrel" => RelConfigured)
Open(d) == IF Node(d) /\ ready THEN "live" ELSE "none"
RelAvailable == fd["mrel"] # "none" \/ Node("mrel")

\* From close() until the bounce reopens.
Quiesced == bounce \in {"closed", "helper"}

Init ==
    /\ GadgetInit
    /\ fd = [d \in Devices |-> IF d = "mrel" /\ ~RelConfigured THEN "none" ELSE "live"]
    /\ suspended = FALSE
    /\ mods = {} /\ keys = {} /\ btn = {} /\ btnSent = [m \in Mice |-> {}]
    /\ posKnown = FALSE /\ mmode = "abs"
    /\ job = NoJob /\ report = NoReport
    /\ bounce = "idle" /\ poll = "idle" /\ wasConfigured = FALSE
    /\ ready = TRUE /\ host = NothingHeld
    /\ early = FALSE /\ forgot = NothingHeld

-----------------------------------------------------------------------------
(* Input operations, as the pool's worker starts them.                     *)

Begin(op, todo) ==
    /\ job = NoJob
    /\ job' = [op |-> op, todo |-> todo, lost |-> FALSE]
    /\ UNCHANGED <<gadgetVars, fd, suspended, report, bounce, poller, ready, host, ghosts>>

\* Slip: no check that the six slots are full.
KeyUnbounded(code, down) ==
    /\ Begin("key", <<"kbd">>)
    /\ IF code \in Modifiers
       THEN /\ mods' = IF down THEN mods \cup {code} ELSE mods \ {code}
            /\ UNCHANGED keys
       ELSE /\ keys' = IF down THEN keys \cup {code} ELSE keys \ {code}
            /\ UNCHANGED mods
    /\ UNCHANGED <<btn, btnSent, pointer>>

Key(code, down) ==
    /\ Begin("key", <<"kbd">>)
    /\ IF code \in Modifiers
       THEN /\ mods' = IF down THEN mods \cup {code} ELSE mods \ {code}
            /\ UNCHANGED keys
       ELSE /\ keys' = IF ~down THEN keys \ {code}
                       ELSE IF Cardinality(keys) < MaxKeys THEN keys \cup {code} ELSE keys
            /\ UNCHANGED mods
    /\ UNCHANGED <<btn, btnSent, pointer>>

MoveAbs ==
    /\ Begin("move", <<"abs">>)
    /\ mmode' = "abs" /\ posKnown' = TRUE
    /\ UNCHANGED held

\* Slip: the emulated move does not start at the centre of the screen.
MoveRelUnplaced(chunks) ==
    /\ IF RelAvailable
       THEN /\ Begin("move", [i \in 1..chunks |-> "rel"])
            /\ mmode' = "rel"
       ELSE /\ Begin("move", <<"abs">>)
            /\ mmode' = "abs"
    /\ UNCHANGED <<held, posKnown>>

\* Without a relative mouse the move is emulated from the tracked position, or from the
\* centre of the screen if there is none.
MoveRel(chunks) ==
    /\ IF RelAvailable
       THEN /\ Begin("move", [i \in 1..chunks |-> "rel"])
            /\ mmode' = "rel" /\ UNCHANGED posKnown
       ELSE /\ Begin("move", <<"abs">>)
            /\ mmode' = "abs" /\ posKnown' = TRUE
    /\ UNCHANGED held

Button(b, down) ==
    /\ IF down THEN Begin("press", <<"buttons">>)
               ELSE Begin("up", <<"buttons", "syncRel", "syncAbs">>)
    /\ btn' = IF down THEN btn \cup {b} ELSE btn \ {b}
    /\ UNCHANGED <<mods, keys, btnSent, pointer>>

Wheel ==
    /\ Begin("wheel", <<"buttons", "buttons">>)
    /\ UNCHANGED <<held, pointer>>

ReleaseAll ==
    /\ Begin("release", <<"kbd", "syncRel", "syncAbs">>)
    /\ mods' = {} /\ keys' = {} /\ btn' = {}
    /\ UNCHANGED <<btnSent, pointer>>

-----------------------------------------------------------------------------
(* The steps of a job.                                                     *)

\* The device the next report of the job goes to; "none" when nothing is to be sent.
\* Slip: buttons ride the absolute mouse without asking whether a position is known.
ButtonDeviceUnasked == IF mmode = "abs" THEN "mabs" ELSE "mrel"

ButtonDevice ==
    IF mmode = "abs" /\ posKnown THEN "mabs"
    ELSE IF RelAvailable THEN "mrel"
    ELSE IF posKnown THEN "mabs" ELSE "none"

\* Slip: a release clears the relative mouse only.
DeviceOneSided(step) ==
    CASE step = "kbd" -> "kbd"
      [] step = "abs" -> "mabs"
      [] step = "rel" -> "mrel"
      [] step = "buttons" -> ButtonDevice
      [] step = "syncRel" -> IF btnSent["mrel"] \ btn # {} THEN "mrel" ELSE "none"
      [] step = "syncAbs" -> "none"

Device(step) ==
    CASE step = "kbd" -> "kbd"
      [] step = "abs" -> "mabs"
      [] step = "rel" -> "mrel"
      [] step = "buttons" -> ButtonDevice
      [] step = "syncRel" -> IF btnSent["mrel"] \ btn # {} THEN "mrel" ELSE "none"
      [] step = "syncAbs" -> IF btnSent["mabs"] \ btn # {} /\ posKnown THEN "mabs" ELSE "none"

Shows(d) == IF d = "kbd" THEN mods \cup keys ELSE btn

HasStep == job.todo # <<>> /\ Head(job.todo) \notin {"reopen", "retry"}

Compose ==
    /\ HasStep /\ report = NoReport
    /\ LET d == Device(Head(job.todo)) IN
       IF d = "none"
       THEN /\ job' = [job EXCEPT !.todo = Tail(@),
                                  !.lost = @ \/ Head(job.todo) = "buttons"]
            /\ UNCHANGED report
       ELSE /\ report' = [dev |-> d, shows |-> Shows(d), sent |-> FALSE]
            /\ UNCHANGED job
    /\ UNCHANGED <<gadgetVars, fd, suspended, held, pointer, bounce, poller, ready, host,
                   ghosts>>

\* Bounded write: sent, dropped by a target that does not drain, or an error.
TryWrite(f) ==
    IF f = "none" \/ f = "stale" THEN {"error"}
    ELSE IF link = "configured" THEN {"sent", "dropped"} ELSE {"dropped", "error"}

\* Slip: the quiesce gate is not consulted.
WriteOutcomesUngated(d) ==
    LET first == IF fd[d] = "none" THEN Open(d) ELSE fd[d]
        again == Open(d)
    IN  {[r |-> x, f |-> first] : x \in TryWrite(first) \ {"error"}}
        \cup (IF "error" \in TryWrite(first)
              THEN {[r |-> x, f |-> again] : x \in TryWrite(again)} ELSE {})

\* _write under the lock: what it returns and the descriptor it leaves behind.
WriteOutcomes(d) ==
    LET first == IF fd[d] = "none" THEN Open(d) ELSE fd[d]
        again == Open(d)
    IN  IF suspended THEN {[r |-> "dropped", f |-> fd[d]]}
        ELSE {[r |-> x, f |-> first] : x \in TryWrite(first) \ {"error"}}
             \cup (IF first = "none" THEN {[r |-> "error", f |-> "none"]}
                   ELSE IF "error" \in TryWrite(first)
                   THEN {[r |-> x, f |-> again] : x \in TryWrite(again)} ELSE {})

\* A relative stroke stops at its first report that did not get through.
Undelivered == [job EXCEPT !.lost = TRUE,
                           !.todo = IF Head(@) = "rel" THEN <<>> ELSE Tail(@)]

\* The target takes a report for all that is held on the device; of what was forgotten
\* there remains what this report still shows and the controller does not hold.
Delivered(d, shows) ==
    /\ host' = [host EXCEPT ![d] = shows]
    /\ forgot' = [forgot EXCEPT ![d] = @ \cap (shows \ Shows(d))]

\* Slip: a dropped report counts as sent.
WriteAssumedSent ==
    /\ HasStep /\ report # NoReport /\ ~report.sent
    /\ \E out \in WriteOutcomes(report.dev) :
          /\ fd' = [fd EXCEPT ![report.dev] = out.f]
          /\ IF out.r = "sent" THEN Delivered(report.dev, report.shows)
                               ELSE UNCHANGED <<host, forgot>>
    /\ report' = [report EXCEPT !.sent = TRUE]
    /\ UNCHANGED <<gadgetVars, suspended, held, pointer, job, bounce, poller, ready, early>>

Write ==
    /\ HasStep /\ report # NoReport /\ ~report.sent
    /\ \E out \in WriteOutcomes(report.dev) :
          /\ fd' = [fd EXCEPT ![report.dev] = out.f]
          /\ IF out.r = "sent"
             THEN /\ Delivered(report.dev, report.shows)
                  /\ report' = [report EXCEPT !.sent = TRUE]
                  /\ UNCHANGED job
             ELSE /\ report' = NoReport
                  /\ job' = Undelivered
                  /\ UNCHANGED <<host, forgot>>
    /\ UNCHANGED <<gadgetVars, suspended, held, pointer, bounce, poller, ready, early>>

\* _send_abs and _send_rel record the buttons held NOW for a report that was delivered.
Latch ==
    /\ HasStep /\ report.sent
    /\ btnSent' = IF report.dev \in Mice THEN [btnSent EXCEPT ![report.dev] = btn]
                                         ELSE btnSent
    /\ report' = NoReport
    /\ job' = [job EXCEPT !.todo = Tail(@)]
    /\ UNCHANGED <<gadgetVars, fd, suspended, mods, keys, btn, pointer, bounce, poller,
                   ready, host, ghosts>>

Done == job # NoJob /\ job.todo = <<>> /\ report = NoReport

Finish ==
    /\ Done
    /\ job' = NoJob
    /\ poll' = IF job.op = "reopen" THEN "idle" ELSE poll
    /\ UNCHANGED <<gadgetVars, fd, suspended, held, pointer, report, bounce, wasConfigured,
                   ready, host, ghosts>>

-----------------------------------------------------------------------------
(* close() and reopen().                                                   *)

\* What the report in the worker's hands shows on a device.
InHand(d) == IF report.dev = d THEN report.shows ELSE {}

\* The first section of reopen(): writes resume, everything held is forgotten, whether the
\* target has let go of it or not, and while the worker may be at a report that shows it.
Resume ==
    /\ suspended' = FALSE
    /\ mods' = {} /\ keys' = {} /\ btn' = {} /\ btnSent' = [m \in Mice |-> {}]
    /\ fd' = [d \in Devices |-> "none"]
    /\ early' = (early \/ Quiesced)
    /\ forgot' = [d \in Devices |-> forgot[d] \cup host[d] \cup InHand(d)]

\* One round of its retry loop, which does not look at the quiesce gate.
OpenRound ==
    /\ fd' = [d \in Devices |-> IF fd[d] = "none" THEN Open(d) ELSE fd[d]]
    /\ early' = (early \/ (Quiesced /\ fd' # fd))

RoundSucceeds ==
    /\ fd'["kbd"] # "none" \/ fd'["mabs"] # "none"
    /\ \A d \in Devices : fd'[d] = "none" => ~Node(d)

\* _bounce_gadget, behind its single-flight lock: close HID, run the helper, reopen HID.
BounceClose ==
    /\ bounce = "idle" /\ Verbs # {}
    /\ bounce' = "closed"
    /\ suspended' = TRUE
    /\ fd' = [d \in Devices |-> "none"]
    /\ early' = FALSE
    /\ UNCHANGED <<gadgetVars, held, pointer, worker, poller, ready, host,
                   forgot>>

\* Refused when somebody else holds the helper's flock.
BounceRun ==
    /\ bounce = "closed"
    /\ (\E verb \in Verbs : Start(verb)) \/ Refused
    /\ bounce' = "helper"
    /\ UNCHANGED <<fd, suspended, held, pointer, worker, poller, ready, host, ghosts>>

\* Slip: HID is reopened only after a helper that succeeded.
BounceReturnOnSuccess ==
    /\ bounce = "helper" /\ ~Running
    /\ bounce' = IF helper.rc = 0 THEN "reopen" ELSE "idle"
    /\ UNCHANGED <<gadgetVars, fd, suspended, held, pointer, worker, poller, ready, host,
                   ghosts>>

\* Also a call that times out returns only when the helper has ended: sudo runs it as root,
\* the service may not kill it, and subprocess.run waits for its child in any case.
BounceReturn ==
    /\ bounce = "helper" /\ ~Running
    /\ bounce' = "reopen"
    /\ UNCHANGED <<gadgetVars, fd, suspended, held, pointer, worker, poller, ready, host,
                   ghosts>>

BounceResume ==
    /\ bounce = "reopen"
    /\ Resume
    /\ bounce' = "retry"
    /\ UNCHANGED <<gadgetVars, pointer, worker, poller, ready, host>>

\* Until a round succeeds or the rounds are used up.
BounceRetry ==
    /\ bounce = "retry"
    /\ OpenRound
    /\ bounce' \in (IF RoundSucceeds THEN {"idle"} ELSE {"retry", "idle"})
    /\ UNCHANGED <<gadgetVars, suspended, held, pointer, worker, poller, ready, host, forgot>>

\* The poller samples the link; on a transition to configured with HID not open it hands
\* the pool a reopen and waits for it.
PollerSample ==
    /\ poll = "idle"
    /\ wasConfigured' = (link = "configured")
    /\ poll' = IF wasConfigured' /\ ~wasConfigured /\ ~IsOpen THEN "queued" ELSE "idle"
    /\ UNCHANGED <<gadgetVars, fd, suspended, held, pointer, worker, bounce, ready, host,
                   ghosts>>

PollerReopen ==
    /\ poll = "queued"
    /\ Begin("reopen", <<"reopen", "retry">>)
    /\ UNCHANGED <<held, pointer>>

PoolResume ==
    /\ job.todo # <<>> /\ Head(job.todo) = "reopen"
    /\ Resume
    /\ job' = [job EXCEPT !.todo = Tail(@)]
    /\ UNCHANGED <<gadgetVars, pointer, report, bounce, poller, ready, host>>

PoolRetry ==
    /\ job.todo # <<>> /\ Head(job.todo) = "retry"
    /\ OpenRound
    /\ job' \in (IF RoundSucceeds THEN {} ELSE {job}) \cup {[job EXCEPT !.todo = <<>>]}
    /\ UNCHANGED <<gadgetVars, suspended, held, pointer, report, bounce, poller, ready,
                   host, forgot>>

-----------------------------------------------------------------------------
(* The gadget and the host.                                                *)

\* Unbinding destroys the nodes under any descriptor still open; binding creates them
\* anew without their permissions; a host that loses the device forgets what was held.
GadgetEffects ==
    /\ fd' = [d \in Devices |-> IF fd[d] = "live" /\ ~Bound' THEN "stale" ELSE fd[d]]
    /\ ready' = (ready /\ Bound /\ Bound')
    /\ host' = IF link' = "configured" THEN host ELSE NothingHeld
    /\ UNCHANGED <<suspended, held, pointer, worker, bounce, poller, ghosts>>

HelperMoves == HelperStep /\ GadgetEffects

HostMoves == HostStep /\ GadgetEffects

Udev ==
    /\ Bound /\ ~ready
    /\ ready' = TRUE
    /\ UNCHANGED <<gadgetVars, fd, suspended, held, pointer, worker, bounce, poller, host,
                   ghosts>>

BounceThread == BounceClose \/ BounceRun \/ BounceReturn \/ BounceResume \/ BounceRetry
BounceGoesOn == BounceRun \/ BounceReturn \/ BounceResume \/ BounceRetry

Input ==
    \/ \E code \in Usages \cup Modifiers, down \in BOOLEAN : Key(code, down)
    \/ MoveAbs
    \/ \E chunks \in 1..MaxChunks : MoveRel(chunks)
    \/ \E b \in Buttons, down \in BOOLEAN : Button(b, down)
    \/ Wheel
    \/ ReleaseAll

Worker == Compose \/ Write \/ Latch \/ Finish \/ PollerReopen \/ PoolResume \/ PoolRetry

Next ==
    \/ Input \/ Worker \/ PollerSample
    \/ BounceThread
    \/ HelperMoves \/ HostMoves \/ Udev

\* Threads and processes that have begun keep running; operators and hosts owe nothing.
Fairness == WF_vars(BounceGoesOn) /\ WF_vars(HelperMoves)

Spec == Init /\ [][Next]_vars /\ Fairness

-----------------------------------------------------------------------------
(* Properties.                                                             *)

Ops == {"key", "move", "press", "up", "wheel", "release", "reopen"}
JobSteps == {"kbd", "abs", "rel", "buttons", "syncRel", "syncAbs", "reopen", "retry"}

TypeOK ==
    /\ GadgetTypeOK
    /\ fd \in [Devices -> {"none", "live", "stale"}]
    /\ suspended \in BOOLEAN /\ ready \in BOOLEAN /\ early \in BOOLEAN
    /\ mods \subseteq Modifiers /\ keys \subseteq Usages /\ Cardinality(keys) <= MaxKeys
    /\ btn \subseteq Buttons /\ btnSent \in [Mice -> SUBSET Buttons]
    /\ posKnown \in BOOLEAN /\ mmode \in {"abs", "rel"}
    /\ job \in [op : Ops \cup {"idle"}, todo : Seq(JobSteps), lost : BOOLEAN]
    /\ report \in [dev : Devices \cup {"none"}, shows : SUBSET (Usages \cup Modifiers \cup Buttons),
                   sent : BOOLEAN]
    /\ bounce \in {"idle", "closed", "helper", "reopen", "retry"}
    /\ poll \in {"idle", "queued"} /\ wasConfigured \in BOOLEAN
    /\ host \in [Devices -> SUBSET (Usages \cup Modifiers \cup Buttons)]
    /\ forgot \in [Devices -> SUBSET (Usages \cup Modifiers \cup Buttons)]

\* What the target shows as held, but for what a reopen() forgot and no report that got
\* through has corrected since.
Answered(d) == host[d] \ forgot[d]

\* Whatever button the target believes is held on a mouse, the controller knows it wrote
\* to that mouse: _btn_sent is in step with the reports that were delivered (the comment
\* above _send_abs), so a later release can find it.  That holds across any reopen(), also
\* one between composing, writing and recording a report: only what a reopen() found
\* held, at the target or in the worker's report, is lost to it, and only until the next
\* report to that mouse is delivered.
LatchCovers ==
    \A m \in Mice :
        Answered(m) \subseteq btnSent[m] \cup (IF report.sent THEN InHand(m) ELSE {})

\* When a release (or release_all, or a key) ends with every report delivered, the target
\* holds nothing the operator does not: also not on the mouse the cursor has left
\* (_sync_stale_buttons), whatever was dropped before, and whoever reopened HID in
\* between, but for what such a reopen() has forgotten.
ReleaseReachesTarget ==
    Done /\ ~job.lost =>
        /\ job.op \in {"up", "release"} => \A m \in Mice : Answered(m) \subseteq btn
        /\ job.op \in {"key", "release"} => Answered("kbd") \subseteq mods \cup keys

\* No report goes to the absolute mouse before a position is known: it would warp the
\* target's cursor (the comments at _x and in _write_buttons).  An emulated relative move
\* gives one, and a reopen() keeps it.
NoInventedPosition == report.dev = "mabs" => posKnown

\* No unbind takes a /dev/hidg* node away under an open descriptor, whatever input races
\* the bounce (close() and the quiesce gate), unless some other reopen() let descriptors
\* be opened before the helper was done.
NoDescriptorAcrossUnbind == (\E d \in Devices : fd[d] = "stale") => early

\* While a bounce waits for its helper, no unbind finds an open /dev/hidg*: _bounce_gadget
\* releases them "BEFORE the UDC unbind" and reopens after.
DescriptorsClosedAtUnbind ==
    bounce = "helper" => \A d \in Devices : fd[d] # "stale"

\* When the helper is done and the bounce is about to reopen, no mouse shows a held button
\* at the target: "the re-enumeration itself released every button at the host", which is
\* why reopen() may reset _btn_sent.
ReenumerationReleased == bounce = "reopen" => \A m \in Mice : host[m] = {}

\* Whatever the helper does and however its call ends, the controller accepts input again
\* ("reopen on EVERY path" in _bounce_gadget).
QuiesceEnds == suspended ~> ~suspended

=============================================================================
