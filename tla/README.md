# A verification project for diykvm

TLA+ models of the parts of diykvm that hold state and run concurrently, the TLC
configurations that check them on small instances, and TLAPS proofs of the results that
matter most. Paths below are relative to the repository's root (`src/` in the maps).

## 1. The system

A Raspberry Pi gives an operator's browser the screen, keyboard, mouse, a USB drive, a serial
port and the power button of a *target*. One Python service (`app/server.py`, FastAPI on one
event loop, unprivileged) does it, with worker threads, three root helpers started through
sudo, and two shell scripts that build and tear down the USB gadget in configfs.

| Component | State it keeps | Operations | What is hard about it |
|---|---|---|---|
| HID controller (`app/hid.py`) | descriptors of three `/dev/hidg*`, held keys and buttons, buttons last written per mouse, known position, active mouse, quiesce gate | key, move, button, wheel, release_all, close, reopen | one pool worker writes while request threads close and reopen; reports are dropped; nodes vanish under descriptors |
| Gadget helper (`kvm-gadget-helper`, `pi/kvm-gadget-*.sh`) | the configfs tree, its UDC binding, the kernel's link state; a flock | reenumerate, recover | each step can fail; five nested fallbacks; the host connects and drops at any time |
| Bounce (`_bounce_gadget`, `server.py`) | single-flight lock, rate limiter | close HID, run the helper, reopen HID | input and the events poller race it |
| Events poller (`server.py`), event bus (`events.py`) | last samples; ring, sequence number, subscriber queues | sample, publish, subscribe, reopen HID on enumeration | misses short transitions; reopens HID under a bounce |
| Mass storage (`app/msd.py`, `kvm-msd-helper`) | LUN file and attributes, mount, loop device, pointer file, image library | detach, attach, eject, import, delete, file edits, downloads | the drive must never be on both sides; every helper step can fail; downloads outlive the lock; gadget scripts write the LUN too |
| Power (`app/power.py`) | GPIO lines, commanded states, holds in progress, faults | relay set, button press, hold worker | overlapping requests, drives that fail or time out, release retries, daemon threads |
| Serial ports (`app/serialport.py`) | handle, drain task, backlog, subscribers, per-device locks | open, close, drain, reopen, write, subscribe | asyncio tasks with time-outs around blocking pool calls |
| Semantic events (`target_events.py`) | none: a function of two samples per domain | one function per domain | what samples skip must not be lost on a listener |
| H.264 source (`server.py`) | client set, transcoder process, pump task, client queues | attach, detach, pump, fan-out | cancellation, lock held across awaits, overlapping generations |
| MJPEG tap and its viewers (`/stream`, `/ws/video`) | newest part, two `asyncio.Event`s | pump, take, send, acknowledge | wake-ups between two steps of `take` |
| Input sessions (`/ws`) | pending motion, flusher task | receive, flush, release on disconnect | two tasks take the same pending motion; a flusher cancelled in mid-flush |
| Configuration and capture source (`config_save`, `video_select`, `kvm-conf-helper`, `kvm-ustreamer`) | the configuration file, the pointer file, the card the streamer was started with | save, select, restart | read-merge-write without a lock; the streamer reads both files at a time of its own |
| Login, KVM switch, OCR, block store | files; failure counts | short request handlers | wall-clock throttles |
| Web UI, packaging, kernel patch | none at run time on the Pi | | |

How they interact: the HID controller, the bounce, the helper and the poller share the
`/dev/hidg*` nodes and the link state; the mass-storage helper and the gadget scripts share
`lun.0/file`; the scripts are run by systemd and by the gadget helper, never by the
mass-storage manager. Input sessions reach the HID controller through a pool of one worker,
which is where `InputSessions` ends and `HidInput` begins. The poller's samples become events
of the bus (`EventStream`), the semantic ones by way of `TargetEvents`. The configuration names
the cards among which the capture source is chosen. Power, the transcoder and the tap stand
alone. The `hazards` list in `PROJECT.json` names, line by
line, what can go wrong in each and the properties that are there for it.

What makes each correct:

* **HID** – no descriptor survives an unbind; what the target believes is held can always be
  found and released; no report invents a position; after any bounce input flows again.
* **Gadget helper** – success means a bound gadget; every ladder ends.
* **Mass storage** – one owner of the drive at a time, whatever step fails; ISOs read-only; the
  target's medium is neither replaced nor deleted; no method keeps the lock for ever.
* **Power** – a pressed button is accounted for, not cut short by another press, and let go of.
* **Serial** – one drain per device and none out of reach; no chunk is shown twice; the backlog
  is the end of what came in; no handle is closed in use; every session that has room in its
  queue learns of the end.
* **H.264** – one transcoder, with somebody registered for it; a viewer that waits will be fed
  or ended; what it is sent can be decoded; nobody is stuck in `detach`.
* **MJPEG** – a slow viewer gets fewer parts, never older ones, and overlooks none that came.
* **Input sessions** – every unit of motion is moved once; a click lands where the pointer was
  put; what a connection held is let go of when it ends.
* **Events** – no event twice or out of order, no gap without a full queue; snapshot and events
  together, and the semantic events by themselves, add up to what was polled.
* **Configuration** – a save leaves other keys alone; the card shown is the card that streams.

## 2. Modules

| Module | Models | Kind |
|---|---|---|
| `GadgetHelper` | `kvm-gadget-helper`, `kvm-gadget-up.sh`, `kvm-gadget-down.sh`, the host's side of enumeration | component |
| `HidInput` | `app/hid.py`, `_bounce_gadget`, the poller's reopen; EXTENDS `GadgetHelper` and composes it | composition |
| `MCHidInput` | symmetry for TLC | MC module |
| `DriveOwner` | what mass storage promises: the hand-over of a drive between two owners | abstract specification |
| `MassStorage` | `app/msd.py`, `kvm-msd-helper`, the scripts' writes to the LUN; implements `DriveOwner` | component |
| `PowerButton` | `app/power.py` | component |
| `SerialPort` | `app/serialport.py`, the serial routes, `ws_serial` and the autostart loop of `server.py` | component |
| `MCSerialPort` | symmetry and the view for TLC | MC module |
| `H264Source` | `_H264Source`, `ws_h264` of `server.py` | component |
| `VideoTap` | `_MJPEGTap`, `/stream`, `/ws/video` of `server.py` | component |
| `InputSessions` | `/ws` of `server.py` | component |
| `EventStream` | `app/events.py`, `ws_events`, `_events_snapshot` and the publishing half of the poller | component |
| `TargetEvents` | `app/target_events.py` | pure functions, with a poller and a listener around them |
| `Settings` | `config_save`, `video_select`, `config_restart_streamer`, `kvm-conf-helper`, `kvm-ustreamer` | component |
| `MCService` | the six before, side by side, for TLC | MC module |
| `GadgetHelperProofs`, `HidInputProofs`, `MassStorageProofs`, `PowerButtonProofs`, `SerialPortProofs`, `H264SourceProofs`, `EventStreamProofs`, `ServiceProofs` (`VideoTap`, `Settings`) | theorems | proofs |

A definition whose comment begins with "Slip" is a plausible bug in the definition that
follows it. No specification uses it; it is put in that definition's place to see that a
property notices.

### GadgetHelper

`link` is what sysfs and configfs show: no tree (`absent`), a tree without a UDC (`unbound`),
a bound gadget that is `detached` ("not attached"), `addressed` or `configured`. `udc` says
whether a controller is listed at all. `helper` is the one helper process: its verb, the step
it is `at`, the rung of the recovery ladder, its exit status and the link state it last
accepted. There is one action per system call that somebody else can see the effect of: the
pull-up toggle, the unbind, the bind, each script, the driver's unbind and bind. Loops that
retry (`_rebind`, the wait after a rebuild, `_linked_up`) are one action that may end either
way; their counts and delays are left out. `Refused` is a second caller that finds the flock
taken (by a shell user, say), or a failing sudo in general: an exit that touched nothing.
`Enumerate` and `Disconnect` are the target's host, which is not under `src/`.

### HidInput

The controller's lock covers `_write`, `close` and the sections of `reopen`, but not the
held-key state, so an operation is a job of several steps of the pool's only worker:

| Code | Action |
|---|---|
| `key`, `move_abs`, `move_rel`, `button`, `wheel`, `release_all` up to the first report | `Key`, `MoveAbs`, `MoveRel`, `Button`, `Wheel`, `ReleaseAll`: change the held state, list the reports to send in `job.todo` |
| `_write_buttons`, `_sync_stale_buttons`, `_abs_report` ... | `Compose`: choose the device, or none, and take what the report shows from the state as it is now |
| `_write` | `Write`: gate, lazy open, bounded write, one reopen and retry |
| `_btn_sent[...] = self._btn` | `Latch`, a step of its own since it is outside the lock |
| `close`, `reopen` in `_bounce_gadget` | `BounceClose`, `BounceRun`, `BounceReturn`, `BounceResume`, `BounceRetry` |
| `reopen` from the poller, on the pool | `PollerSample`, `PollerReopen`, `PoolResume`, `PoolRetry` |
| kernel: nodes destroyed at unbind, created at bind; udev; the host's view | `GadgetEffects` (conjoined to every helper and host step), `Udev` |

A report is the set of keys or buttons it shows as held; motion, wheel values and coordinates
are left out, except whether a position is known. `host` is what the target believes is held,
per device, and is emptied whenever the link leaves `configured`. Two variables are history,
read by no action of the code (`ghosts`): `early` records that some `reopen` opened devices
between a bounce's `close` and its own reopen; `forgot` holds, per device, what a `reopen` found
held at the target or in the worker's report, less what reports that were delivered since have
corrected. `reopen` resets what the controller knows to be held, on the assumption that the host
has let go of everything; `forgot` is what that assumption can be wrong about, and no more, so
that the properties can speak of everything else, through any `reopen` (`Answered`).

### MassStorage and DriveOwner

`op` is the method that holds `MSD._lock`, with the next step of the helper it waits for; one
action per kernel-visible change (empty the LUN, losetup, mount, umount, losetup -d, attributes,
fill the LUN, replace or remove an image). `Die` may take the place of any step that can fail:
the helper exits there and undoes nothing. `Crash` is a stop of the service: systemd ends the
helper with it, the kernel state stays. `OpenDownload`/`EndDownload` run outside the lock, as
`FileResponse` does. `UploadRaises` is an import whose upload cannot be read: the method leaves
with the lock and its helper becomes one of the `strays`, which check the name and replace the
image at times of their own (`StrayCheck`, `StrayCommit`). `FreeLoops` may free nothing, since
`losetup -d` is not looked at; so a loop device may be there in any later state, and the drive's
owner is who mounts it, not who has a loop device. `GadgetDown` and `GadgetUp` are the scripts. `meddled` records that
`kvm-gadget-up.sh` filled the LUN while the drive was in use or a method was running; it is
cleared when the LUN is next emptied by the helper. It is an auxiliary variable: no guard
reads it.

`DriveOwner` has only the set of owners: the Pi and the target take the drive when it is free
and release it; `Script` is the exception the scripts make. `MassStorage` implements it under
`owners <- Owners`.

### PowerButton

One record per request in flight with the worker it becomes. A line is named for who drove it
last, so that a release by the wrong worker shows: "pressed" and "on" are one level to a target,
as are "released" and "off". `NoCutShort` is about presses, so it lets a relay request pass, by
name: once the mode has been changed in mid-hold, `RelaySet` may cut a hold short. `RelaySet`, `Press`, `Release` and their
failing forms may or may not reach the line when the tool reports an error or times out.
`Stop` is any end of the service: the workers are daemon threads.

### SerialPort

One device. A `_Port` is a record: the await its drain is at (`drain`), `_stop`, `_reopen_req`
(`reopen`), whether a pool thread reads (`reading`), the holder of `_iolock` (`io`), its handle
(`ser`) and the backlog (`buf`). `registered` and `devLock` are the manager's entry and lock,
`call` is where each caller of `SerialManager.open` and `close` is, `session` where each page's
`ws_serial` is, with its `queue` and `writer`. A chunk is its number. A step is what a coroutine
does between two awaits, so `ReadData` delivers the chunk, looks at `_stop` and `_reopen_req`
and starts the next read (`Turn`), and posts the sentinels if the drain ends there (`Continue`).

| Code | Action |
|---|---|
| `_drain` | `DrainStarts`, `ReadData`, `ReadNothing`, `ReadError` |
| `_reopen` | `ReopenCloses`, `ReopenClosed` (done or 5 s over), `ReopenWaited`, `ReopenOpens`, `ReopenSucceeds`, `ReopenFails` |
| `SerialManager.open` | `OpenReuses`, `OpenMakes`, `OpenReplaces` ... `CallReturns` |
| `SerialManager.close`, `close_all` | `CloseTakes`, `CloseFindsNone` ... `CallReturns` |
| `_Port.close` | `CloseBegins`, `DrainAwaited`, `DrainTimesOut`, `CancelledAwaited`, `HandleClosed`, `HandleAbandoned` |
| `ws_serial` | `Connect`, `Attach`, `AttachTooLate`, `ReaderSends`, `PortClosedSeen`, `Disconnected` |
| `_Port.write` in a session | `WriteStarts`, `WriteEnds`; `Leave` when it is cancelled, `OrphanEnds` when its thread is done |
| `clear`, `reopen_gadget_ports` | `Clear`, `ReopenGadgetPorts` |

Cancelling a coroutine does not stop its pool thread: a cancelled drain may leave a read behind
(`WedgedReadEnds`), a cancelled writer a write (`orphans`). `DrainTimesOut` follows what Python
does at `serialport.py:216-221`: `wait_for` has cancelled the drain before it raises, `await t`
then raises `CancelledError`, which `except Exception` does not catch, so `close` ends there with
its caller and never reaches the handle (`CloseAborts`). An `open` leaves the dead port
registered, and the next `open` replaces it; a `close_all` leaves the other ports open. That the
handle stays open is also what keeps `ReadKeepsHandle` true. `given`, `last` and `missed` are
auxiliary: the newest chunk any session was given, the last one each page was sent, and the
sessions whose queue was full when the sentinel was due. The `reconnect` flag, which any `open`
may change, is a choice in `ReadError`; waiting for a lock is the time before the step that
takes it; a handle counts as closed from the start of `ser.close()`.

### H264Source

| Code | Action |
|---|---|
| `attach` | `Connect`, `Attach` (the lock is free), `Spawned`, `SpawnFails` (or cancelled in it), `AttachTimesOut` (cancelled waiting for the lock) |
| `ws_h264` | `Take`, `Send`, `NoFirstFrame` |
| `detach` | `Detach` (under the lock), `Reaped`, `ReapTimesOut` |
| `_pump`, `_fan` | `Read` with `Fan`, `FfmpegEnds`, `PumpEnds`, `PumpFinishes` (its `finally`, under the lock) |

The lock spans an await only in `attach`, while ffmpeg is being started, so it is `Locked`
exactly while a viewer is `spawning`; every other critical section is one step of the loop.
`ghost` stands for the clients that a failed `attach` leaves in the set: their queues are read
by nobody. A frame is its transcoder and its number, and every `Gop`-th is a key frame. The
property about orphans has to speak of `ghost`; that it does is the finding of `h264_leak`.
`PipeDrained` is the one assumption about time: the pipe of a killed transcoder is empty before
the next one, which takes 1.7 s or more, has a first frame or has ended.

### VideoTap

`take` is two steps, as its await of `fresh` makes it: `TakeBegins` looks at `done`, `TakeWakes`
clears the event and takes the part. The paced handler may then wait for the pool to re-encode it
(`Encoded`), while the pump goes on: the part is the newest when it is taken, not when it is
sent. Which rung of the quality ladder the viewer is on is left out: no step of the tap or of its
handler depends on it beyond that await.

### InputSessions

A task of a connection is its receive loop or its flusher. `Flush` takes the pending motion and
hands the first of its jobs to the pool; `Resumes` hands over the next when that is done. A job
is one step of the worker here, its inside being `HidInput`'s. `Disconnect` is the receive loop
finding the page gone: the flusher is cancelled, which withdraws its job if the worker has not
begun it, and `release_all` is the last job of the connection. Motion is counted in units.

### EventStream and TargetEvents

A page is `building` while `_events_snapshot` reads domain by domain on a pool thread
(`ReadArea`), then `live`: it is sent the replay (`SendReplay`), then its queue (`SendLive`).
The poller reads a domain (`PollReads`) and publishes (`PollPublishes`) in two steps, since the
slow domains are read on a thread too. `picture` is what the page folds from what it is sent,
`sent`, `heard` and `behind` are what the properties need to know of that.

`TargetEvents` translates each function to the events it returns for two samples. They are a set
here: `SemanticAddsUp` also says that no two events of a step contradict each other, so that
their order in the list does not matter. The listener knows only those events and the first sample. What `Shown` leaves out, events do
not tell: a link that goes from configured to addressed or powered, a change of image under an
attached drive, a power target whose state is not known, and the error flag of a port that
leaves the list, which is never cleared. A target that goes from on to unknown and back is
announced on twice. A domain of which a page was sent no event shows what the snapshot read,
which may be a transient the poller never sampled; `FoldIsCurrent` leaves those out.

### Settings

A request in a worker thread reads, writes and restarts, in steps of its own; a selection empties
the file before it writes it, and either may fail (`SelectRefused`, `SelectFails`). `draft` is the
whole file a save will write: the keys it was given over the file as it read it. `pointer` is
emptied before it is written (`SelectEmpties`), and the streamer, restarted by a request or by
systemd at any time, takes the first card of the list when it finds it empty. `raced`, `unapplied`
and `torn` (a selection has emptied the pointer and failed) are auxiliary. The list of cards has
two parsers: the application offers entries with a label and a device anywhere under `/dev/`
(`Offered`), `kvm-ustreamer` plays entries with or without a label whose device is `/dev/video*`
or `/dev/v4l/*` (`Playable`). `ShownIsStreamed` is stated for lists and selections on which they
agree (`Agree`).

### MCService

The six modules share no state, so their interleavings show nothing that one of them alone does
not. `focus` picks the one a behaviour follows; the others stay as they start. The state space
is then the sum of theirs and not the product, and one run covers them.

## 3. Runs

| Run | Instance | Question |
|---|---|---|
| `hid_session` | two keys, a modifier, two buttons, one key slot, moves of up to two reports, relative mouse, host comes and goes | type, latches, releases |
| `hid_bounce` | both verbs, moves, wheel and releases race them, no keys or buttons, no relative mouse | does success mean bound, does the ladder end; descriptors across an unbind; positions of emulated moves; the gate is lifted again |
| `mass_storage` | the drive, a disk and an ISO; helpers that uploads left behind | ownership, read-only ISOs, imports, refinement, lock |
| `power` | two targets, two requests, two tries | pressed lines, overlapping presses, holds end |
| `serial` | one device, two pages, one API caller; two ports, two handles, three chunks, queues of one and a backlog of two | one drain, no replay, the end is announced, no handle closed in use |
| `service` | two viewers, two transcoders of three frames, queues of one; one tap; two operators, one of them with a relative mouse, one key; one page, two domains of two values, ring and queue of two; two ports, two power targets; two requests, two cards | decodable streams, ended viewers, one transcoder, no stuck detach; newest part, no lost wake-up; motion, clicks and releases; gaps, order and folding of events; partial saves, the card that streams |
| `h264_leak` | violation | see findings |
| `serial_write` | violation | see findings |
| `hid_stuck_button` | violation | see findings |
| `hid_unbind` | violation | see findings |
| `msd_shared` | violation | see findings |
| `power_stop` | violation | see findings |

**Bounds.** *Keys*: `MaxKeys` is 1 where the code has six slots, so that two usages already
meet the full array; the code treats all slots alike. Two buttons are needed for a release of
one while another is held; a third would add only symmetric states. `MaxChunks` = 2 is enough
for a stroke that stops half way. In `hid_bounce` nothing is held, because descriptors and the
gate do not depend on it; in `hid_session` no bounce runs, because `Verbs` is empty. Their
interaction, a `reopen` at any step of a report, is in no passing run: with one button it has
millions of states. It is what `LatchHolds` and `ReleaseArrives` are about, which are proved with
all verbs, keys and buttons, and what `hid_stuck_button` looks at from the other side. *Mass storage*: three
images are one of each kind the code tells apart (default, plain, ISO), in any library that
holds the default. *Power*: two requests on the same or different targets give every overlap of
a press with a hold; a third request would be refused or be independent of one of them. `Tries`
is 2 where the code has five: one failure that is retried and one that is the last. *Serial*:
two handles give one re-open or one second port, two pages a delivery to several and a contended
`_iolock`; three chunks overflow a backlog of two (256 KiB in the code), whose order shows, and
a queue of one (2048 in the code). The two pages are interchangeable (SYMMETRY), and the view
leaves out what nobody reads again: flags and backlog of a port whose drain is over, and which
handles abandoned threads still write to (the property about them is checked without the view).
*Service*: two transcoders give the overlap of a killed one with its successor, which is where
end markers and late frames could go to the wrong viewer; a third is as far from the first as
the second is from none, and the proofs cover any number. `Gop` is 2 where the code has 30 and
a queue holds one frame where it holds 30: a full queue, a dump, a frame that is skipped and the
key frame that ends the wait happen within three frames. One operator of each kind of mouse and one key show every order of
two flushes and a release; the motion of each is a unit, since jobs carry sums. Four events
overflow a ring and a queue of two, one page is enough because pages do not see each other, and
two values let an event be overtaken by a later one of its domain. The lists of cards are a blank
one, one both parsers read alike, one with an unlabelled entry and one with an entry that is no
capture node. No run has a state constraint: every state space is finite as it stands and is
explored whole.

**Fairness.** A process or thread that has been started goes on: the helper (each of its retry
loops counts), the bounce thread, the holder of the mass-storage lock, the press and hold
threads (every drive has a 10 s time-out). Nothing is assumed of operators, hosts, downloads,
scripts or the poller, and the HID pool's worker needs no fairness since no property depends
on it. For the transcoder: the viewer that starts ffmpeg gets an answer, a kill takes
effect, and a pump that waits for the lock gets it in the end (`asyncio.Lock` is first come,
first served, hence SF: the lock is free again and again). Nothing is assumed of the time-outs
of `attach` and of the wait for the pump, so `Reaps` shows that the fix described at
`server.py:660-663` works without them. For the tap: the loop runs a handler that can go on.
Viewers, streamer and network owe nothing. `BounceReturn` waits for the helper's end even when the call has timed out: sudo runs as
root, so the service cannot kill it, and `subprocess.run` waits for its child before it raises.

**Deadlock** is checked in every run but `service` and `h264_leak`: there is always a host, an
operator or a request that can move. In those two the bounds (`MaxProcs`, `MaxFrames`, `MaxSeq`)
may be used up with nobody left to move; `NobodyLeftBehind`, `TapWakes` and `Reaps` say who must
not be stuck.

## 4. Findings

Six comments or documents say more than the code does, each with a run in which TLC shows it.

* `app/hid.py:349-350`: "The re-enumeration itself released every button at the host". A bounce
  that is refused by the helper's flock, or dies before it touches the pull-up, disconnects
  nothing; `reopen()` clears `_btn_sent` all the same, and no later release writes to that mouse.
* `app/server.py:1191-1193`: "Release /dev/hidg* BEFORE the UDC unbind ... Reopen after". The
  poller (`server.py:1400`) reopens HID when it sees the link become configured and HID closed, also
  when it is a bounce that has closed it. In TLC's trace a host configures the gadget just as the
  bounce has closed HID; the poller's `reopen` lifts the gate and opens the nodes before the
  helper does anything, and the helper's first act, the unbind that stands in for a pull-up
  toggle that failed, takes them away.
* `app/README.md:28`: "the Pi and target never mount it at once". `pi/kvm-gadget-up.sh:133` fills
  the LUN at every rebuild without looking at the mount.
* `app/power.py:28-30` names SIGKILL as the case in which a hold is not released; the worker is a
  daemon thread (`power.py:229`), so every stop is such a case.
* `app/serialport.py:59-60`: "we never close or swap the pyserial fd from the loop thread while a
  pool thread is using it". `ws_serial` cancels its writer when the session ends
  (`server.py:1708`); that gives `_iolock` back while `ser.write` is still running in the pool,
  and a `close` that waited for the lock closes the handle under it. It takes no broken client:
  closing a port by the API ends the sessions, and with them a paste that is still being sent.
* `app/server.py:632`: "starts ffmpeg with the first viewer, kills it with the last". A client is
  added to the set before ffmpeg is started (`server.py:647`); when that start fails or is cancelled by
  the handler's 8 s, nobody takes it out again (`ghost`), the set is never empty, and ffmpeg runs
  on with no page open.

Five more have no run of their own; the models have the steps, and the properties name them as
their exceptions:

* `app/power.py:207-208`: "active for hold_on_sec (power up) or hold_off_sec (force off), then
  release". `set` asks whether the pin is being held in button mode only (`power.py:201`): once
  the mode is changed to relay in mid-hold, a set(off) ends the hold of a forced power-off early.
* `kvm-msd-helper:160`: "Unmount the Pi-side edit mount and free its loop first". `losetup -d` is
  not looked at (`:165`), and frees one device of an image that may have two: the LUN is filled
  with the loop device still there. The mount is gone by then, or the helper has exited.
* `kvm-msd-helper:190`: "image is attached to the target; eject it first". That is compared before
  the upload. A method that waits for its helper keeps the lock, so nobody attaches the image
  meanwhile; but when reading the upload raises (`app/msd.py:189`), the method ends, and its
  helper, which takes the end of its input for the end of the image, replaces it later.
* `app/server.py:823`: "Index of the source currently streaming". A selection empties the pointer
  file before it writes it (`:855`); when the write fails the streamer goes on with its card and
  the page shows the first one as active.
* `app/server.py:837-838`: "List selectable capture cards for the UI ... + which is live". The list
  is parsed twice, by different rules (`server.py:809-816`, `kvm-ustreamer:21-28`): an entry only
  one of them accepts, standing first or selected, makes the card shown another than the one that
  is played.

The proved and passing forms of the same properties (`NoDescriptorAcrossUnbind`, `LatchCovers`,
`NeverBoth`, `CommitSpares`, `NoCutShort`, `AwaitedWriteKeepsHandle`, `ShownIsStreamed`) say what
remains true: they fail only by way of that poller, what a `reopen` forgot, those scripts, a
helper nobody waits for, a relay request, a write that nobody awaits any more, or a selection that
failed and a list the two parsers read differently.

## 5. Proofs

All theorems hold for every value of the constants that meets the modules' named assumptions
(`VerbsAssumption`, `HidAssumption`, `MsdAssumption`, `PowerAssumption`, `SerialAssumption`,
`SourceAssumption`, `TapAssumption`, `StreamAssumption`, `SettingsAssumption`), which say what the code has: a default image in the library, ISOs that are not the default, at
least one try, queues and buffers that hold something.

* **GadgetHelperProofs** – `HelperTypeCorrect`, `SuccessIsBound`. The inductive invariant
  (`HelperInv`) is the type invariant with: a helper whose exit status is 0 is off, and the
  gadget is bound; it is needed because success is recorded before the host can move again, and
  host moves keep a bound gadget bound.
* **HidInputProofs** – the keys, buttons and verbs are arbitrary throughout.
  * `NoUseAcrossUnbind`. The invariant adds where the helper can run (`HelperInBounce`: only
    inside a bounce that has closed HID) and what the gate then guarantees (`GateShut`: no
    descriptor is open unless `early`). Only those two together make the helper's unbinds
    harmless: type correctness and the property alone are not inductive.
  * `TypeCorrect`, `PositionIsGiven`, and `SuccessIsBoundInCompany`: what the helper guarantees
    alone it still guarantees among the threads, since of the gadget they change nothing but by
    steps of `GadgetHelper` (`GadgetSteps`, the other half of the composition).
  * The latch. `reopen` is written on the assumption that the target has let go of everything,
    which `hid_stuck_button` refutes; the properties therefore say what `reopen` can lose and
    nothing else. `LatchHolds` and `ReleaseArrives` are proved of every behaviour, for a `reopen`
    at any step of a report: what the target shows beyond what the controller knows is in
    `forgot`. The invariant (`Told`) says what is in flight: the report in the worker's hands
    shows what is held on its device, or what a `reopen` has forgotten since, and once it was
    written the target shows no more than it (`ReportInHand`); and of a release, which devices
    it has reached (`Reached`). `SessionsAreReleased` adds that where no verb is run (`Verbs = {}`,
    as in `hid_session`) nothing is ever forgotten, since nothing closes the descriptors (`Calm`).
* **MassStorageProofs** – `TypeCorrect`, `NeverOnBothSides`, `IsosReadOnly`, `MediumSpared`,
  `ImplementsOwner`. The strengthening says, for each step of the helper, what the earlier steps
  have established (after `free` the LUN is empty, after `unmount` the drive is not mounted, at
  `set` the read-only flag fits the image), each unless a script has meddled. Nothing is said of
  the loop device. The refinement maps every action to a `Take`, a `Release`, a `Settle`, a
  `Script` or a stutter; strays and failed uploads are stutters, as they touch neither side.
* **PowerButtonProofs** – `TypeCorrect`, `PressAccounted`, `HoldKept`. The invariant says that a
  thread past its claim has its pin in `holding`, and that no two threads have the same pin;
  that mutual exclusion is what keeps one worker from another's line. `HoldKept` is about the steps
  of presses; relay requests, which ask nobody, may drive a held line.
* **SerialPortProofs** – `TypeCorrect`, `OneDrainAlways`, `AwaitedWriteIsSafe`, `ReadIsSafe`.
  None of these is inductive alone. `SerialInv` adds that a caller past the lock is the only
  one under way and that the registered port is the one it is closing or none (`CallInv`),
  which leaves one drain at a time (`ReachInv`); that no two ports ever have a handle in common
  (`HandleInv`), so that closing one port's handle takes nothing from another; that the drain
  holds `_iolock` while it closes or opens and a session while its write is awaited (`IoInv`);
  and that a drain which may soon read has an open handle (`ReadInv`). A separate small
  invariant, `AnsweredInv`, says that a session that was answered has a port. The steps of a
  drain are first reduced to four kinds by what they do to locks and handles (`DrainEffect`).
  And what pages are shown: `NothingShownTwice`, `BacklogIsTail`, `DeathAnnounced`. `ShownInv`
  follows a chunk on its way: what waits for a page is in the order of the reads, newer than what
  it was shown and no newer than the last chunk given to anybody (`OrderInv`), which holds because
  one drain at a time reads and delivers; the backlog of a live port is the end of what was read,
  all of it newer than what anybody was given, for a backlog is kept only while nobody is
  subscribed (`TailInv`); and queues keep to their size (`RoomInv`).
* **H264SourceProofs** – `SourceTypes`, `NoOrphans`, `NobodyIsLeft`. `Lifecycle` says that the
  registered viewers are those between `attach` and `detach`, that one viewer at a time starts a
  transcoder and only while none is published, and that the published one is the last one
  started: `NoOrphan` needs all three. `NobodyLeftBehind` needs `EndsStay`: once a source is
  withdrawn its viewers have the end marker *and* no older pump can still send, for a frame it
  fanned out could dump the queue that holds the marker.
  And `EverythingDecodes`: a viewer is never sent a frame that builds on one it was not sent, for
  any key frame interval and queue length. `FedInv` says that once a newer transcoder has given a
  frame the older pipes are drained, so frames come from one of them at a time (`OneReads`); that
  each frame of a queue goes on from the one before (`InOrder`); and that a client which is not
  waiting for a key frame has the last frame of whatever may send next (`InStep`).
* **EventStreamProofs** – `EveryEventIsSent`, `FoldsToCurrent`. Two facts are carried for what
  waits for a page and for the ring alike: the numbers (`Ordered`), and that the last event of a
  domain says what was polled last (`Ends`). Lemmas show that appending, sending the head and
  taking the newest `n` keep each of them, which makes the step of the bus a composition.
  `EventsAddUp`, of `TargetEvents`: each pair of samples of a domain is shown to be told right
  (`Faithful`), with a lemma per domain, for any ports and targets: each subject is told one
  thing, what the new sample shows, and one that is not mentioned had been told already.
* **ServiceProofs** – `NewestIsSent` (what was not taken is the newest part), `ActiveStreams`
  (with: a
  request that selects has its card, so the pointer it has emptied is written unless that write
  fails, which `torn` records; and parsers that agree choose the same card, `AgreedCard`), `OmittedStay` (a save that no other has overtaken carries the file's values); and of
  the input sessions `MotionIsKept`, `ClicksLandInPlace` and `NothingHeld`, for any number of
  operators, of either kind of mouse. Their invariant, `SessInv`, says that a task has one job
  in the pool at most and waits for it, which makes the pool the only queue there is; that no
  click stands before an earlier flush of its connection (`Orderly`, `AtWork`); that pending
  motion, jobs and what was applied add up to what came in (`Balanced`); and that a key is held
  only for a connection whose `release_all` is yet to come (`LetGo`).

Every safety property of the passing runs is the subject of a theorem. Only model-checked: liveness (`HelperEnds`, `QuiesceEnds`,
`LockReleased`, `HoldsEnd`, `Reaps`, `TapWakes`), which the provers do not treat.

## 6. Not modelled, and what comes next

Not modelled, with the reason at each component in `PROJECT.json`: login, API keys and rate
limits (sequential checks against the wall clock), the KVM switch (one pulse under one lock, no
state), OCR (a function of an image), the block store (file I/O at fixed offsets), the browser
code, packaging and the kernel patch. The gadget helper is modelled partly: its status and
reboot verbs and the dmesg probe are left out. Inside modelled components: report bytes,
coordinates, file contents, names, hold times, the rate limiter, the schema of the configuration,
re-encoding, the wording of errors. Hazards without a property are listed with the reason in
`PROJECT.json`.

The plan, most important behaviour first:

1. `GadgetHelper`, `HidInput`: the shared descriptors, the oldest source of trouble in the code.
   Done.
2. `MassStorage` over `DriveOwner`. Done.
3. `PowerButton`. Done.
4. Proofs of their invariants and of the refinement. Done.
5. `SerialPort`: drain, reopen, close and write with their locks and time-outs. Done, with proofs.
6. `H264Source`, with proofs of its safety. Done.
7. `EventStream` and `TargetEvents`, with proofs. Done.
8. `InputSessions`, `VideoTap`, `Settings`, with proofs. Done.
9. The latch without a condition on `reopen`; uploads that fail, loop devices that stay, selections
   that fail. Done.
10. Still worth having: properties for the hazards that `PROJECT.json` lists without one, most of
   which need a promise from the code first (a retried key release, an overwritten save, a marked
   gap in the events).
