---------------------------- MODULE MassStorage ----------------------------
(***************************************************************************)
(* The virtual USB drive: MSD, whose methods run one at a time under its   *)
(* lock, and the privileged kvm-msd-helper it starts, one step for every   *)
(* change the kernel sees.  Around them: downloads and helpers that        *)
(* outlive the lock, the gadget scripts, which rewrite the LUN on their    *)
(* own account, and a stop of the service, which kills the helpers too.    *)
(*                                                                         *)
(* `op' is the method that holds the lock: `at' is the next step of it.    *)
(***************************************************************************)
EXTENDS Naturals, FiniteSets

CONSTANTS
    Images,         \* names in the image library
    Default,        \* the editable EFI drive, drive.img
    Isos,           \* the names that end in .iso
    NoMedium,       \* lun.0/file is empty
    NoLun           \* there is no lun.0/file: the gadget is torn down

ASSUME MsdAssumption ==
    /\ Default \in Images
    /\ Isos \subseteq Images \ {Default}
    /\ NoMedium \notin Images /\ NoLun \notin Images /\ NoMedium # NoLun

VARIABLES
    lun, ro,        \* lun.0/file and lun.0/ro
    mounted, loop,  \* the EFI image mounted at /run/kvmmnt; its loop device
    namePtr,        \* /run/kvm/msd-name
    library,        \* the images that exist
    op,
    strays,         \* import helpers whose upload raised: no method waits for them
    reading,        \* a download has a file of the mount open
    meddled         \* kvm-gadget-up.sh filled the LUN while the drive was in use

vars == <<lun, ro, mounted, loop, namePtr, library, op, strays, reading, meddled>>

\* Steps of the helper that can fail; losetup -d and the LUN attributes only warn.
Fallible == {"free", "mount", "unmount", "empty", "set", "start", "commit"}

NoOp == [verb |-> "none", at |-> "idle", img |-> Default]
Verbs == {"none", "detach", "attach", "eject", "import", "delete", "edit"}
Steps == {"idle", "start", "free", "mount", "unmount", "loops", "empty", "attrs", "set",
          "commit", "write"}

\* The EFI drive is never deleted.
Libraries == {L \in SUBSET Images : Default \in L}

\* A helper left behind: what it will do next, and to which image once it has read the name.
Strays == [at : {"start", "commit"}, img : Images]

Attached == lun \in Images

Init ==
    /\ lun \in {Default, NoMedium} /\ ro = FALSE
    /\ mounted = FALSE /\ loop = FALSE
    /\ namePtr = Default
    /\ library \in Libraries
    /\ op = NoOp /\ strays = {} /\ reading = FALSE /\ meddled = FALSE

At(verb, step) == op.verb = verb /\ op.at = step
Goto(step) == op' = [op EXCEPT !.at = step]
Return == op' = NoOp

-----------------------------------------------------------------------------
(* The methods, as they get the lock.                                      *)

Lock(verb, step, img) == op = NoOp /\ op' = [verb |-> verb, at |-> step, img |-> img]

Detach ==
    /\ Lock("detach", "free", Default)
    /\ namePtr' = Default
    /\ UNCHANGED <<lun, ro, mounted, loop, library, strays, reading, meddled>>

\* resolve_active: the image the pointer names if it exists, else the default.
Active == IF namePtr \in library THEN namePtr ELSE Default

Attach ==
    /\ Lock("attach", "unmount", Active)
    /\ UNCHANGED <<lun, ro, mounted, loop, namePtr, library, strays, reading, meddled>>

AttachImage(name) ==
    /\ name \in library
    /\ Lock("attach", "unmount", name)
    /\ namePtr' = name
    /\ UNCHANGED <<lun, ro, mounted, loop, library, strays, reading, meddled>>

Eject ==
    /\ Lock("eject", "free", Default)
    /\ UNCHANGED <<lun, ro, mounted, loop, namePtr, library, strays, reading, meddled>>

\* Slip: the medium of the target is not spared.
ReplaceableUnasked(name) == name # Default

\* Slip: the default drive is not spared.
ReplaceableAny(name) == name # lun

\* The same refusals in the app and again in the helper.
Replaceable(name) == name # Default /\ name # lun

SaveImageUpload(name) ==
    /\ Replaceable(name)
    /\ Lock("import", "start", name)
    /\ namePtr' = name
    /\ UNCHANGED <<lun, ro, mounted, loop, library, strays, reading, meddled>>

DeleteImage(name) ==
    /\ Replaceable(name) /\ name \in library
    /\ Lock("delete", "start", name)
    /\ namePtr' = name
    /\ UNCHANGED <<lun, ro, mounted, loop, library, strays, reading, meddled>>

\* save_upload, delete and mkdir inside the drive.
Edit ==
    /\ mounted
    /\ Lock("edit", "write", Default)
    /\ UNCHANGED <<lun, ro, mounted, loop, namePtr, library, strays, reading, meddled>>

-----------------------------------------------------------------------------
(* The helper's steps.                                                     *)

\* Slip: a drive that is busy on the Pi is waited for.
DieUnlessBusy ==
    /\ op.at \in Fallible \ {"unmount"}
    /\ Return
    /\ UNCHANGED <<lun, ro, mounted, loop, namePtr, library, strays, reading, meddled>>

\* The target does not let go of the medium, the Pi does not of the mount, the LUN is gone,
\* an image is malformed or the disk is full: the helper exits there and undoes nothing.
Die ==
    /\ op.at \in Fallible
    /\ Return
    /\ UNCHANGED <<lun, ro, mounted, loop, namePtr, library, strays, reading, meddled>>

SetLun(path) ==
    /\ lun # NoLun
    /\ lun' = path
    /\ meddled' = (meddled /\ path # NoMedium)

\* Slip: detach mounts the drive without taking it from the target.
FreeLunOnEject ==
    /\ op.at = "free"
    /\ IF Attached /\ op.verb = "eject" THEN SetLun(NoMedium) ELSE UNCHANGED <<lun, meddled>>
    /\ Goto(IF op.verb = "detach" THEN "mount" ELSE "unmount")
    /\ UNCHANGED <<ro, mounted, loop, namePtr, library, strays, reading>>

\* detach and eject take the medium from the target before anything else.
FreeLun ==
    /\ op.at = "free"
    /\ IF Attached THEN SetLun(NoMedium) ELSE UNCHANGED <<lun, meddled>>
    /\ Goto(IF op.verb = "detach" THEN "mount" ELSE "unmount")
    /\ UNCHANGED <<ro, mounted, loop, namePtr, library, strays, reading>>

\* A loop device is made or found, then mounted.  A failed mount gives it back; a missing
\* partition, or a losetup -d that fails as well, leaves it (Die).
MountEdit ==
    /\ op.at = "mount"
    /\ \/ mounted /\ Return /\ UNCHANGED <<mounted, loop>>
       \/ ~mounted /\ ~loop /\ loop' = TRUE /\ UNCHANGED <<mounted, op>>
       \/ ~mounted /\ loop /\ mounted' = TRUE /\ Return /\ UNCHANGED loop
       \/ ~mounted /\ loop /\ loop' = FALSE /\ Return /\ UNCHANGED mounted
    /\ UNCHANGED <<lun, ro, namePtr, library, strays, reading, meddled>>

\* Slip: the result of umount is not looked at.
UnmountEditUnasked ==
    /\ op.at = "unmount"
    /\ mounted' = (mounted /\ reading)
    /\ Goto("loops")
    /\ UNCHANGED <<lun, ro, loop, namePtr, library, strays, reading, meddled>>

\* Refused by the kernel while a file of the drive is open.
UnmountEdit ==
    /\ op.at = "unmount" /\ ~(mounted /\ reading)
    /\ mounted' = FALSE
    /\ Goto("loops")
    /\ UNCHANGED <<lun, ro, loop, namePtr, library, strays, reading, meddled>>

\* losetup -d is not checked, and frees only the first device of an image: the drive may
\* keep a loop device, and the transition goes on.
FreeLoops ==
    /\ op.at = "loops"
    /\ loop' \in {loop, FALSE}
    /\ IF op.verb = "attach" THEN Goto("empty") ELSE Return
    /\ UNCHANGED <<lun, ro, mounted, namePtr, library, strays, reading, meddled>>

\* Slip: the LUN keeps its medium while the attributes are set.
EmptyLunSkipped ==
    /\ op.at = "empty"
    /\ Goto("attrs")
    /\ UNCHANGED <<lun, ro, mounted, loop, namePtr, library, strays, reading, meddled>>

EmptyLun ==
    /\ op.at = "empty"
    /\ SetLun(NoMedium)
    /\ Goto("attrs")
    /\ UNCHANGED <<ro, mounted, loop, namePtr, library, strays, reading>>

\* The kernel takes ro and cdrom only while the LUN has no medium; a refusal is a warning.
SetLunAttrs ==
    /\ op.at = "attrs"
    /\ ro' = IF lun = NoMedium THEN op.img \in Isos ELSE ro
    /\ Goto("set")
    /\ UNCHANGED <<lun, mounted, loop, namePtr, library, strays, reading, meddled>>

GiveLun ==
    /\ op.at = "set"
    /\ SetLun(op.img)
    /\ Return
    /\ UNCHANGED <<ro, mounted, loop, namePtr, library, strays, reading>>

\* import and delete: the checks, then os.replace or os.remove.
CheckName ==
    /\ op.at = "start" /\ Replaceable(op.img)
    /\ Goto("commit")
    /\ UNCHANGED <<lun, ro, mounted, loop, namePtr, library, strays, reading, meddled>>

Commit ==
    /\ op.at = "commit"
    /\ library' = IF op.verb = "import" THEN library \cup {op.img} ELSE library \ {op.img}
    /\ Return
    /\ UNCHANGED <<lun, ro, mounted, loop, namePtr, strays, reading, meddled>>

\* Reading the upload fails (any error but a broken pipe): the method ends at once and its
\* helper, whose input is now closed, is not waited for and not stopped.
UploadRaises ==
    /\ op.verb = "import"
    /\ Return
    /\ strays' = strays \cup {[at |-> op.at, img |-> op.img]}
    /\ UNCHANGED <<lun, ro, mounted, loop, namePtr, library, reading, meddled>>

EndEdit ==
    /\ At("edit", "write")
    /\ Return
    /\ UNCHANGED <<lun, ro, mounted, loop, namePtr, library, strays, reading, meddled>>

-----------------------------------------------------------------------------
(* What runs beside the lock.                                              *)

\* A stray helper does what any import does: it reads the name, which a later method may
\* have written, checks it, and replaces the image by the part that was uploaded.
StrayCheck(h) ==
    /\ h.at = "start" /\ Replaceable(namePtr)
    /\ strays' = (strays \ {h}) \cup {[at |-> "commit", img |-> namePtr]}
    /\ UNCHANGED <<lun, ro, mounted, loop, namePtr, library, op, reading, meddled>>

StrayCommit(h) ==
    /\ h.at = "commit"
    /\ library' = library \cup {h.img}
    /\ strays' = strays \ {h}
    /\ UNCHANGED <<lun, ro, mounted, loop, namePtr, op, reading, meddled>>

StrayDies(h) ==
    /\ strays' = strays \ {h}
    /\ UNCHANGED <<lun, ro, mounted, loop, namePtr, library, op, reading, meddled>>

StrayStep == \E h \in strays : StrayCheck(h) \/ StrayCommit(h) \/ StrayDies(h)

\* resolve_for_download returns a path; the response opens and streams it unlocked.
OpenDownload ==
    /\ mounted /\ ~reading
    /\ reading' = TRUE
    /\ UNCHANGED <<lun, ro, mounted, loop, namePtr, library, op, strays, meddled>>

EndDownload ==
    /\ reading
    /\ reading' = FALSE
    /\ UNCHANGED <<lun, ro, mounted, loop, namePtr, library, op, strays, meddled>>

\* A gadget rebuild: kvm-gadget-down.sh removes the function with its LUN, and
\* kvm-gadget-up.sh makes a new one with the configured image in it.
GadgetDown ==
    /\ lun' = NoLun
    /\ UNCHANGED <<ro, mounted, loop, namePtr, library, op, strays, reading, meddled>>

GadgetUp ==
    /\ lun = NoLun
    /\ lun' \in {Default, NoMedium}
    /\ ro' = FALSE
    /\ meddled' = (meddled \/ op # NoOp \/ (lun' = Default /\ mounted))
    /\ UNCHANGED <<mounted, loop, namePtr, library, op, strays, reading>>

\* The service is stopped or killed by its watchdog; systemd ends the helpers with it.
Crash ==
    /\ op # NoOp \/ reading \/ strays # {}
    /\ Return
    /\ strays' = {} /\ reading' = FALSE
    /\ UNCHANGED <<lun, ro, mounted, loop, namePtr, library, meddled>>

Method ==
    \/ Detach \/ Attach \/ Eject \/ Edit
    \/ \E name \in Images : AttachImage(name) \/ SaveImageUpload(name) \/ DeleteImage(name)

HelperStep ==
    \/ FreeLun \/ MountEdit \/ UnmountEdit \/ FreeLoops \/ EmptyLun \/ SetLunAttrs
    \/ GiveLun \/ CheckName \/ Commit \/ Die

Next ==
    \/ Method \/ HelperStep \/ EndEdit
    \/ UploadRaises \/ StrayStep
    \/ OpenDownload \/ EndDownload
    \/ GadgetDown \/ GadgetUp
    \/ Crash

\* A method that has the lock runs on, and so does the helper it waits for.
Spec == Init /\ [][Next]_vars /\ WF_vars(HelperStep \/ EndEdit)

-----------------------------------------------------------------------------
(* Properties.                                                             *)

TypeOK ==
    /\ lun \in Images \cup {NoMedium, NoLun}
    /\ ro \in BOOLEAN /\ mounted \in BOOLEAN /\ loop \in BOOLEAN
    /\ namePtr \in Images /\ library \in Libraries
    /\ op \in [verb : Verbs, at : Steps, img : Images]
    /\ strays \subseteq Strays
    /\ reading \in BOOLEAN /\ meddled \in BOOLEAN

\* The target never has a medium while the Pi mounts the drive ("Never both", msd.py),
\* whichever step of a transition fails or is the last before a crash, and although a loop
\* device of an earlier transition may still be there, unless the gadget scripts put the
\* medium there.
NeverBoth == Attached /\ mounted => meddled

\* An ISO in the LUN is read-only at the target, unless the scripts filled the LUN while
\* the helper was changing it.
IsoReadOnly == lun \in Isos => ro \/ meddled

\* No import replaces and no delete removes the medium of the target, however long the
\* upload took since the name was checked, as long as the method waits for its helper: a
\* stray's image may have been attached since.
CommitSpares == op.at = "commit" => lun # op.img

\* No method holds the lock for ever: also not when the target or a download keeps the
\* drive busy.
LockReleased == (op # NoOp) ~> (op = NoOp)

\* "The Pi and target never mount it at once" (app/README.md).
NeverMountedAtOnce == ~(mounted /\ lun = Default)

\* The transitions hand the drive over the way DriveOwner says: it is free in between.
Owners == (IF mounted THEN {"pi"} ELSE {}) \cup (IF Attached THEN {"target"} ELSE {})

Owner == INSTANCE DriveOwner WITH owners <- Owners

HandsOver == Owner!OwnerSpec

=============================================================================
