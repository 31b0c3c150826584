---------------------------- MODULE HidInputProofs ----------------------------
(***************************************************************************)
(* HidInput for every set of keys, buttons, devices and verbs: what the    *)
(* helper guarantees it still guarantees here, the types, the quiesce gate *)
(* and the buttons the controller believes it has sent.                    *)
(***************************************************************************)
EXTENDS HidInput, GadgetHelperProofs, FiniteSetTheorems

-----------------------------------------------------------------------------
(* The helper and the host in company.  Of the gadget, the threads of      *)
(* HidInput change nothing but by steps of GadgetHelper.                   *)

LEMMA GadgetSteps == [Next]_vars => [GadgetNext]_gadgetVars
<1> SUFFICES ASSUME [Next]_vars PROVE [GadgetNext]_gadgetVars
  OBVIOUS
<1>1. CASE Input \/ Worker \/ PollerSample \/ Udev \/ UNCHANGED vars
  BY <1>1
     DEF Input, Key, MoveAbs, MoveRel, Button, Wheel, ReleaseAll, Begin, Worker, Compose, Write,
         Latch, Finish, PollerReopen, PoolResume, PoolRetry, PollerSample, Udev, vars
<1>2. CASE BounceThread
  BY <1>2 DEF BounceThread, BounceClose, BounceRun, BounceReturn, BounceResume, BounceRetry,
              GadgetNext
<1>3. CASE HelperMoves \/ HostMoves
  BY <1>3 DEF HelperMoves, HostMoves, GadgetNext
<1> QED BY <1>1, <1>2, <1>3 DEF Next

LEMMA HelperInvHere == Spec => []HelperInv
<1>1. Init => GadgetInit
  BY DEF Init
<1> QED BY <1>1, GadgetSteps, HelperInductive, PTL DEF Spec

\* With the bounce as its only caller, and input, poller and host beside it, the helper still
\* reports success only of a gadget that is bound.
THEOREM SuccessIsBoundInCompany == Spec => []SuccessMeansBound
<1>1. HelperInv => SuccessMeansBound
  BY DEF HelperInv
<1> QED BY HelperInvHere, <1>1, PTL

-----------------------------------------------------------------------------
(* The gate.  While a bounce is between close() and its reopen(), no       *)
(* descriptor is open, unless some other reopen() came in between          *)
(* (`early'); the helper only runs inside that window.                     *)

FdType == fd \in [Devices -> {"none", "live", "stale"}] /\ early \in BOOLEAN

\* Only a bounce runs the helper, and it waits for it.
HelperInBounce == Running => bounce = "helper"

GateShut == Quiesced /\ ~early => suspended /\ \A d \in Devices : fd[d] = "none"

IInv ==
    /\ FdType
    /\ HelperInBounce
    /\ GateShut
    /\ NoDescriptorAcrossUnbind

LEMMA InitIInv == Init => IInv
<1> SUFFICES ASSUME Init PROVE IInv
  OBVIOUS
<1>1. fd \in [Devices -> {"none", "live"}] /\ early = FALSE
  BY DEF Init
<1>2. ~Running /\ bounce = "idle"
  BY DEF Init, GadgetInit, Running
<1> QED
  BY <1>1, <1>2
     DEF IInv, FdType, HelperInBounce, GateShut, NoDescriptorAcrossUnbind, Quiesced

LEMMA OpenType == \A d : Open(d) \in {"none", "live"}
  BY DEF Open

LEMMA HelperRunning == HelperStep => Running
  BY DEF HelperStep, Running, Unusable, SoftConnect, UnbindFallback, AlreadyUnbound, Rebind,
         Fallback, AwaitBound, LinkedUp, StillDown, UdcUnbind, UdcRebind, Rebuild,
         BuildGadget, NoDriver, Reprobe, Reattach, Restore

(* Actions that leave the descriptors, the gate, the bounce and the helper alone. *)
LEMMA Untouched ==
  ASSUME IInv, UNCHANGED <<gadgetVars, fd, suspended, bounce, early>>
  PROVE  IInv'
  BY DEF IInv, FdType, HelperInBounce, GateShut, NoDescriptorAcrossUnbind, Running, Quiesced,
         gadgetVars

(* The three ways to open a descriptor: the first section of a reopen(), a round of its   *)
(* retry loop, a write.  None makes one stale, and none goes unnoticed inside the window. *)
LEMMA OpensKeep ==
  ASSUME IInv, UNCHANGED <<gadgetVars, bounce>>, FdType',
         \A d \in Devices : fd'[d] = "stale" => fd[d] = "stale",
         early => early',
         Quiesced /\ ~early' => UNCHANGED <<fd, suspended>>
  PROVE  IInv'
<1>1. (Running' <=> Running) /\ (Quiesced' <=> Quiesced)
  BY DEF gadgetVars, Running, Quiesced
<1>2. HelperInBounce'
  BY <1>1 DEF IInv, HelperInBounce
<1>3. GateShut'
  BY <1>1 DEF IInv, GateShut
<1>4. NoDescriptorAcrossUnbind'
  BY DEF IInv, NoDescriptorAcrossUnbind
<1> QED BY <1>2, <1>3, <1>4 DEF IInv

LEMMA WriteType ==
  ASSUME FdType, NEW d \in Devices, NEW out \in WriteOutcomes(d)
  PROVE  /\ out.f \in {"none", "live", "stale"}
         /\ out.f = "stale" => fd[d] = "stale"
         /\ suspended => out.f = fd[d]
  BY OpenType DEF FdType, WriteOutcomes, TryWrite

\* A report without a device would write nothing: no type of the report is needed.
LEMMA WriteKeeps ==
  ASSUME IInv, Write
  PROVE  IInv'
<1>0. FdType /\ GateShut
  BY DEF IInv
<1>1. PICK out \in WriteOutcomes(report.dev) : fd' = [fd EXCEPT ![report.dev] = out.f]
  BY DEF Write
<1>2. UNCHANGED <<gadgetVars, bounce, suspended, early>>
  BY DEF Write
<1>3. CASE report.dev \in Devices
  <2>1. FdType' /\ \A d \in Devices : fd'[d] = "stale" => fd[d] = "stale"
    BY <1>0, <1>1, <1>2, <1>3, WriteType DEF FdType
  <2>2. suspended => fd' = fd
    BY <1>0, <1>1, <1>3, WriteType DEF FdType
  <2>3. Quiesced /\ ~early' => UNCHANGED <<fd, suspended>>
    BY <1>0, <1>2, <2>2 DEF GateShut
  <2> QED BY <1>2, <2>1, <2>3, OpensKeep
<1>4. CASE report.dev \notin Devices
  <2>1. fd' = fd
    BY <1>0, <1>1, <1>4 DEF FdType
  <2> QED BY <1>2, <2>1, Untouched
<1> QED BY <1>3, <1>4

LEMMA ResumeKeeps ==
  ASSUME IInv, Resume, UNCHANGED gadgetVars,
         bounce' = bounce \/ (bounce = "reopen" /\ bounce' = "retry")
  PROVE  IInv'
<1>0. FdType /\ HelperInBounce /\ GateShut
  BY DEF IInv
<1>1. fd' = [d \in Devices |-> "none"] /\ early' = (early \/ Quiesced)
  BY DEF Resume
<1>2. Quiesced' <=> Quiesced
  BY DEF Quiesced
<1>3. FdType'
  BY <1>0, <1>1 DEF FdType, Quiesced
<1>4. HelperInBounce'
  BY <1>0 DEF HelperInBounce, Running, gadgetVars
<1>5. GateShut'
  BY <1>1, <1>2 DEF GateShut
<1>6. NoDescriptorAcrossUnbind'
  BY <1>1 DEF NoDescriptorAcrossUnbind
<1> QED BY <1>3, <1>4, <1>5, <1>6 DEF IInv

LEMMA OpenRoundKeeps ==
  ASSUME IInv, OpenRound, UNCHANGED <<gadgetVars, suspended>>,
         bounce' = bounce \/ (bounce = "retry" /\ bounce' \in {"retry", "idle"})
  PROVE  IInv'
<1>0. FdType /\ HelperInBounce /\ GateShut /\ NoDescriptorAcrossUnbind
  BY DEF IInv
<1>1. /\ fd' = [d \in Devices |-> IF fd[d] = "none" THEN Open(d) ELSE fd[d]]
      /\ early' = (early \/ (Quiesced /\ fd' # fd))
  BY DEF OpenRound
<1>2. Quiesced' <=> Quiesced
  BY DEF Quiesced
<1>3. FdType'
  BY <1>0, <1>1, OpenType DEF FdType
<1>4. HelperInBounce'
  BY <1>0 DEF HelperInBounce, Running, gadgetVars
<1>5. GateShut'
  BY <1>0, <1>1, <1>2 DEF GateShut
<1>6. NoDescriptorAcrossUnbind'
  BY <1>0, <1>1, OpenType DEF NoDescriptorAcrossUnbind
<1> QED BY <1>3, <1>4, <1>5, <1>6 DEF IInv

-----------------------------------------------------------------------------
(* The bounce, the helper and the host.                                    *)

LEMMA BounceKeeps ==
  ASSUME IInv, BounceThread
  PROVE  IInv'
<1>0. FdType /\ HelperInBounce /\ GateShut /\ NoDescriptorAcrossUnbind
  BY DEF IInv
<1>1. CASE BounceClose
  <2>1. fd' = [d \in Devices |-> "none"] /\ suspended' /\ early' = FALSE /\ ~Running'
    BY <1>0, <1>1 DEF BounceClose, HelperInBounce, Running, gadgetVars
  <2> QED
    BY <2>1 DEF IInv, FdType, HelperInBounce, GateShut, NoDescriptorAcrossUnbind
<1>2. CASE BounceRun
  <2>1. /\ UNCHANGED <<fd, suspended, early>>
        /\ bounce = "closed" /\ bounce' = "helper"
    BY <1>2 DEF BounceRun, ghosts
  <2> QED
    BY <1>0, <2>1
       DEF IInv, FdType, HelperInBounce, GateShut, NoDescriptorAcrossUnbind, Quiesced
<1>3. CASE BounceReturn
  <2>1. UNCHANGED <<gadgetVars, fd, suspended, early>> /\ bounce' = "reopen" /\ ~Running
    BY <1>3 DEF BounceReturn, ghosts
  <2>2. ~Running' /\ ~Quiesced'
    BY <2>1 DEF Running, Quiesced, gadgetVars
  <2> QED
    BY <1>0, <2>1, <2>2
       DEF IInv, FdType, HelperInBounce, GateShut, NoDescriptorAcrossUnbind
<1>4. CASE BounceResume
  BY <1>4, ResumeKeeps DEF BounceResume
<1>5. CASE BounceRetry
  BY <1>5, OpenRoundKeeps DEF BounceRetry
<1> QED BY <1>1, <1>2, <1>3, <1>4, <1>5 DEF BounceThread

\* An unbind happens under a running helper, so under a shut gate.
LEMMA GadgetKeeps ==
  ASSUME IInv, HelperMoves \/ HostMoves
  PROVE  IInv'
<1>0. FdType /\ HelperInBounce /\ GateShut /\ NoDescriptorAcrossUnbind
  BY DEF IInv
<1>1. /\ fd' = [d \in Devices |-> IF fd[d] = "live" /\ ~Bound' THEN "stale" ELSE fd[d]]
      /\ UNCHANGED <<suspended, bounce, early>>
  BY DEF HelperMoves, HostMoves, GadgetEffects, ghosts
<1>2. Quiesced' <=> Quiesced
  BY <1>1 DEF Quiesced
<1>3. FdType'
  BY <1>0, <1>1 DEF FdType
<1>4. CASE HelperMoves
  <2>1. bounce = "helper" /\ Quiesced
    BY <1>0, <1>4, HelperRunning DEF HelperMoves, HelperInBounce, Quiesced
  <2>2. HelperInBounce'
    BY <1>1, <2>1 DEF HelperInBounce
  <2>3. ~early => \A d \in Devices : fd'[d] = "none"
    BY <1>0, <1>1, <2>1 DEF GateShut
  <2>4. GateShut' /\ NoDescriptorAcrossUnbind'
    BY <1>0, <1>1, <2>1, <2>3 DEF GateShut, NoDescriptorAcrossUnbind
  <2> QED BY <1>3, <2>2, <2>4 DEF IInv
<1>5. CASE HostMoves
  <2>1. UNCHANGED helper /\ Bound'
    BY <1>5 DEF HostMoves, HostStep, Enumerate, Disconnect, Bound
  <2>2. fd' = fd
    BY <1>0, <1>1, <2>1 DEF FdType
  <2> QED
    BY <1>0, <1>1, <1>2, <1>3, <2>1, <2>2
       DEF IInv, HelperInBounce, GateShut, NoDescriptorAcrossUnbind, Running
<1> QED BY <1>4, <1>5

LEMMA InputKeeps ==
  ASSUME IInv, Input \/ Compose \/ Latch \/ Finish \/ PollerReopen \/ PollerSample \/ Udev
                 \/ UNCHANGED vars
  PROVE  IInv'
<1>1. UNCHANGED <<gadgetVars, fd, suspended, bounce, early>>
  BY DEF Input, Key, MoveAbs, MoveRel, Button, Wheel, ReleaseAll, Begin, Compose, Latch,
         Finish, PollerReopen, PollerSample, Udev, vars, ghosts
<1> QED BY <1>1, Untouched

LEMMA Inductive == Spec => []IInv
<1>1. ASSUME IInv, [Next]_vars PROVE IInv'
  <2>1. CASE Worker
    <3>1. CASE PoolResume
      BY <1>1, <3>1, ResumeKeeps DEF PoolResume
    <3>2. CASE PoolRetry
      BY <1>1, <3>2, OpenRoundKeeps DEF PoolRetry
    <3> QED BY <1>1, <2>1, <3>1, <3>2, WriteKeeps, InputKeeps DEF Worker
  <2>2. CASE ~Worker
    BY <1>1, <2>2, InputKeeps, BounceKeeps, GadgetKeeps DEF Next
  <2> QED BY <2>1, <2>2
<1>2. IInv /\ [Next]_vars => IInv'
  BY <1>1
<1> QED BY InitIInv, <1>2, PTL DEF Spec

\* No unbind of the gadget takes a node away under a descriptor that close() and the quiesce
\* gate left open, for any devices, keys and buttons and any order of input, poller, bounce,
\* helper and host: only another reopen() inside the window can.
THEOREM NoUseAcrossUnbind == Spec => []NoDescriptorAcrossUnbind
<1>1. IInv => NoDescriptorAcrossUnbind
  BY DEF IInv
<1> QED BY Inductive, <1>1, PTL

-----------------------------------------------------------------------------
(* The types, and the position the pointer may only have been given.       *)

Jobs == [op : Ops \cup {"idle"}, todo : Seq(JobSteps), lost : BOOLEAN]
Shown == Usages \cup Modifiers \cup Buttons
Reports == [dev : Devices \cup {"none"}, shows : SUBSET Shown, sent : BOOLEAN]

HeldType ==
    /\ mods \subseteq Modifiers /\ keys \subseteq Usages
    /\ btn \subseteq Buttons /\ btnSent \in [Mice -> SUBSET Buttons]

\* The array of a keyboard report is never overfull.
SlotsFit == IsFiniteSet(keys) /\ Cardinality(keys) <= MaxKeys

PlaceType ==
    /\ suspended \in BOOLEAN /\ ready \in BOOLEAN
    /\ posKnown \in BOOLEAN /\ mmode \in {"abs", "rel"}
    /\ bounce \in {"idle", "closed", "helper", "reopen", "retry"}
    /\ poll \in {"idle", "queued"} /\ wasConfigured \in BOOLEAN

WorkType == job \in Jobs /\ report \in Reports

HostType == host \in [Devices -> SUBSET Shown] /\ forgot \in [Devices -> SUBSET Shown]

\* A job that moves the pointer by position, and a report that would, have been given one.
PositionGiven ==
    /\ NoInventedPosition
    /\ (\E i \in DOMAIN job.todo : job.todo[i] = "abs") => posKnown

Types == HeldType /\ SlotsFit /\ PlaceType /\ WorkType /\ HostType /\ PositionGiven

LEMMA JobsMember ==
  ASSUME NEW op \in Ops \cup {"idle"}, NEW todo \in Seq(JobSteps), NEW lost \in BOOLEAN
  PROVE  [op |-> op, todo |-> todo, lost |-> lost] \in Jobs
  BY DEF Jobs

LEMMA JobFields ==
  ASSUME NEW j \in Jobs
  PROVE  /\ j.op \in Ops \cup {"idle"} /\ j.todo \in Seq(JobSteps) /\ j.lost \in BOOLEAN
         /\ j = [op |-> j.op, todo |-> j.todo, lost |-> j.lost]
  BY DEF Jobs

\* What the steps of a job make of it.
LEMMA JobUpdates ==
  ASSUME NEW j \in Jobs, NEW lost \in BOOLEAN
  PROVE  /\ [j EXCEPT !.todo = <<>>] \in Jobs
         /\ [j EXCEPT !.lost = lost, !.todo = <<>>] \in Jobs
         /\ j.todo # <<>> =>
              /\ Head(j.todo) \in JobSteps
              /\ [j EXCEPT !.todo = Tail(@)] \in Jobs
              /\ [j EXCEPT !.todo = Tail(@), !.lost = lost] \in Jobs
              /\ [j EXCEPT !.lost = lost, !.todo = Tail(@)] \in Jobs
<1>1. /\ j = [op |-> j.op, todo |-> j.todo, lost |-> j.lost]
      /\ j.op \in Ops \cup {"idle"} /\ j.todo \in Seq(JobSteps) /\ j.lost \in BOOLEAN
  BY JobFields
<1>2. ASSUME j.todo # <<>> PROVE Head(j.todo) \in JobSteps /\ Tail(j.todo) \in Seq(JobSteps)
  BY <1>1, <1>2
<1>4. <<>> \in Seq(JobSteps)
  OBVIOUS
<1>5. ASSUME NEW todo \in Seq(JobSteps)
      PROVE  /\ [j EXCEPT !.todo = todo] \in Jobs
             /\ [j EXCEPT !.todo = todo, !.lost = lost] \in Jobs
             /\ [j EXCEPT !.lost = lost, !.todo = todo] \in Jobs
  <2>1. [j EXCEPT !.todo = todo] \in Jobs
    BY DEF Jobs
  <2>2. [j EXCEPT !.todo = todo, !.lost = lost] \in Jobs
    BY DEF Jobs
  <2>3. [j EXCEPT !.lost = lost, !.todo = todo] \in Jobs
    BY DEF Jobs
  <2> QED BY <2>1, <2>2, <2>3
<1> QED BY <1>2, <1>4, <1>5

LEMMA ReportsMember ==
  ASSUME NEW d \in Devices \cup {"none"}, NEW shows \in SUBSET Shown, NEW sent \in BOOLEAN
  PROVE  [dev |-> d, shows |-> shows, sent |-> sent] \in Reports
  BY DEF Reports

LEMMA NothingInHand == NoReport \in Reports /\ NoJob \in Jobs
  BY DEF NoReport, NoJob, Reports, Jobs

LEMMA InitTypes == Init => Types
<1> SUFFICES ASSUME Init PROVE Types
  OBVIOUS
<1>1. HeldType /\ PlaceType /\ HostType
  BY DEF Init, HeldType, PlaceType, HostType, Mice, NothingHeld
<1>2. SlotsFit
  BY FS_EmptySet, HidAssumption DEF Init, SlotsFit
<1>3. WorkType
  BY NothingInHand DEF Init, WorkType
<1>4. PositionGiven
  BY DEF Init, PositionGiven, NoInventedPosition, NoJob, NoReport
<1> QED BY <1>1, <1>2, <1>3, <1>4 DEF Types

-----------------------------------------------------------------------------
(* Which actions change the held state, the job, the report, the host.     *)

LEMMA HeldSteps ==
  ASSUME [Next]_vars
  PROVE  \/ UNCHANGED held
         \/ \E code \in Usages \cup Modifiers, down \in BOOLEAN : Key(code, down)
         \/ \E b \in Buttons, down \in BOOLEAN : Button(b, down)
         \/ ReleaseAll \/ Latch \/ Resume
<1>1. CASE Input
  BY <1>1 DEF Input, MoveAbs, MoveRel, Wheel
<1>2. CASE Worker
  BY <1>2 DEF Worker, Compose, Write, Finish, PollerReopen, PoolResume, PoolRetry
<1>3. CASE BounceThread
  BY <1>3 DEF BounceThread, BounceClose, BounceRun, BounceReturn, BounceResume, BounceRetry
<1>4. CASE PollerSample \/ HelperMoves \/ HostMoves \/ Udev \/ UNCHANGED vars
  BY <1>4 DEF PollerSample, HelperMoves, HostMoves, GadgetEffects, Udev, vars
<1> QED BY <1>1, <1>2, <1>3, <1>4 DEF Next

\* The worker takes on a job.
Begins == \E op \in Ops, todo \in Seq(JobSteps) : Begin(op, todo)

LEMMA BeginsWith ==
  ASSUME NEW op \in Ops, NEW todo \in Seq(JobSteps), Begin(op, todo)
  PROVE  Begins
  BY DEF Begins

LEMMA JobLists ==
  /\ {<<"kbd">>, <<"abs">>, <<"buttons">>, <<"buttons", "buttons">>, <<"reopen", "retry">>,
      <<"buttons", "syncRel", "syncAbs">>, <<"kbd", "syncRel", "syncAbs">>}
        \subseteq Seq(JobSteps)
  /\ \A chunks \in 1..MaxChunks : [i \in 1..chunks |-> "rel"] \in Seq(JobSteps)
<1> USE DEF JobSteps
<1>1. \A chunks \in 1..MaxChunks : [i \in 1..chunks |-> "rel"] \in Seq(JobSteps)
  BY HidAssumption
<1>2. /\ <<"kbd">> \in Seq(JobSteps) /\ <<"abs">> \in Seq(JobSteps)
      /\ <<"buttons">> \in Seq(JobSteps) /\ <<"buttons", "buttons">> \in Seq(JobSteps)
      /\ <<"reopen", "retry">> \in Seq(JobSteps)
      /\ <<"buttons", "syncRel", "syncAbs">> \in Seq(JobSteps)
      /\ <<"kbd", "syncRel", "syncAbs">> \in Seq(JobSteps)
  OBVIOUS
<1> QED BY <1>1, <1>2

LEMMA InputBegins == Input \/ PollerReopen => Begins
<1>1. ASSUME NEW code, NEW down, Key(code, down) PROVE Begins
  BY <1>1, JobLists, BeginsWith DEF Key, Ops
<1>2. CASE MoveAbs \/ Wheel \/ ReleaseAll \/ PollerReopen
  BY <1>2, JobLists, BeginsWith DEF MoveAbs, Wheel, ReleaseAll, PollerReopen, Ops
<1>3. ASSUME NEW chunks \in 1..MaxChunks, MoveRel(chunks) PROVE Begins
  BY <1>3, JobLists, BeginsWith DEF MoveRel, Ops
<1>4. ASSUME NEW b, NEW down, Button(b, down) PROVE Begins
  BY <1>4, JobLists, BeginsWith DEF Button, Ops
<1> QED BY <1>1, <1>2, <1>3, <1>4 DEF Input

LEMMA WorkSteps ==
  ASSUME [Next]_vars
  PROVE  \/ UNCHANGED worker
         \/ Begins \/ Compose \/ Write \/ Latch \/ Finish \/ PoolResume \/ PoolRetry
<1>1. CASE BounceThread
  BY <1>1 DEF BounceThread, BounceClose, BounceRun, BounceReturn, BounceResume, BounceRetry
<1>2. CASE PollerSample \/ HelperMoves \/ HostMoves \/ Udev \/ UNCHANGED vars
  BY <1>2 DEF PollerSample, HelperMoves, HostMoves, GadgetEffects, Udev, vars
<1> QED BY <1>1, <1>2, InputBegins DEF Next, Worker

LEMMA HostSteps2 ==
  ASSUME [Next]_vars
  PROVE  host' = host \/ host' = NothingHeld \/ Write
<1>1. CASE Input \/ PollerReopen
  BY <1>1, InputBegins DEF Begins, Begin
<1>2. CASE Worker /\ ~PollerReopen
  BY <1>2 DEF Worker, Compose, Latch, Finish, PoolResume, PoolRetry
<1>3. CASE BounceThread
  BY <1>3 DEF BounceThread, BounceClose, BounceRun, BounceReturn, BounceResume, BounceRetry
<1>4. CASE PollerSample \/ HelperMoves \/ HostMoves \/ Udev \/ UNCHANGED vars
  BY <1>4 DEF PollerSample, HelperMoves, HostMoves, GadgetEffects, Udev, vars
<1> QED BY <1>1, <1>2, <1>3, <1>4 DEF Next

LEMMA ForgotSteps ==
  ASSUME [Next]_vars
  PROVE  UNCHANGED forgot \/ Write \/ (Resume /\ UNCHANGED <<host, report>>)
<1> USE DEF ghosts
<1>1. CASE Input \/ PollerReopen
  BY <1>1, InputBegins DEF Begins, Begin
<1>2. CASE Worker /\ ~PollerReopen
  BY <1>2 DEF Worker, Compose, Latch, Finish, PoolResume, PoolRetry
<1>3. CASE BounceThread
  BY <1>3 DEF BounceThread, BounceClose, BounceRun, BounceReturn, BounceResume, BounceRetry,
              worker
<1>4. CASE PollerSample \/ HelperMoves \/ HostMoves \/ Udev \/ UNCHANGED vars
  BY <1>4 DEF PollerSample, HelperMoves, HostMoves, GadgetEffects, Udev, vars
<1> QED BY <1>1, <1>2, <1>3, <1>4 DEF Next

-----------------------------------------------------------------------------
(* Every step keeps the types.                                             *)

LEMMA HeldKept ==
  ASSUME Types, [Next]_vars
  PROVE  HeldType' /\ SlotsFit'
<1>0. HeldType /\ SlotsFit
  BY DEF Types
<1> USE DEF HeldType, SlotsFit
<1>1. CASE UNCHANGED held
  BY <1>0, <1>1 DEF held
<1>2. ASSUME NEW code \in Usages \cup Modifiers, NEW down \in BOOLEAN, Key(code, down)
      PROVE  HeldType' /\ SlotsFit'
  <2>1. UNCHANGED <<btn, btnSent>>
    BY <1>2 DEF Key
  <2>2. mods' \subseteq Modifiers /\ keys' \subseteq Usages
    BY <1>0, <1>2 DEF Key
  <2>3. keys' = keys \/ keys' = keys \ {code}
        \/ (Cardinality(keys) < MaxKeys /\ keys' = keys \cup {code})
    BY <1>2 DEF Key
  <2>4. IsFiniteSet(keys') /\ Cardinality(keys') <= MaxKeys
    <3>1. Cardinality(keys) \in Nat
      BY <1>0, FS_CardinalityType
    <3>2. CASE keys' = keys \ {code}
      <4>1. /\ IsFiniteSet(keys \ {code})
            /\ Cardinality(keys \ {code}) \in {Cardinality(keys), Cardinality(keys) - 1}
        BY <1>0, FS_RemoveElement
      <4> QED BY <1>0, <3>1, <3>2, <4>1, HidAssumption
    <3>3. CASE Cardinality(keys) < MaxKeys /\ keys' = keys \cup {code}
      <4>1. /\ IsFiniteSet(keys \cup {code})
            /\ Cardinality(keys \cup {code}) \in {Cardinality(keys), Cardinality(keys) + 1}
        BY <1>0, FS_AddElement
      <4> QED BY <1>0, <3>1, <3>3, <4>1, HidAssumption
    <3> QED BY <1>0, <2>3, <3>2, <3>3
  <2> QED BY <1>0, <2>1, <2>2, <2>4
<1>3. ASSUME NEW b \in Buttons, NEW down \in BOOLEAN, Button(b, down)
      PROVE  HeldType' /\ SlotsFit'
  BY <1>0, <1>3 DEF Button
<1>4. CASE ReleaseAll
  BY <1>0, <1>4, FS_EmptySet, HidAssumption DEF ReleaseAll
<1>5. CASE Latch
  BY <1>0, <1>5 DEF Latch
<1>6. CASE Resume
  BY <1>0, <1>6, FS_EmptySet, HidAssumption DEF Resume
<1> QED BY <1>1, <1>2, <1>3, <1>4, <1>5, <1>6, HeldSteps

LEMMA PlaceKept ==
  ASSUME Types, [Next]_vars
  PROVE  PlaceType' /\ (posKnown => posKnown')
<1>0. PlaceType
  BY DEF Types
<1> USE DEF PlaceType
<1>1. CASE Input
  BY <1>0, <1>1 DEF Input, Key, MoveAbs, MoveRel, Button, Wheel, ReleaseAll, Begin, pointer,
                    poller
<1>2. CASE Worker
  <2>1. CASE Compose \/ Write \/ Latch \/ Finish
    BY <1>0, <2>1 DEF Compose, Write, Latch, Finish, pointer, poller
  <2>2. CASE PollerReopen \/ PoolResume \/ PoolRetry
    BY <1>0, <2>2 DEF PollerReopen, Begin, PoolResume, PoolRetry, Resume, pointer, poller
  <2> QED BY <1>2, <2>1, <2>2 DEF Worker
<1>3. CASE BounceThread
  BY <1>0, <1>3 DEF BounceThread, BounceClose, BounceRun, BounceReturn, BounceResume,
                    BounceRetry, Resume, pointer, poller
<1>4. CASE PollerSample \/ Udev \/ UNCHANGED vars
  BY <1>0, <1>4 DEF PollerSample, Udev, vars, pointer, poller
<1>5. CASE HelperMoves \/ HostMoves
  BY <1>0, <1>5 DEF HelperMoves, HostMoves, GadgetEffects, Bound, pointer, poller
<1> QED BY <1>1, <1>2, <1>3, <1>4, <1>5 DEF Next

LEMMA ShowsType ==
  ASSUME HeldType, NEW d
  PROVE  Shows(d) \in SUBSET Shown
  BY DEF HeldType, Shows, Shown

LEMMA DeviceType ==
  ASSUME NEW step \in JobSteps \ {"reopen", "retry"}
  PROVE  Device(step) \in Devices \cup {"none"}
  BY DEF JobSteps, Device, ButtonDevice, Devices, Mice

LEMMA WorkKept ==
  ASSUME Types, [Next]_vars
  PROVE  WorkType'
<1>0. HeldType /\ job \in Jobs /\ report \in Reports
  BY DEF Types, WorkType
<1>1. CASE UNCHANGED worker
  BY <1>0, <1>1 DEF worker, WorkType
<1>2. CASE Begins
  BY <1>0, <1>2, JobsMember DEF Begins, Begin, WorkType
<1>3. CASE Compose
  <2>1. Head(job.todo) \in JobSteps \ {"reopen", "retry"}
    BY <1>0, <1>3, JobUpdates DEF Compose, HasStep
  <2>2. CASE Device(Head(job.todo)) = "none"
    <3>1. (job.lost \/ Head(job.todo) = "buttons") \in BOOLEAN
      BY <1>0, JobFields
    <3>2. job' = [job EXCEPT !.todo = Tail(@),
                             !.lost = job.lost \/ Head(job.todo) = "buttons"]
      BY <1>3, <2>2 DEF Compose
    <3> QED BY <1>0, <1>3, <2>2, <3>1, <3>2, JobUpdates DEF Compose, HasStep, WorkType
  <2>3. CASE Device(Head(job.todo)) # "none"
    <3>1. report' = [dev |-> Device(Head(job.todo)),
                     shows |-> Shows(Device(Head(job.todo))), sent |-> FALSE]
          /\ job' = job
      BY <1>3, <2>3 DEF Compose
    <3> QED BY <1>0, <2>1, <3>1, DeviceType, ShowsType, ReportsMember DEF WorkType
  <2> QED BY <2>2, <2>3
<1>4. CASE Write
  <2>1. CASE job' = job /\ report' = [report EXCEPT !.sent = TRUE]
    BY <1>0, <2>1 DEF Reports, WorkType
  <2>2. CASE job' = Undelivered /\ report' = NoReport
    BY <1>0, <1>4, <2>2, JobUpdates, NothingInHand DEF Undelivered, Write, HasStep, WorkType
  <2> QED BY <1>4, <2>1, <2>2 DEF Write
<1>5. CASE Latch
  BY <1>0, <1>5, JobUpdates, NothingInHand DEF Latch, HasStep, WorkType
<1>6. CASE Finish
  BY <1>0, <1>6, NothingInHand DEF Finish, WorkType
<1>7. CASE PoolResume
  BY <1>0, <1>7, JobUpdates DEF PoolResume, WorkType
<1>8. CASE PoolRetry
  BY <1>0, <1>8, JobUpdates DEF PoolRetry, WorkType
<1> QED BY <1>1, <1>2, <1>3, <1>4, <1>5, <1>6, <1>7, <1>8, WorkSteps

LEMMA ReportFields ==
  ASSUME NEW r \in Reports
  PROVE  r.dev \in Devices \cup {"none"} /\ r.shows \in SUBSET Shown /\ r.sent \in BOOLEAN
  BY DEF Reports

LEMMA HostKept ==
  ASSUME Types, [Next]_vars
  PROVE  HostType'
<1>0. HostType /\ report \in Reports
  BY DEF Types, WorkType
<1>1. host' = host \/ host' = NothingHeld => host' \in [Devices -> SUBSET Shown]
  BY <1>0 DEF HostType, NothingHeld
<1>2. UNCHANGED forgot => forgot' \in [Devices -> SUBSET Shown]
  BY <1>0 DEF HostType
<1>3. CASE Write
  <2>1. CASE UNCHANGED <<host, forgot>>
    BY <1>0, <2>1 DEF HostType
  <2>2. CASE Delivered(report.dev, report.shows)
    BY <1>0, <2>2, ReportFields DEF Delivered, HostType
  <2> QED BY <1>3, <2>1, <2>2 DEF Write
<1>4. CASE Resume /\ UNCHANGED <<host, report>>
  <2>1. \A d \in Devices : InHand(d) \in SUBSET Shown
    BY <1>0, ReportFields DEF InHand
  <2>2. forgot' = [d \in Devices |-> forgot[d] \cup host[d] \cup InHand(d)]
    BY <1>4 DEF Resume
  <2> QED BY <1>0, <1>4, <2>1, <2>2 DEF HostType
<1> QED BY <1>1, <1>2, <1>3, <1>4, HostSteps2, ForgotSteps DEF HostType

\* The steps left of a job are steps it had: whatever a job still moves it moved before.
LEMMA TailHas ==
  ASSUME NEW S, NEW q \in Seq(S), q # <<>>, NEW i \in DOMAIN Tail(q)
  PROVE  \E k \in DOMAIN q : q[k] = Tail(q)[i]
<1>1. i + 1 \in DOMAIN q /\ q[i + 1] = Tail(q)[i]
  OBVIOUS
<1> QED BY <1>1

Moves(j) == \E i \in DOMAIN j.todo : j.todo[i] = "abs"

LEMMA FewerMoves ==
  ASSUME NEW j \in Jobs, NEW k \in Jobs, k.todo = <<>> \/ (j.todo # <<>> /\ k.todo = Tail(j.todo)),
         Moves(k)
  PROVE  Moves(j)
<1>1. PICK i \in DOMAIN k.todo : k.todo[i] = "abs"
  BY DEF Moves
<1>2. k.todo # <<>>
  BY <1>1
<1>3. j.todo # <<>> /\ k.todo = Tail(j.todo) /\ j.todo \in Seq(JobSteps)
  BY <1>2, JobFields
<1>4. PICK m \in DOMAIN j.todo : j.todo[m] = Tail(j.todo)[i]
  BY <1>1, <1>3, TailHas
<1> QED BY <1>1, <1>3, <1>4 DEF Moves

LEMMA InputMoves ==
  ASSUME Input \/ PollerReopen, Moves(job)'
  PROVE  posKnown'
<1> USE DEF Begin, Moves
<1>1. ASSUME NEW code, NEW down, Key(code, down) PROVE FALSE
  BY <1>1 DEF Key
<1>2. CASE Wheel \/ ReleaseAll \/ PollerReopen
  BY <1>2 DEF Wheel, ReleaseAll, PollerReopen
<1>3. CASE MoveAbs
  BY <1>3 DEF MoveAbs
<1>4. ASSUME NEW chunks \in 1..MaxChunks, MoveRel(chunks) PROVE posKnown'
  BY <1>4 DEF MoveRel
<1>5. ASSUME NEW b, NEW down, Button(b, down) PROVE FALSE
  BY <1>5 DEF Button
<1> QED BY <1>1, <1>2, <1>3, <1>4, <1>5 DEF Input

LEMMA WorkOrInput ==
  ASSUME [Next]_vars
  PROVE  \/ UNCHANGED worker
         \/ Input \/ PollerReopen \/ Compose \/ Write \/ Latch \/ Finish \/ PoolResume
         \/ PoolRetry
<1>1. CASE BounceThread
  BY <1>1 DEF BounceThread, BounceClose, BounceRun, BounceReturn, BounceResume, BounceRetry
<1>2. CASE PollerSample \/ HelperMoves \/ HostMoves \/ Udev \/ UNCHANGED vars
  BY <1>2 DEF PollerSample, HelperMoves, HostMoves, GadgetEffects, Udev, vars
<1> QED BY <1>1, <1>2 DEF Next, Worker

\* Compose asks whether a position is known, or makes the report of a job that has given one.
LEMMA PositionKept ==
  ASSUME Types, [Next]_vars
  PROVE  PositionGiven'
<1>0. /\ job \in Jobs /\ report \in Reports /\ job' \in Jobs
      /\ (report.dev = "mabs" => posKnown) /\ (Moves(job) => posKnown)
      /\ (posKnown => posKnown')
  BY WorkKept, PlaceKept DEF Types, WorkType, PositionGiven, NoInventedPosition, Moves
<1> SUFFICES (report'.dev = "mabs" => posKnown') /\ (Moves(job)' => posKnown')
  BY DEF PositionGiven, NoInventedPosition, Moves
<1>1. CASE UNCHANGED worker
  BY <1>0, <1>1 DEF worker, Moves
<1>2. CASE Input \/ PollerReopen
  <2>1. report' = report
    BY <1>2, InputBegins DEF Begins, Begin
  <2> QED BY <1>0, <1>2, <2>1, InputMoves
<1>3. CASE Compose
  <2>1. Head(job.todo) \in JobSteps \ {"reopen", "retry"} /\ job.todo # <<>>
    BY <1>0, <1>3, JobUpdates DEF Compose, HasStep
  <2>2. Head(job.todo) = "abs" => Moves(job)
    BY <1>0, <2>1, JobFields DEF Moves
  <2>3. Device(Head(job.todo)) = "mabs" => posKnown
    BY <1>0, <2>1, <2>2 DEF JobSteps, Device, ButtonDevice
  <2>4. job' = job \/ job'.todo = Tail(job.todo)
    BY <1>0, <1>3, JobFields DEF Compose, Jobs
  <2>5. report' = report \/ report'.dev = Device(Head(job.todo))
    BY <1>3 DEF Compose
  <2> QED BY <1>0, <2>1, <2>3, <2>4, <2>5, FewerMoves DEF Moves
<1>4. CASE Write
  <2>1. job.todo # <<>> /\ (job' = job \/ job'.todo \in {<<>>, Tail(job.todo)})
    BY <1>0, <1>4 DEF Write, HasStep, Undelivered, Jobs
  <2>2. report'.dev = report.dev \/ report' = NoReport
    BY <1>0, <1>4 DEF Write, Reports
  <2>3. report'.dev = "mabs" => posKnown'
    BY <1>0, <2>2 DEF NoReport
  <2>4. Moves(job)' => posKnown'
    BY <1>0, <2>1, FewerMoves DEF Moves
  <2> QED BY <2>3, <2>4
<1>5. CASE Latch
  <2>1. job.todo # <<>> /\ job'.todo = Tail(job.todo) /\ report' = NoReport
    BY <1>0, <1>5 DEF Latch, HasStep, Jobs
  <2> QED BY <1>0, <2>1, FewerMoves DEF NoReport, Moves
<1>6. CASE Finish
  BY <1>0, <1>6 DEF Finish, NoJob, Moves
<1>7. CASE PoolResume
  <2>1. job.todo # <<>> /\ job'.todo = Tail(job.todo) /\ report' = report
    BY <1>0, <1>7 DEF PoolResume, Jobs
  <2> QED BY <1>0, <2>1, FewerMoves DEF Moves
<1>8. CASE PoolRetry
  <2>1. (job' = job \/ job'.todo = <<>>) /\ report' = report
    BY <1>0, <1>8 DEF PoolRetry, Jobs
  <2> QED BY <1>0, <2>1, FewerMoves DEF Moves
<1> QED BY <1>1, <1>2, <1>3, <1>4, <1>5, <1>6, <1>7, <1>8, WorkOrInput

LEMMA TypesInductive == Spec => []Types
<1>1. Types /\ [Next]_vars => Types'
  BY HeldKept, PlaceKept, WorkKept, HostKept, PositionKept DEF Types
<1> QED BY InitTypes, <1>1, PTL DEF Spec

\* Whatever the verbs, the devices and the number of slots: every variable keeps its type,
\* and a keyboard report never has more usages than slots.
THEOREM TypeCorrect == Spec => []TypeOK
<1>1. HelperInv /\ IInv /\ Types => TypeOK
  BY DEF HelperInv, IInv, FdType, Types, HeldType, SlotsFit, PlaceType, WorkType, HostType,
         Jobs, Reports, Shown, TypeOK
<1> QED BY HelperInvHere, Inductive, TypesInductive, <1>1, PTL

\* Through every reopen and every change of mouse, no report reaches for the absolute mouse
\* before the operator or an emulated move has given a position.
THEOREM PositionIsGiven == Spec => []NoInventedPosition
<1>1. Types => NoInventedPosition
  BY DEF Types, PositionGiven
<1> QED BY TypesInductive, <1>1, PTL

-----------------------------------------------------------------------------
(* What the target has been told.  reopen() forgets everything held, on    *)
(* the word of the comment in it that the re-enumeration has released it   *)
(* at the host; that is not always so (ReenumerationReleased fails), and   *)
(* a report composed before it may be written after it.  What it forgot    *)
(* is in `forgot' until a report corrects it; of all the rest the latch    *)
(* and the releases are right, whatever reopens HID and when.              *)

\* The report in the worker's hands is that of the step it is at, and shows what is held.
ReportInHand ==
    report # NoReport =>
        /\ report.dev \in Devices
        /\ HasStep
        /\ (Head(job.todo) = "kbd" <=> report.dev = "kbd")
        /\ (Head(job.todo) = "syncRel" => report.dev = "mrel")
        /\ (Head(job.todo) = "syncAbs" => report.dev = "mabs")
        /\ report.shows \subseteq Shows(report.dev) \cup forgot[report.dev]
        /\ (report.sent => host[report.dev] \subseteq report.shows)

Releasing == job.op \in {"up", "release"}

JobShape ==
    /\ (job.op = "idle" => job.todo = <<>>)
    /\ (job.op = "key" => job.todo \in {<<"kbd">>, <<>>})
    /\ (job.op = "up" =>
          job.todo \in {<<"buttons", "syncRel", "syncAbs">>, <<"syncRel", "syncAbs">>,
                        <<"syncAbs">>, <<>>})
    /\ (job.op = "release" =>
          job.todo \in {<<"kbd", "syncRel", "syncAbs">>, <<"syncRel", "syncAbs">>,
                        <<"syncAbs">>, <<>>})

\* Past its step for a device, with nothing lost, a job has told that device.
KeysReached ==
    /\ job.op \in {"key", "release"} /\ ~job.lost
    /\ (job.todo = <<>> \/ Head(job.todo) # "kbd")
    => Answered("kbd") \subseteq mods \cup keys

RelReached ==
    Releasing /\ ~job.lost /\ job.todo \in {<<"syncAbs">>, <<>>} => Answered("mrel") \subseteq btn

AbsReached == Releasing /\ ~job.lost /\ job.todo = <<>> => Answered("mabs") \subseteq btn

\* _sync_stale_buttons passes over the absolute mouse while no position is known: it was
\* never written to.
NothingUnplaced == ~posKnown => host["mabs"] = {}

Reached == KeysReached /\ RelReached /\ AbsReached

Told == LatchCovers /\ ReportInHand /\ JobShape /\ Reached /\ NothingUnplaced

LEMMA InitTold == Init => Told
  BY DEF Init, Told, LatchCovers, ReportInHand, JobShape, Reached, KeysReached, RelReached,
         AbsReached, Releasing, NothingUnplaced, Answered, NothingHeld, NoJob, NoReport, Devices,
         Mice

LEMMA ToldAtTheEnd == Told => ReleaseReachesTarget
  BY DEF Told, Reached, KeysReached, RelReached, AbsReached, Releasing, ReleaseReachesTarget,
         Done, Mice

\* A host that is lost, or a step that has nothing to do with the input.
LEMMA HostForgets ==
  ASSUME Types, Told, UNCHANGED <<held, worker, posKnown, forgot>>,
         host' = host \/ host' = NothingHeld
  PROVE  Told'
<1>0. \A d \in Devices : host'[d] \subseteq host[d]
  BY DEF NothingHeld, Types, HostType
<1>1. \A d \in Devices : Answered(d)' \subseteq Answered(d)
  BY <1>0 DEF Answered
<1>2. LatchCovers' /\ NothingUnplaced'
  BY <1>0, <1>1 DEF Told, LatchCovers, InHand, NothingUnplaced, held, worker, Devices, Mice
<1>3. ReportInHand'
  BY <1>0 DEF Told, ReportInHand, HasStep, Shows, held, worker
<1>4. JobShape' /\ Reached'
  BY <1>1 DEF Told, JobShape, Reached, KeysReached, RelReached, AbsReached, Releasing, held,
              worker, Devices, Mice
<1> QED BY <1>2, <1>3, <1>4 DEF Told

\* reopen() forgets what is held, and all of it is in `forgot': what the target shows and
\* what the report in the worker's hands is about to show.
LEMMA ReopenForgets ==
  ASSUME Types, Told, Resume, UNCHANGED <<pointer, host, report>>, job' = job \/ PoolResume
  PROVE  Told'
<1>0. forgot' = [d \in Devices |-> forgot[d] \cup host[d] \cup InHand(d)]
  BY DEF Resume
<1>1. \A d \in Devices : Answered(d)' = {}
  BY <1>0 DEF Answered
<1>2. LatchCovers' /\ NothingUnplaced' /\ Reached'
  BY <1>1 DEF Told, LatchCovers, NothingUnplaced, Reached, KeysReached, RelReached, AbsReached,
              Devices, Mice, pointer
<1>3. CASE job' = job
  <2>1. report' # NoReport => report'.shows \subseteq forgot'[report'.dev]
    BY <1>0 DEF Told, ReportInHand, InHand
  <2>2. ReportInHand' /\ JobShape'
    BY <1>3, <2>1 DEF Told, ReportInHand, JobShape, HasStep
  <2> QED BY <1>2, <2>2 DEF Told
<1>4. CASE PoolResume
  <2>2. job.todo # <<>> /\ Head(job.todo) = "reopen" /\ job'.op = job.op
    BY <1>4 DEF PoolResume, Types, WorkType, Jobs
  <2>3. report' = NoReport
    BY <2>2 DEF Told, ReportInHand, HasStep
  <2>4. job.op \notin {"idle", "key", "up", "release"}
    BY <2>2 DEF Told, JobShape
  <2>5. ReportInHand' /\ JobShape'
    BY <2>2, <2>3, <2>4 DEF ReportInHand, JobShape
  <2> QED BY <1>2, <2>5 DEF Told
<1> QED BY <1>3, <1>4

-----------------------------------------------------------------------------
(* A job begins, reports, latches and ends.                                *)

LEMMA FreshJobs ==
  ASSUME Input \/ PollerReopen
  PROVE  /\ job = NoJob /\ UNCHANGED <<report, host, forgot, btnSent>>
         /\ (posKnown => posKnown')
         /\ \/ job'.op \in {"move", "press", "wheel", "reopen"}
            \/ job'.op = "key" /\ job'.todo = <<"kbd">>
            \/ job'.op = "up" /\ job'.todo = <<"buttons", "syncRel", "syncAbs">>
            \/ job'.op = "release" /\ job'.todo = <<"kbd", "syncRel", "syncAbs">>
<1> USE DEF Begin, held, pointer, ghosts
<1>1. ASSUME NEW code, NEW down, Key(code, down)
      PROVE  /\ job = NoJob /\ UNCHANGED <<report, host, forgot, btnSent, posKnown>>
             /\ job'.op = "key" /\ job'.todo = <<"kbd">>
  BY <1>1 DEF Key
<1>2. CASE MoveAbs \/ Wheel \/ ReleaseAll \/ PollerReopen
  BY <1>2 DEF MoveAbs, Wheel, ReleaseAll, PollerReopen
<1>3. ASSUME NEW chunks, MoveRel(chunks)
      PROVE  /\ job = NoJob /\ UNCHANGED <<report, host, forgot, btnSent>>
             /\ (posKnown => posKnown')
             /\ job'.op = "move"
  BY <1>3 DEF MoveRel
<1>4. ASSUME NEW b, NEW down, Button(b, down)
      PROVE  /\ job = NoJob /\ UNCHANGED <<report, host, forgot, btnSent, posKnown>>
             /\ \/ job'.op = "press"
                \/ job'.op = "up" /\ job'.todo = <<"buttons", "syncRel", "syncAbs">>
  BY <1>4 DEF Button
<1> QED BY <1>1, <1>2, <1>3, <1>4 DEF Input

LEMMA BeginTold ==
  ASSUME Types, Told, Input \/ PollerReopen
  PROVE  Told'
<1>1. report = NoReport /\ report' = NoReport
  BY FreshJobs DEF Told, ReportInHand, HasStep, NoJob
<1>2. LatchCovers' /\ ReportInHand' /\ NothingUnplaced'
  BY <1>1, FreshJobs, PlaceKept
     DEF Told, LatchCovers, InHand, Answered, ReportInHand, NothingUnplaced
<1>3. JobShape'
  BY FreshJobs DEF JobShape
<1>4. Reached'
  <2>1. CASE job'.op \in {"move", "press", "wheel", "reopen"}
    BY <2>1 DEF Reached, KeysReached, RelReached, AbsReached, Releasing
  <2>2. CASE job'.op = "key" /\ job'.todo = <<"kbd">>
    BY <2>2 DEF Reached, KeysReached, RelReached, AbsReached, Releasing
  <2>3. CASE job'.op = "up" /\ job'.todo = <<"buttons", "syncRel", "syncAbs">>
    BY <2>3 DEF Reached, KeysReached, RelReached, AbsReached, Releasing
  <2>4. CASE job'.op = "release" /\ job'.todo = <<"kbd", "syncRel", "syncAbs">>
    BY <2>4 DEF Reached, KeysReached, RelReached, AbsReached, Releasing
  <2> QED BY <2>1, <2>2, <2>3, <2>4, FreshJobs
<1> QED BY <1>2, <1>3, <1>4 DEF Told

\* The steps that remain after the next one, and which step that is.
LEMMA ShapeTail ==
  ASSUME JobShape, job.todo # <<>>, NEW j, j.op = job.op, j.todo = Tail(job.todo)
  PROVE  /\ j.op # "idle"
         /\ (j.op = "key" => Head(job.todo) = "kbd" /\ j.todo = <<>>)
         /\ (j.op \in {"up", "release"} =>
              \/ j.todo = <<"syncRel", "syncAbs">> /\ Head(job.todo) \in {"buttons", "kbd"}
                 /\ (j.op = "release" => Head(job.todo) = "kbd")
              \/ j.todo = <<"syncAbs">> /\ Head(job.todo) = "syncRel"
              \/ j.todo = <<>> /\ Head(job.todo) = "syncAbs")
<1>1. /\ Tail(<<"kbd">>) = <<>> /\ Tail(<<"syncAbs">>) = <<>>
      /\ Tail(<<"syncRel", "syncAbs">>) = <<"syncAbs">>
      /\ Tail(<<"buttons", "syncRel", "syncAbs">>) = <<"syncRel", "syncAbs">>
      /\ Tail(<<"kbd", "syncRel", "syncAbs">>) = <<"syncRel", "syncAbs">>
  OBVIOUS
<1>2. /\ Head(<<"kbd">>) = "kbd" /\ Head(<<"syncAbs">>) = "syncAbs"
      /\ Head(<<"syncRel", "syncAbs">>) = "syncRel"
      /\ Head(<<"buttons", "syncRel", "syncAbs">>) = "buttons"
      /\ Head(<<"kbd", "syncRel", "syncAbs">>) = "kbd"
  OBVIOUS
<1> QED BY <1>1, <1>2 DEF JobShape

\* A step that ends, with the device it is for told what is held (or the job counted as lost),
\* leaves the job in shape and every device behind it told.
LEMMA StepEnds ==
  ASSUME JobShape, Reached, job.todo # <<>>, UNCHANGED <<mods, keys, btn, host, forgot>>,
         job'.op = job.op, job'.todo = Tail(job.todo), ~job'.lost => ~job.lost,
         ~job'.lost /\ Head(job.todo) = "kbd" => Answered("kbd") \subseteq mods \cup keys,
         ~job'.lost /\ Head(job.todo) = "syncRel" => Answered("mrel") \subseteq btn,
         ~job'.lost /\ Head(job.todo) = "syncAbs" => Answered("mabs") \subseteq btn
  PROVE  JobShape' /\ Reached'
<1>1. /\ job'.op # "idle"
      /\ (job'.op = "key" => Head(job.todo) = "kbd" /\ job'.todo = <<>>)
      /\ (job'.op \in {"up", "release"} =>
           \/ job'.todo = <<"syncRel", "syncAbs">> /\ Head(job.todo) \in {"buttons", "kbd"}
              /\ (job'.op = "release" => Head(job.todo) = "kbd")
           \/ job'.todo = <<"syncAbs">> /\ Head(job.todo) = "syncRel"
           \/ job'.todo = <<>> /\ Head(job.todo) = "syncAbs")
  BY ShapeTail
<1>2. JobShape'
  BY <1>1 DEF JobShape
<1>3. KeysReached'
  BY <1>1 DEF Reached, KeysReached, Answered
<1>4. RelReached'
  BY <1>1 DEF Reached, RelReached, Releasing, JobShape, Answered
<1>5. AbsReached'
  <2>1. <<"syncRel", "syncAbs">> # <<>> /\ <<"syncAbs">> # <<>>
    OBVIOUS
  <2> QED BY <1>1, <2>1 DEF AbsReached, Releasing, Answered
<1> QED BY <1>2, <1>3, <1>4, <1>5 DEF Reached

LEMMA ComposeTold ==
  ASSUME Types, Told, Compose
  PROVE  Told'
<1>0. /\ UNCHANGED <<held, pointer, host, forgot>> /\ HasStep /\ report = NoReport
      /\ job \in Jobs /\ Head(job.todo) \in JobSteps \ {"reopen", "retry"}
  BY JobUpdates DEF Compose, HasStep, Types, WorkType, ghosts
<1> DEFINE d == Device(Head(job.todo))
<1>1. CASE d = "none"
  <2>1. job' = [job EXCEPT !.todo = Tail(@), !.lost = job.lost \/ Head(job.todo) = "buttons"]
        /\ report' = report
    BY <1>1 DEF Compose
  <2>2. job'.op = job.op /\ job'.todo = Tail(job.todo) /\ (~job'.lost => ~job.lost)
    BY <1>0, <2>1, JobFields DEF Jobs
  <2>3. Head(job.todo) # "kbd"
    BY <1>1 DEF Device
  <2>4. Answered("mrel") \subseteq btnSent["mrel"] /\ Answered("mabs") \subseteq btnSent["mabs"]
    BY <1>0 DEF Told, LatchCovers, NoReport, Mice
  <2>5. Head(job.todo) = "syncRel" => Answered("mrel") \subseteq btn
    BY <1>1, <2>4 DEF Device
  <2>6. Head(job.todo) = "syncAbs" => Answered("mabs") \subseteq btn
    BY <1>1, <2>4 DEF Device, Told, NothingUnplaced, Answered
  <2>7. JobShape' /\ Reached'
    BY <1>0, <2>2, <2>3, <2>5, <2>6, StepEnds DEF Told, HasStep, held
  <2>8. LatchCovers' /\ ReportInHand' /\ NothingUnplaced'
    BY <1>0, <2>1 DEF Told, LatchCovers, InHand, Answered, ReportInHand, NothingUnplaced, held,
                      pointer
  <2> QED BY <2>7, <2>8 DEF Told
<1>2. CASE d # "none"
  <2>1. job' = job /\ report' = [dev |-> d, shows |-> Shows(d), sent |-> FALSE]
    BY <1>2 DEF Compose
  <2>2. d \in Devices
    BY <1>0, <1>2, DeviceType
  <2>3. /\ (Head(job.todo) = "kbd" <=> d = "kbd")
        /\ (Head(job.todo) = "syncRel" => d = "mrel")
        /\ (Head(job.todo) = "syncAbs" => d = "mabs")
    BY <1>0, <1>2 DEF Device, ButtonDevice, JobSteps
  <2>4. \A x : Shows(x)' = Shows(x)
    BY <1>0 DEF Shows, held
  <2>5. ReportInHand'
    <3>1. report'.dev = d /\ report'.shows = Shows(d) /\ ~report'.sent
      BY <2>1
    <3>2. report'.shows \subseteq Shows(report.dev)'
      BY <2>4, <3>1
    <3> HIDE DEF d
    <3> QED BY <1>0, <2>1, <2>2, <2>3, <3>1, <3>2 DEF ReportInHand, HasStep
  <2>6. LatchCovers' /\ NothingUnplaced'
    BY <1>0, <2>1 DEF Told, LatchCovers, Answered, NothingUnplaced, NoReport, held, pointer
  <2>7. JobShape' /\ Reached'
    BY <1>0, <2>1 DEF Told, JobShape, Reached, KeysReached, RelReached, AbsReached, Releasing,
                      Answered, held
  <2> QED BY <2>5, <2>6, <2>7 DEF Told
<1> QED BY <1>1, <1>2

LEMMA WriteTold ==
  ASSUME Types, Told, Write
  PROVE  Told'
<1>0. /\ UNCHANGED <<held, pointer>> /\ HasStep /\ report # NoReport /\ ~report.sent
      /\ job \in Jobs /\ report \in Reports /\ report.dev \in Devices
      /\ host \in [Devices -> SUBSET Shown] /\ forgot \in [Devices -> SUBSET Shown]
      /\ report.shows \subseteq Shows(report.dev) \cup forgot[report.dev]
  BY DEF Write, Types, WorkType, HostType, Told, ReportInHand
<1>1. CASE /\ Delivered(report.dev, report.shows)
           /\ report' = [report EXCEPT !.sent = TRUE] /\ job' = job
  <2>1. /\ host'[report.dev] = report.shows
        /\ \A d \in Devices : d # report.dev => host'[d] = host[d] /\ forgot'[d] = forgot[d]
        /\ forgot'[report.dev] = forgot[report.dev] \cap (report.shows \ Shows(report.dev))
    BY <1>0, <1>1 DEF Delivered
  <2>0. /\ Answered(report.dev)' = report.shows \cap Shows(report.dev)
        /\ \A d \in Devices : d # report.dev => Answered(d)' = Answered(d)
    <3>1. host'[report.dev] \ forgot'[report.dev] = report.shows \cap Shows(report.dev)
      BY <1>0, <2>1
    <3> QED BY <1>0, <1>1, <2>1, <3>1 DEF Answered, Reports
  <2>2. report'.dev = report.dev /\ report'.shows = report.shows /\ report'.sent
    BY <1>0, <1>1 DEF Reports
  <2>3. LatchCovers'
    BY <1>0, <2>0, <2>2 DEF Told, LatchCovers, InHand, held, Devices, Mice
  <2>4. ReportInHand'
    BY <1>0, <1>1, <2>1, <2>2 DEF Told, ReportInHand, HasStep, Shows, held
  <2>5. NothingUnplaced'
    BY <1>0, <2>1 DEF Told, NothingUnplaced, Types, PositionGiven, NoInventedPosition, pointer,
                      Devices, Mice
  <2>6. JobShape'
    BY <1>1 DEF Told, JobShape
  <2>7. /\ job.todo # <<>>
        /\ (Head(job.todo) = "kbd" <=> report.dev = "kbd")
        /\ (Head(job.todo) = "syncRel" => report.dev = "mrel")
        /\ (Head(job.todo) = "syncAbs" => report.dev = "mabs")
    BY <1>0 DEF Told, ReportInHand, HasStep
  <2>8. KeysReached'
    BY <1>0, <1>1, <2>0, <2>7 DEF Told, Reached, KeysReached, Shows, held, Devices
  <2>9. RelReached'
    <3>1. job.todo = <<"syncAbs">> => Head(job.todo) = "syncAbs"
      OBVIOUS
    <3> QED
      BY <1>0, <1>1, <2>0, <2>7, <3>1 DEF Told, Reached, RelReached, Releasing, held, Devices,
                                         Mice
  <2>10. AbsReached'
    BY <1>1, <2>7 DEF AbsReached
  <2> QED BY <2>3, <2>4, <2>5, <2>6, <2>8, <2>9, <2>10 DEF Told, Reached
<1>2. CASE report' = NoReport /\ job' = Undelivered /\ UNCHANGED <<host, forgot>>
  <2>1. job'.op = job.op /\ job'.lost /\ job'.todo \in {<<>>, Tail(job.todo)}
    BY <1>0, <1>2 DEF Undelivered, Jobs
  <2>2. LatchCovers'
    BY <1>0, <1>2 DEF Told, LatchCovers, InHand, Answered, NoReport, held
  <2>3. ReportInHand' /\ NothingUnplaced'
    BY <1>0, <1>2 DEF Told, ReportInHand, NothingUnplaced, pointer
  <2>4. Reached'
    BY <2>1 DEF Reached, KeysReached, RelReached, AbsReached
  <2>5. JobShape'
    <3>1. job.todo # <<>>
      BY <1>0 DEF HasStep
    <3>2. CASE job'.todo = <<>>
      BY <2>1, <3>2 DEF JobShape
    <3>3. CASE job'.todo = Tail(job.todo)
      <4>1. /\ job'.op # "idle"
            /\ (job'.op = "key" => job'.todo = <<>>)
            /\ (job'.op \in {"up", "release"} =>
                  job'.todo \in {<<"syncRel", "syncAbs">>, <<"syncAbs">>, <<>>})
        BY <2>1, <3>1, <3>3, ShapeTail DEF Told
      <4> QED BY <4>1 DEF JobShape
    <3> QED BY <2>1, <3>2, <3>3
  <2> QED BY <2>2, <2>3, <2>4, <2>5 DEF Told
<1> QED BY <1>1, <1>2 DEF Write

\* What a delivered report showed is held, so that the latch is no less than what was sent.
LEMMA LatchTold ==
  ASSUME Types, Told, Latch
  PROVE  Told'
<1>0. /\ UNCHANGED <<mods, keys, btn, posKnown, host, forgot>> /\ HasStep /\ report.sent
      /\ report' = NoReport /\ job.todo # <<>>
      /\ job'.op = job.op /\ job'.todo = Tail(job.todo) /\ job'.lost = job.lost
      /\ btnSent \in [Mice -> SUBSET Buttons]
  BY DEF Latch, HasStep, Types, WorkType, Jobs, HeldType, pointer, ghosts
<1>1. /\ report.dev \in Devices
      /\ (Head(job.todo) = "kbd" <=> report.dev = "kbd")
      /\ (Head(job.todo) = "syncRel" => report.dev = "mrel")
      /\ (Head(job.todo) = "syncAbs" => report.dev = "mabs")
      /\ Answered(report.dev) \subseteq Shows(report.dev)
  <2>1. report # NoReport
    BY <1>0 DEF NoReport
  <2> QED BY <1>0, <2>1 DEF Told, ReportInHand, Answered
<1>2. LatchCovers'
  <2>0. \A m \in Mice : Answered(m)' = Answered(m)
    BY <1>0 DEF Answered
  <2>1. \A m \in Mice :
           m # report.dev => Answered(m) \subseteq btnSent[m] /\ btnSent'[m] = btnSent[m]
    BY <1>0 DEF Told, LatchCovers, InHand, Latch
  <2>2. report.dev \in Mice => Answered(report.dev) \subseteq btn /\ btnSent'[report.dev] = btn
    BY <1>0, <1>1 DEF Latch, Shows, Mice
  <2> QED BY <1>0, <2>0, <2>1, <2>2 DEF LatchCovers, NoReport
<1>3. ReportInHand' /\ NothingUnplaced'
  BY <1>0 DEF Told, ReportInHand, NothingUnplaced
<1>4. JobShape' /\ Reached'
  BY <1>0, <1>1, StepEnds DEF Told, Shows
<1> QED BY <1>2, <1>3, <1>4 DEF Told

LEMMA EndTold ==
  ASSUME Types, Told, Finish \/ PoolRetry
  PROVE  Told'
<1>1. CASE Finish
  <2>1. UNCHANGED <<held, pointer, host, forgot, report>> /\ job' = NoJob /\ report = NoReport
    BY <1>1 DEF Finish, Done, ghosts
  <2> QED
    BY <2>1 DEF Told, LatchCovers, ReportInHand, JobShape, Reached, KeysReached, RelReached,
                AbsReached, Releasing, NothingUnplaced, InHand, Answered, NoJob, held, pointer
<1>2. CASE PoolRetry
  <2>1. /\ UNCHANGED <<held, pointer, host, forgot, report>> /\ job.todo # <<>>
        /\ Head(job.todo) = "retry" /\ job'.op = job.op
    BY <1>2 DEF PoolRetry, Types, WorkType, Jobs
  <2>2. job.op \notin {"idle", "key", "up", "release"} /\ report = NoReport
    BY <2>1 DEF Told, JobShape, ReportInHand, HasStep
  <2>3. LatchCovers' /\ NothingUnplaced'
    BY <2>1 DEF Told, LatchCovers, InHand, Answered, NothingUnplaced, held, pointer
  <2>4. ReportInHand' /\ JobShape' /\ Reached'
    BY <2>1, <2>2 DEF ReportInHand, JobShape, Reached, KeysReached, RelReached, AbsReached,
                      Releasing
  <2> QED BY <2>3, <2>4 DEF Told
<1> QED BY <1>1, <1>2

LEMMA ToldKept ==
  ASSUME Types, Told, [Next]_vars
  PROVE  Told'
<1>1. CASE BounceClose \/ BounceRun \/ BounceReturn \/ BounceRetry
  BY <1>1, HostForgets DEF BounceClose, BounceRun, BounceReturn, BounceRetry, pointer, ghosts
<1>2. CASE BounceResume
  BY <1>2, ReopenForgets DEF BounceResume, worker
<1>3. CASE PollerSample \/ Udev \/ HelperMoves \/ HostMoves \/ UNCHANGED vars
  BY <1>3, HostForgets DEF PollerSample, Udev, HelperMoves, HostMoves, GadgetEffects, vars,
                           pointer, ghosts
<1>4. CASE PoolResume
  BY <1>4, ReopenForgets DEF PoolResume
<1> QED
  BY <1>1, <1>2, <1>3, <1>4, BeginTold, ComposeTold, WriteTold, LatchTold, EndTold
     DEF Next, Worker, BounceThread

LEMMA ToldInductive == Spec => []Told
<1>1. Types /\ Told /\ [Next]_vars => Told'
  BY ToldKept
<1> QED BY InitTold, TypesInductive, <1>1, PTL DEF Spec

\* Whatever the bounces, the poller and the host do, and wherever in a job a reopen() falls,
\* also between the composing, the writing and the recording of a report: _btn_sent covers
\* every button the target believes is held but those the reopen() found and forgot.
THEOREM LatchHolds == Spec => []LatchCovers
<1>1. Told => LatchCovers
  BY DEF Told
<1> QED BY ToldInductive, <1>1, PTL

\* Under the same races, a release whose reports got through has released at the target all
\* that no reopen() has forgotten, on both mice and the keyboard.
THEOREM ReleaseArrives == Spec => []ReleaseReachesTarget
  BY ToldInductive, ToldAtTheEnd, PTL

-----------------------------------------------------------------------------
(* Where nobody re-enumerates the target there is no reopen(), and nothing *)
(* is ever forgotten.                                                      *)

Calm ==
    /\ bounce = "idle" /\ ~Running /\ Bound /\ ready
    /\ fd["kbd"] = "live" /\ fd["mabs"] = "live"
    /\ poll = "idle" /\ ~suspended
    /\ \A i \in DOMAIN job.todo : job.todo[i] \notin {"reopen", "retry"}

LEMMA CalmInput ==
  ASSUME Calm, Input
  PROVE  Calm'
<1>1. /\ UNCHANGED <<gadgetVars, fd, suspended, bounce, poll, ready>>
      /\ (\A i \in DOMAIN job.todo : job.todo[i] \notin {"reopen", "retry"})'
  BY DEF Input, Key, MoveAbs, MoveRel, Button, Wheel, ReleaseAll, Begin, poller
<1> QED BY <1>1 DEF Calm, Running, Bound, gadgetVars

LEMMA CalmWorker ==
  ASSUME Calm, IInv, Types, Worker
  PROVE  Calm'
<1>0. job \in Jobs /\ FdType
  BY DEF Types, WorkType, IInv
<1>1. job.todo # <<>> => Head(job.todo) \notin {"reopen", "retry"}
  BY <1>0, JobFields DEF Calm
<1>2. ~PollerReopen /\ ~PoolResume /\ ~PoolRetry
  BY <1>1 DEF Calm, PollerReopen, PoolResume, PoolRetry
<1>3. UNCHANGED <<gadgetVars, suspended, bounce, ready>> /\ poll' \in {poll, "idle"}
  BY <1>2 DEF Worker, Compose, Write, Latch, Finish, poller
<1>4. fd'["kbd"] = "live" /\ fd'["mabs"] = "live"
  <2>1. CASE Write
    <3>1. PICK out \in WriteOutcomes(report.dev) : fd' = [fd EXCEPT ![report.dev] = out.f]
      BY <2>1 DEF Write
    <3>2. report.dev \in {"kbd", "mabs"} => out.f = "live"
      BY DEF Calm, WriteOutcomes, Open, Node
    <3> QED BY <1>0, <3>1, <3>2 DEF Calm, FdType
  <2>2. CASE ~Write
    BY <1>2, <2>2 DEF Worker, Compose, Latch, Finish, Calm
  <2> QED BY <2>1, <2>2
<1>5. job' = job \/ job'.todo = <<>> \/ (job.todo # <<>> /\ job'.todo = Tail(job.todo))
  <2>1. CASE Compose
    BY <1>0, <2>1 DEF Compose, HasStep, Jobs
  <2>2. CASE Write
    BY <1>0, <2>2 DEF Write, HasStep, Undelivered, Jobs
  <2>3. CASE Latch
    BY <1>0, <2>3 DEF Latch, HasStep, Jobs
  <2>4. CASE Finish
    BY <2>4 DEF Finish, NoJob
  <2> QED BY <1>2, <2>1, <2>2, <2>3, <2>4 DEF Worker
<1>6. \A i \in DOMAIN job'.todo : job'.todo[i] \notin {"reopen", "retry"}
  <2>1. CASE job.todo # <<>> /\ job'.todo = Tail(job.todo)
    BY <1>0, <2>1, TailHas, JobFields DEF Calm
  <2>2. CASE job' = job \/ job'.todo = <<>>
    BY <2>2 DEF Calm
  <2> QED BY <1>5, <2>1, <2>2
<1> QED BY <1>3, <1>4, <1>6 DEF Calm, Running, Bound, gadgetVars

LEMMA CalmKept ==
  ASSUME Verbs = {}, Calm, IInv, Types, [Next]_vars
  PROVE  Calm'
<1>1. ~BounceThread /\ ~HelperMoves /\ ~Udev
  BY HelperRunning DEF Calm, BounceThread, BounceClose, BounceRun, BounceReturn, BounceResume,
                       BounceRetry, HelperMoves, Udev
<1>2. CASE PollerSample
  BY <1>2 DEF PollerSample, Calm, IsOpen, Running, Bound, gadgetVars, worker
<1>3. CASE HostMoves
  <2>1. Bound' /\ helper' = helper
    BY <1>3 DEF HostMoves, HostStep, Enumerate, Disconnect, Bound
  <2> QED BY <1>3, <2>1 DEF HostMoves, GadgetEffects, Calm, Running, worker, poller, Devices,
                           Mice
<1>4. CASE UNCHANGED vars
  BY <1>4 DEF vars, Calm, Running, Bound, gadgetVars, worker, poller
<1> QED BY <1>1, <1>2, <1>3, <1>4, CalmInput, CalmWorker DEF Next

\* What the two properties above make an exception of does not exist.
NothingForgotten == forgot = NothingHeld

\* A reopen() would leave devices closed.
LEMMA CalmForgets ==
  ASSUME Calm', Types, NothingForgotten, [Next]_vars
  PROVE  NothingForgotten'
<1>0. forgot \in [Devices -> SUBSET Shown] /\ report \in Reports
  BY DEF Types, HostType, WorkType
<1>1. ~Resume
  BY DEF Calm, Resume, Devices, Mice
<1>2. CASE UNCHANGED forgot
  BY <1>2 DEF NothingForgotten, NothingHeld
<1>3. CASE Write
  <2>1. CASE Delivered(report.dev, report.shows)
    <3>1. \A d \in Devices : forgot'[d] \subseteq forgot[d]
      BY <1>0, <2>1 DEF Delivered
    <3>2. forgot' = [d \in Devices |-> forgot'[d]]
      BY <1>0, <2>1 DEF Delivered
    <3>3. \A d \in Devices : forgot'[d] = {}
      BY <3>1 DEF NothingForgotten, NothingHeld
    <3> QED BY <3>2, <3>3 DEF NothingForgotten, NothingHeld
  <2> QED BY <1>2, <1>3, <2>1 DEF Write
<1> QED BY <1>1, <1>2, <1>3, ForgotSteps

\* Sessions of any number of keys and buttons, on any combination of the mice, that nobody
\* re-enumerates: the latch is right, every delivered release releases, and nothing is
\* exempt from either.
THEOREM SessionsAreReleased ==
  ASSUME Verbs = {}
  PROVE  Spec => [](NothingForgotten /\ LatchCovers /\ ReleaseReachesTarget)
<1>1. Init => Calm /\ NothingForgotten
  BY DEF Init, GadgetInit, Calm, Running, Bound, NoJob, Devices, Mice, NothingForgotten
<1>2. Calm /\ IInv /\ Types /\ [Next]_vars => Calm'
  BY CalmKept
<1>3. Calm' /\ Types /\ NothingForgotten /\ [Next]_vars => NothingForgotten'
  BY CalmForgets
<1> QED BY <1>1, <1>2, <1>3, Inductive, TypesInductive, LatchHolds, ReleaseArrives, PTL DEF Spec

=============================================================================
