-------------------------- MODULE MassStorageProofs --------------------------
(***************************************************************************)
(* MassStorage for any image library: the drive is never on both sides, an *)
(* ISO is never writable, and the methods implement DriveOwner.            *)
(*                                                                         *)
(* The invariant says at which step of a transition the drive is free: the *)
(* Pi has unmounted it before the LUN is emptied and set, and the target   *)
(* has let go of it before it is mounted.  The loop device is no part of   *)
(* it: the code cannot promise that it is gone.                            *)
(***************************************************************************)
EXTENDS MassStorage, TLAPS

\* A transition takes the drive only after the other side has let go of it.
Handover ==
    /\ op.at = "mount" => ~Attached \/ meddled
    /\ op.at \in {"loops", "empty", "attrs", "set"} => ~mounted

\* From the empty LUN on, what is set is what will be given, unless the scripts interfere.
Attributes ==
    /\ op.at = "attrs" => ~Attached \/ meddled
    /\ op.at = "set" => meddled \/ lun = NoLun \/ (lun = NoMedium /\ (ro <=> op.img \in Isos))

\* What is about to be replaced is neither the default drive nor the target's medium; an
\* import is at one of these two steps all along.
Spared ==
    /\ op.verb = "import" => op.at \in {"start", "commit"}
    /\ op.at \in {"start", "commit"} => op.img # Default
    /\ op.at = "commit" => op.img # lun

IInv ==
    /\ TypeOK
    /\ Handover
    /\ NeverBoth
    /\ Attributes
    /\ IsoReadOnly
    /\ Spared

USE DEF Verbs, Steps, Libraries, Strays

LEMMA MembershipIsBoolean ==
  ASSUME NEW x, NEW S, NEW b, b = (x \in S)
  PROVE  b \in BOOLEAN /\ (b <=> x \in S)
<1>1. b \in BOOLEAN
  OBVIOUS
<1>2. x \in S => b
  OBVIOUS
<1>3. x \notin S => ~b
  OBVIOUS
<1> QED BY <1>1, <1>2, <1>3

LEMMA InitIInv == Init => IInv
<1> SUFFICES ASSUME Init PROVE IInv
  OBVIOUS
<1>1. TypeOK
  BY MsdAssumption DEF Init, TypeOK, NoOp
<1>2. op.at = "idle" /\ op.verb = "none" /\ ~mounted /\ ~loop /\ lun \notin Isos
  BY MsdAssumption DEF Init, NoOp
<1> QED
  BY <1>1, <1>2 DEF IInv, Handover, NeverBoth, Attributes, IsoReadOnly, Spared

(* Every action, as the conjuncts of the invariant see it. *)
LEMMA MethodStep ==
  ASSUME IInv, Method
  PROVE  IInv'
<1> USE MsdAssumption
    DEF IInv, TypeOK, Handover, NeverBoth, Attributes, IsoReadOnly, Spared, Attached,
        Lock, NoOp
<1>1. CASE Detach  BY <1>1 DEF Detach
<1>2. CASE Attach  BY <1>2 DEF Attach, Active
<1>3. CASE Eject  BY <1>3 DEF Eject
<1>4. CASE Edit  BY <1>4 DEF Edit
<1>5. ASSUME NEW name \in Images, AttachImage(name) PROVE IInv'
  BY <1>5 DEF AttachImage
<1>6. ASSUME NEW name \in Images, SaveImageUpload(name) PROVE IInv'
  BY <1>6 DEF SaveImageUpload, Replaceable
<1>7. ASSUME NEW name \in Images, DeleteImage(name) PROVE IInv'
  BY <1>7 DEF DeleteImage, Replaceable
<1> QED BY <1>1, <1>2, <1>3, <1>4, <1>5, <1>6, <1>7 DEF Method

LEMMA HelperPreserves ==
  ASSUME IInv, HelperStep
  PROVE  IInv'
<1> USE MsdAssumption
    DEF IInv, TypeOK, Handover, NeverBoth, Attributes, IsoReadOnly, Spared, Attached,
        NoOp, Goto, Return, SetLun
<1>1. CASE FreeLun
  <2>1. TypeOK'
    BY <1>1 DEF FreeLun
  <2>2. Handover' /\ NeverBoth'
    BY <1>1 DEF FreeLun
  <2>3. Attributes' /\ IsoReadOnly'
    BY <1>1 DEF FreeLun
  <2>4. Spared'
    BY <1>1 DEF FreeLun
  <2> QED BY <2>1, <2>2, <2>3, <2>4
<1>2. CASE MountEdit
  <2>0. op.at = "mount" /\ UNCHANGED <<lun, ro, namePtr, library, strays, reading, meddled>>
    BY <1>2 DEF MountEdit
  <2>1. (mounted' = mounted \/ mounted' = TRUE) /\ (loop' = loop \/ loop' \in BOOLEAN)
    BY <1>2 DEF MountEdit
  <2>2. op' = op \/ op' = NoOp
    BY <1>2 DEF MountEdit
  <2>a. op' \in [verb : Verbs, at : Steps, img : Images]
    BY <2>2
  <2>b. mounted' \in BOOLEAN /\ loop' \in BOOLEAN
    BY <2>1
  <2>3. TypeOK'
    BY <2>0, <2>a, <2>b
  <2>4. Handover' /\ NeverBoth'
    BY <2>0, <2>2
  <2>5. Attributes' /\ IsoReadOnly' /\ Spared'
    BY <2>0, <2>2
  <2> QED BY <2>3, <2>4, <2>5
<1>3. CASE UnmountEdit
  <2>1. TypeOK'
    BY <1>3 DEF UnmountEdit
  <2>2. Handover' /\ NeverBoth'
    BY <1>3 DEF UnmountEdit
  <2>3. Attributes' /\ IsoReadOnly'
    BY <1>3 DEF UnmountEdit
  <2>4. Spared'
    BY <1>3 DEF UnmountEdit
  <2> QED BY <2>1, <2>2, <2>3, <2>4
<1>4. CASE FreeLoops
  <2>0. op.at = "loops" /\ loop' \in BOOLEAN /\ ~mounted'
        /\ UNCHANGED <<lun, ro, mounted, namePtr, library, strays, reading, meddled>>
    BY <1>4 DEF FreeLoops
  <2>1. op' = [op EXCEPT !.at = "empty"] \/ op' = NoOp
    BY <1>4 DEF FreeLoops
  <2>a. op' \in [verb : Verbs, at : Steps, img : Images]
    BY <2>1
  <2>2. TypeOK'
    BY <2>0, <2>a
  <2>3. op'.at \in {"empty", "idle"} /\ op'.verb # "import"
    BY <2>0, <2>1
  <2>4. Handover' /\ NeverBoth' /\ Attributes' /\ IsoReadOnly' /\ Spared'
    BY <2>0, <2>3
  <2> QED BY <2>2, <2>4
<1>5. CASE EmptyLun
  <2>1. TypeOK'
    BY <1>5 DEF EmptyLun
  <2>2. Handover' /\ NeverBoth'
    BY <1>5 DEF EmptyLun
  <2>3. Attributes' /\ IsoReadOnly'
    BY <1>5 DEF EmptyLun
  <2>4. Spared'
    BY <1>5 DEF EmptyLun
  <2> QED BY <2>1, <2>2, <2>3, <2>4
<1>6. CASE SetLunAttrs
  <2>0. op.at = "attrs" /\ op'.at = "set" /\ op'.img = op.img /\ op'.verb = op.verb
        /\ UNCHANGED <<lun, mounted, loop, namePtr, library, strays, reading, meddled>>
    BY <1>6 DEF SetLunAttrs
  <2>1. ro' \in BOOLEAN /\ (lun = NoMedium => (ro' <=> op.img \in Isos))
    <3>1. CASE lun = NoMedium
      <4>1. ro' = (op.img \in Isos)
        BY <1>6, <3>1 DEF SetLunAttrs
      <4> QED BY <4>1, MembershipIsBoolean
    <3>2. CASE lun # NoMedium
      BY <1>6, <3>2 DEF SetLunAttrs
    <3> QED BY <3>1, <3>2
  <2>2. TypeOK'
    BY <1>6, <2>0, <2>1 DEF SetLunAttrs
  <2>3. ~Attached \/ meddled
    BY <2>0
  <2>4. Handover' /\ NeverBoth' /\ Spared'
    BY <2>0
  <2>5. Attributes'
    BY <2>0, <2>1, <2>3
  <2>6. IsoReadOnly'
    BY <2>0, <2>3
  <2> QED BY <2>2, <2>4, <2>5, <2>6
<1>7. CASE GiveLun  BY <1>7 DEF GiveLun
<1>8. CASE CheckName  BY <1>8 DEF CheckName, Replaceable
<1>9. CASE Commit
  <2>1. library' \in Libraries
    BY <1>9 DEF Commit
  <2>2. op' = NoOp /\ UNCHANGED <<lun, ro, mounted, loop, namePtr, strays, reading, meddled>>
    BY <1>9 DEF Commit
  <2> QED BY <2>1, <2>2
<1>10. CASE Die  BY <1>10 DEF Die
<1> QED
  BY <1>1, <1>2, <1>3, <1>4, <1>5, <1>6, <1>7, <1>8, <1>9, <1>10 DEF HelperStep

LEMMA AroundPreserves ==
  ASSUME IInv,
         EndEdit \/ UploadRaises \/ StrayStep \/ OpenDownload \/ EndDownload
           \/ GadgetDown \/ GadgetUp \/ Crash \/ UNCHANGED vars
  PROVE  IInv'
<1> USE MsdAssumption
    DEF IInv, TypeOK, Handover, NeverBoth, Attributes, IsoReadOnly, Spared, Attached,
        NoOp, Return
<1>1. CASE EndEdit  BY <1>1 DEF EndEdit
<1>2. CASE OpenDownload  BY <1>2 DEF OpenDownload
<1>3. CASE EndDownload
  <2>1. reading' = FALSE
        /\ UNCHANGED <<lun, ro, mounted, loop, namePtr, library, op, strays, meddled>>
    BY <1>3 DEF EndDownload
  <2>2. TypeOK'
    BY <2>1
  <2>3. Handover' /\ NeverBoth' /\ Attributes'
    BY <2>1
  <2>4. IsoReadOnly' /\ Spared'
    BY <2>1
  <2> QED BY <2>2, <2>3, <2>4
<1>4. CASE GadgetDown  BY <1>4 DEF GadgetDown
<1>5. CASE GadgetUp
  <2>1. TypeOK'
    BY <1>5 DEF GadgetUp
  <2>2. op' = op /\ UNCHANGED <<mounted, loop>> /\ lun' \in {Default, NoMedium}
    BY <1>5 DEF GadgetUp
  <2>3. op.at # "idle" => meddled'
    <3>1. op.at # "idle" => op # NoOp
      OBVIOUS
    <3>2. op # NoOp => meddled'
      BY <1>5, Zenon DEF GadgetUp
    <3> QED BY <3>1, <3>2
  <2>4. lun' = Default /\ mounted => meddled'
    BY <1>5 DEF GadgetUp
  <2>5. Handover' /\ Attributes'
    BY <2>2, <2>3 DEF GadgetUp
  <2>6. NeverBoth'
    BY <2>2, <2>4
  <2>7. IsoReadOnly'
    BY <2>2
  <2>8. Spared'
    BY <2>2
  <2> QED BY <2>1, <2>5, <2>6, <2>7, <2>8
<1>6. CASE Crash  BY <1>6 DEF Crash
<1>7. CASE UNCHANGED vars  BY <1>7 DEF vars
<1>8. CASE UploadRaises
  <2>1. [at |-> op.at, img |-> op.img] \in Strays
    BY <1>8 DEF UploadRaises
  <2>2. strays' \subseteq Strays
    BY <1>8, <2>1 DEF UploadRaises
  <2> QED BY <1>8, <2>2 DEF UploadRaises
<1>9. CASE StrayStep
  <2>1. PICK h \in strays : StrayCheck(h) \/ StrayCommit(h) \/ StrayDies(h)
    BY <1>9 DEF StrayStep
  <2>2. h \in Strays /\ h.img \in Images
    OBVIOUS
  <2>3. [at |-> "commit", img |-> namePtr] \in Strays
    OBVIOUS
  <2>4. strays' \subseteq Strays /\ library' \in {library, library \cup {h.img}}
    BY <2>1, <2>3 DEF StrayCheck, StrayCommit, StrayDies
  <2>5. UNCHANGED <<lun, ro, mounted, loop, namePtr, op, reading, meddled>>
    BY <2>1 DEF StrayCheck, StrayCommit, StrayDies
  <2>6. library' \in Libraries
    BY <2>2, <2>4
  <2> QED BY <2>4, <2>5, <2>6
<1> QED BY <1>1, <1>2, <1>3, <1>4, <1>5, <1>6, <1>7, <1>8, <1>9

LEMMA Inductive == Spec => []IInv
<1>1. IInv /\ [Next]_vars => IInv'
  BY MethodStep, HelperPreserves, AroundPreserves DEF Next
<1> QED BY InitIInv, <1>1, PTL DEF Spec

\* The manager's state keeps its type: in particular the default drive is never deleted,
\* whatever is uploaded, deleted and attached.
THEOREM TypeCorrect == Spec => []TypeOK
<1>1. IInv => TypeOK
  BY DEF IInv
<1> QED BY Inductive, <1>1, PTL

\* The Pi never mounts the drive while the target has a medium by the manager's own doing,
\* for any library, at any step of a transition, whatever fails, losetup -d included.
THEOREM NeverOnBothSides == Spec => []NeverBoth
<1>1. IInv => NeverBoth
  BY DEF IInv
<1> QED BY Inductive, <1>1, PTL

\* An ISO the manager gives to the target is read-only there.
THEOREM IsosReadOnly == Spec => []IsoReadOnly
<1>1. IInv => IsoReadOnly
  BY DEF IInv
<1> QED BY Inductive, <1>1, PTL

\* An upload or a delete never commits on the target's medium while its method has the lock.
THEOREM MediumSpared == Spec => []CommitSpares
<1>1. IInv => CommitSpares
  BY DEF IInv, Spared, CommitSpares
<1> QED BY Inductive, <1>1, PTL

-----------------------------------------------------------------------------
(* The refinement: every step is one of DriveOwner's or leaves it alone.   *)

LEMMA OwnersMembers ==
  /\ "pi" \in Owners <=> mounted
  /\ "target" \in Owners <=> Attached
  /\ Owners \subseteq {"pi", "target"}
  BY DEF Owners

LEMMA OwnersMembersNext ==
  /\ "pi" \in Owners' <=> mounted'
  /\ "target" \in Owners' <=> Attached'
  /\ Owners' \subseteq {"pi", "target"}
  BY DEF Owners, Attached

LEMMA OwnersUnchanged ==
  ASSUME mounted' <=> mounted, Attached' <=> Attached
  PROVE  Owners' = Owners
<1>1. \A who : who \in Owners' <=> who \in Owners
  BY OwnersMembers, OwnersMembersNext
<1> QED BY <1>1

OwnerStep == [Owner!OwnerNext]_(Owner!ownerVars)

LEMMA OwnerInitially == Init => Owner!OwnerInit
  BY MsdAssumption DEF Init, Owner!OwnerInit, Owners, Attached

\* Steps that touch neither the LUN nor the Pi's side.
LEMMA OwnerUntouched ==
  ASSUME UNCHANGED <<lun, mounted, meddled>>
  PROVE  OwnerStep
  BY DEF OwnerStep, Owner!ownerVars, Owners, Attached

LEMMA OwnerHelper ==
  ASSUME IInv, HelperStep
  PROVE  OwnerStep
<1>0. meddled \in BOOLEAN
  BY DEF IInv, TypeOK
<1>1. CASE FreeLun
  <2>1. CASE Attached
    <3>1. ~Attached' /\ meddled' = FALSE /\ UNCHANGED mounted
      BY <1>1, <2>1, MsdAssumption DEF FreeLun, SetLun, Attached
    <3>2. Owners' = Owners \ {"target"}
      BY <3>1, OwnersMembers, OwnersMembersNext
    <3>3. Owner!Release("target")
      BY <2>1, <3>1, <3>2, OwnersMembers DEF Owner!Release
    <3> QED BY <3>3 DEF OwnerStep, Owner!OwnerNext
  <2>2. CASE ~Attached
    BY <1>1, <2>2, OwnerUntouched DEF FreeLun
  <2> QED BY <2>1, <2>2
<1>2. CASE MountEdit
  <2>0. op.at = "mount" /\ UNCHANGED <<lun, meddled>> /\ (Attached' <=> Attached)
    BY <1>2 DEF MountEdit, Attached
  <2>1. CASE UNCHANGED mounted
    BY <2>0, <2>1, OwnerUntouched
  <2>2. CASE ~mounted /\ mounted' = TRUE
    <3>1. ~Attached \/ meddled
      BY <2>0 DEF IInv, Handover
    <3>2. Owners' = Owners \cup {"pi"} /\ (Owners = {} \/ meddled)
      BY <2>0, <2>2, <3>1, OwnersMembers, OwnersMembersNext
    <3>3. Owner!Take("pi")
      BY <2>0, <3>2 DEF Owner!Take
    <3> QED BY <3>3 DEF OwnerStep, Owner!OwnerNext
  <2> QED BY <1>2, <2>1, <2>2 DEF MountEdit
<1>3. CASE UnmountEdit
  <2>0. UNCHANGED <<lun, meddled>> /\ (Attached' <=> Attached) /\ ~mounted'
    BY <1>3 DEF UnmountEdit, Attached
  <2>1. CASE ~mounted
    <3>1. Owners' = Owners
      BY <2>0, <2>1, OwnersUnchanged
    <3> QED BY <2>0, <3>1 DEF OwnerStep, Owner!ownerVars
  <2>2. CASE mounted
    <3>1. Owners' = Owners \ {"pi"}
      BY <2>0, <2>2, OwnersMembers, OwnersMembersNext
    <3>2. Owner!Release("pi")
      BY <2>0, <2>2, <3>1, OwnersMembers DEF Owner!Release
    <3> QED BY <3>2 DEF OwnerStep, Owner!OwnerNext
  <2> QED BY <2>1, <2>2
<1>4. CASE EmptyLun
  <2>0. ~Attached' /\ meddled' = FALSE /\ UNCHANGED mounted
    BY <1>4, MsdAssumption DEF EmptyLun, SetLun, Attached
  <2>1. Owners' = Owners \ {"target"}
    BY <2>0, OwnersMembers, OwnersMembersNext
  <2>2. CASE Attached
    <3>1. Owner!Release("target")
      BY <2>0, <2>1, <2>2, OwnersMembers DEF Owner!Release
    <3> QED BY <3>1 DEF OwnerStep, Owner!OwnerNext
  <2>3. CASE ~Attached
    <3>1. Owner!Settle
      BY <2>0, <2>1, <2>3, OwnersMembers DEF Owner!Settle
    <3> QED BY <3>1 DEF OwnerStep, Owner!OwnerNext
  <2> QED BY <2>2, <2>3
<1>5. CASE GiveLun
  <2>0. Attached' /\ meddled' = meddled /\ ~mounted /\ ~mounted'
    BY <1>0, <1>5, MsdAssumption
       DEF GiveLun, SetLun, Attached, IInv, Handover, TypeOK
  <2>1. Owners' = Owners \cup {"target"}
    BY <2>0, OwnersMembers, OwnersMembersNext
  <2>2. CASE Attached
    <3>1. Owners = {"target"}
      BY <2>0, <2>2, OwnersMembers
    <3>2. Owners' = {"target"}
      BY <2>1, <3>1
    <3> QED BY <2>0, <3>1, <3>2 DEF OwnerStep, Owner!ownerVars
  <2>3. CASE ~Attached
    <3>1. Owners = {}
      BY <2>0, <2>3, OwnersMembers
    <3>2. Owner!Take("target")
      BY <2>0, <2>1, <3>1 DEF Owner!Take
    <3> QED BY <3>2 DEF OwnerStep, Owner!OwnerNext
  <2> QED BY <2>2, <2>3
<1>6. CASE FreeLoops \/ SetLunAttrs \/ CheckName \/ Commit \/ Die
  BY <1>6, OwnerUntouched DEF FreeLoops, SetLunAttrs, CheckName, Commit, Die
<1> QED BY <1>1, <1>2, <1>3, <1>4, <1>5, <1>6 DEF HelperStep

LEMMA OwnerScripts ==
  ASSUME IInv, IInv', GadgetDown \/ GadgetUp
  PROVE  OwnerStep
<1>1. mounted' <=> mounted
  BY DEF GadgetDown, GadgetUp
<1>2. Owners' \in {Owners \cup {"target"}, Owners \ {"target"}}
  <2>1. CASE Attached'
    <3>1. Owners' = Owners \cup {"target"}
      BY <1>1, <2>1, OwnersMembers, OwnersMembersNext
    <3> QED BY <3>1
  <2>2. CASE ~Attached'
    <3>1. Owners' = Owners \ {"target"}
      BY <1>1, <2>2, OwnersMembers, OwnersMembersNext
    <3> QED BY <3>1
  <2> QED BY <2>1, <2>2
<1>3. meddled' \in {meddled, TRUE}
  <2>1. CASE GadgetDown
    BY <2>1 DEF GadgetDown
  <2>2. CASE GadgetUp
    <3>1. meddled' \in BOOLEAN /\ meddled \in BOOLEAN
      BY DEF IInv, TypeOK
    <3>2. meddled => meddled'
      BY <2>2 DEF GadgetUp
    <3> QED BY <3>1, <3>2
  <2> QED BY <2>1, <2>2
<1>4. Owners' = {"pi", "target"} => meddled'
  BY OwnersMembersNext DEF IInv, NeverBoth
<1>5. Owner!Script
  BY <1>2, <1>3, <1>4 DEF Owner!Script
<1> QED BY <1>5 DEF OwnerStep, Owner!OwnerNext

LEMMA OwnerSteps ==
  ASSUME IInv, IInv', [Next]_vars
  PROVE  OwnerStep
<1>1. CASE Method
  BY <1>1, OwnerUntouched
     DEF Method, Detach, Attach, Eject, Edit, AttachImage, SaveImageUpload, DeleteImage
<1>2. CASE HelperStep
  BY <1>2, OwnerHelper
<1>3. CASE GadgetDown \/ GadgetUp
  BY <1>3, OwnerScripts
<1>4. CASE EndEdit \/ UploadRaises \/ StrayStep \/ OpenDownload \/ EndDownload \/ Crash
           \/ UNCHANGED vars
  BY <1>4, OwnerUntouched
     DEF EndEdit, UploadRaises, StrayStep, StrayCheck, StrayCommit, StrayDies, OpenDownload,
         EndDownload, Crash, vars
<1> QED BY <1>1, <1>2, <1>3, <1>4 DEF Next

\* The manager, its helper and all that goes on around them implement DriveOwner: at every
\* step the drive changes hands only by way of being free, unless the scripts meddle.
THEOREM ImplementsOwner == Spec => HandsOver
<1>1. IInv /\ IInv' /\ [Next]_vars => [Owner!OwnerNext]_(Owner!ownerVars)
  BY OwnerSteps DEF OwnerStep
<1> QED BY Inductive, OwnerInitially, <1>1, PTL DEF Spec, HandsOver, Owner!OwnerSpec

=============================================================================
