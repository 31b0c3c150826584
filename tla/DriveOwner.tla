----------------------------- MODULE DriveOwner -----------------------------
(***************************************************************************)
(* What the mass-storage manager promises of the editable drive: the Pi    *)
(* and the target own it in turn, and it is free in between.  Only the     *)
(* gadget scripts, which fill and empty the LUN without asking who edits,  *)
(* can override that, and then the drive is known as meddled with until    *)
(* the target has released it.                                             *)
(***************************************************************************)
EXTENDS FiniteSets, Naturals

VARIABLES owners, meddled

ownerVars == <<owners, meddled>>

OwnerInit == owners \in {{}, {"target"}} /\ meddled = FALSE

Take(who) ==
    /\ owners = {} \/ meddled
    /\ owners' = owners \cup {who}
    /\ UNCHANGED meddled

Release(who) ==
    /\ who \in owners
    /\ owners' = owners \ {who}
    /\ meddled' \in (IF who = "target" THEN {meddled, FALSE} ELSE {meddled})

\* Emptying an empty LUN settles what the scripts did, too.
Settle ==
    /\ "target" \notin owners
    /\ meddled' = FALSE
    /\ UNCHANGED owners

Script ==
    /\ owners' \in {owners \cup {"target"}, owners \ {"target"}}
    /\ meddled' \in {meddled, TRUE}
    /\ owners' = {"pi", "target"} => meddled'

OwnerNext ==
    \/ \E who \in {"pi", "target"} : Take(who) \/ Release(who)
    \/ Settle
    \/ Script

OwnerSpec == OwnerInit /\ [][OwnerNext]_ownerVars

=============================================================================
