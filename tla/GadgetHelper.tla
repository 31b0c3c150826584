---------------------------- MODULE GadgetHelper ----------------------------
(***************************************************************************)
(* The privileged USB helper (kvm-gadget-helper): the quick re-enumerate   *)
(* and the escalating recovery, one step per action that the host, the web *)
(* service or the poller can observe in between.                           *)
(*                                                                         *)
(* `link' is what sysfs and configfs show of the gadget: no configfs tree, *)
(* a tree without a UDC, a bound gadget in kernel state "not attached"     *)
(* (here "detached"), one the host has addressed, one it has configured.   *)
(* `udc' says whether a controller is listed in /sys/class/udc.            *)
(* Retry loops are one action that may repeat; how often is abstracted.    *)
(***************************************************************************)
EXTENDS Naturals, Sequences, FiniteSets

CONSTANT Verbs      \* the verbs the clients request

ASSUME VerbsAssumption == Verbs \subseteq {"reenumerate", "recover"}

VARIABLES link, udc, helper

gadgetVars == <<link, udc, helper>>

Links == {"absent", "unbound", "detached", "addressed", "configured"}
Steps == {"off", "bounce", "rebind", "fallback", "await", "linked", "udc",
          "rebind2", "rebuild", "up", "reprobe", "reattach", "restore"}
NoExit == 9         \* no exit status yet

Bound == link \in {"detached", "addressed", "configured"}
Running == helper.at # "off"

Goto(step) == helper' = [helper EXCEPT !.at = step]
Exit(rc) == helper' = [helper EXCEPT !.at = "off", !.rung = 1, !.rc = rc]

\* The end of _do_reenumerate: `recover' swallows its SystemExit and looks at the link.
Bounced(rc) ==
    IF helper.verb = "recover"
    THEN helper' = [helper EXCEPT !.at = "linked", !.rung = 1]
    ELSE Exit(rc)

NextRung(rung) == helper' = [helper EXCEPT !.at = "linked", !.rung = rung]

GadgetInit ==
    /\ link = "detached"
    /\ udc = TRUE
    /\ helper = [verb |-> "reenumerate", at |-> "off", rung |-> 1,
                 rc |-> NoExit, seen |-> "detached"]

-----------------------------------------------------------------------------
(* The process: started under the flock, or refused by it with exit 3.     *)

Start(verb) ==
    /\ ~Running
    /\ helper' = [verb |-> verb, at |-> "bounce", rung |-> 1, rc |-> NoExit,
                  seen |-> "detached"]
    /\ UNCHANGED <<link, udc>>

Refused ==
    /\ ~Running
    /\ Exit(3)
    /\ UNCHANGED <<link, udc>>

-----------------------------------------------------------------------------
(* _do_reenumerate, which is also the first rung of `recover'.             *)

Unusable ==
    /\ helper.at = "bounce"
    /\ link = "absent" \/ (link = "unbound" /\ ~udc)
    /\ Bounced(1)
    /\ UNCHANGED <<link, udc>>

\* The D+ pull-up is toggled: the host sees a disconnect, the nodes survive.
SoftConnect ==
    /\ helper.at = "bounce" /\ Bound
    /\ link' = "detached"
    /\ Bounced(0)
    /\ UNCHANGED udc

\* No soft_connect, or it failed half way: unbind instead, and if that fails too, give up.
UnbindFallback ==
    /\ helper.at = "bounce" /\ Bound
    /\ \/ link' = "unbound" /\ Goto("rebind")
       \/ link' \in {link, "detached"} /\ Bounced(1)
    /\ UNCHANGED udc

AlreadyUnbound ==
    /\ helper.at = "bounce" /\ link = "unbound" /\ udc
    /\ Goto("rebind")
    /\ UNCHANGED <<link, udc>>

Rebind ==
    /\ helper.at = "rebind"
    /\ \/ udc /\ link' = "detached" /\ Bounced(0)
       \/ link' = link /\ Goto("fallback")
    /\ UNCHANGED udc

\* kvm-gadget-down.sh, which ignores its own errors: the tree may survive in part.
TearDown == link' \in (IF link = "absent" THEN {"absent"} ELSE {"absent", "unbound"})

\* _rebuild_gadget, asked for at a rung: down, then up.
BeginRebuild(rung) ==
    /\ TearDown
    /\ helper' = [helper EXCEPT !.at = "up", !.rung = rung]

\* kvm-gadget-up.sh: a bound gadget, or what is left when the script stops half way.
BuildUp == link' \in {"absent", "unbound"} \cup (IF udc THEN {"detached"} ELSE {})

Fallback ==
    /\ helper.at = "fallback"
    /\ BeginRebuild(1)
    /\ UNCHANGED udc

\* Slip: the rebuild's result is not looked at.
AwaitNothing ==
    /\ helper.at = "await"
    /\ Bounced(0)
    /\ UNCHANGED <<link, udc>>

\* The loop after the rebuild: the scripts bound the gadget, or it is bound directly.
AwaitBound ==
    /\ helper.at = "await"
    /\ \/ Bound /\ Bounced(0) /\ UNCHANGED link
       \/ link = "unbound" /\ udc /\ link' = "detached" /\ UNCHANGED helper
       \/ ~Bound /\ Bounced(1) /\ UNCHANGED link
    /\ UNCHANGED udc

-----------------------------------------------------------------------------
(* _do_recover: one deeper rung for every look at a link that stays down.  *)

\* _linked_up is true of any state but "not attached" and "unknown".
LinkedUp ==
    /\ helper.at = "linked" /\ link \in {"addressed", "configured"}
    /\ helper' = [verb |-> "recover", at |-> "off", rung |-> 1, rc |-> 0, seen |-> link]
    /\ UNCHANGED <<link, udc>>

\* Slip: after the last rung the ladder starts over.
StillDownAgain ==
    /\ helper.at = "linked" /\ link \notin {"addressed", "configured"}
    /\ \/ helper.rung = 1 /\ Goto(IF Bound THEN "udc" ELSE "rebuild")
       \/ helper.rung = 2 /\ Goto("rebuild")
       \/ helper.rung = 3 /\ Goto("reprobe")
       \/ helper.rung = 4 /\ Goto("bounce")
    /\ UNCHANGED <<link, udc>>

StillDown ==
    /\ helper.at = "linked" /\ link \notin {"addressed", "configured"}
    /\ \/ helper.rung = 1 /\ Goto(IF Bound THEN "udc" ELSE "rebuild")
       \/ helper.rung = 2 /\ Goto("rebuild")
       \/ helper.rung = 3 /\ Goto("reprobe")
       \/ helper.rung = 4 /\ Exit(1)
    /\ UNCHANGED <<link, udc>>

UdcUnbind ==
    /\ helper.at = "udc"
    /\ \/ link' = "unbound" /\ Goto("rebind2")
       \/ link' = link /\ NextRung(2)
    /\ UNCHANGED udc

UdcRebind ==
    /\ helper.at = "rebind2"
    /\ link' \in (IF udc THEN {"detached", "unbound"} ELSE {"unbound"})
    /\ NextRung(2)
    /\ UNCHANGED udc

Rebuild ==
    /\ helper.at = "rebuild"
    /\ BeginRebuild(3)
    /\ UNCHANGED udc

\* The second script of _rebuild_gadget; the rung says who asked for the rebuild.
BuildGadget ==
    /\ helper.at = "up"
    /\ BuildUp
    /\ IF helper.rung = 1 THEN Goto("await") ELSE NextRung(helper.rung)
    /\ UNCHANGED udc

\* No dwc2 driver, or no device bound to it: nothing is touched.
NoDriver ==
    /\ helper.at = "reprobe"
    /\ NextRung(4)
    /\ UNCHANGED <<link, udc>>

\* The gadget is torn down, then the platform device unbound; a failed unbind returns
\* without a rebuild.
Reprobe ==
    /\ helper.at = "reprobe"
    /\ TearDown
    /\ \/ udc' = FALSE /\ Goto("reattach")
       \/ udc' = udc /\ NextRung(4)

\* A failed bind still rebuilds, and so does the ordinary end.
Reattach ==
    /\ helper.at = "reattach"
    /\ udc' \in BOOLEAN
    /\ Goto("restore")
    /\ UNCHANGED link

Restore ==
    /\ helper.at = "restore"
    /\ BeginRebuild(4)
    /\ UNCHANGED udc

-----------------------------------------------------------------------------
(* The host.                                                               *)

Enumerate ==
    /\ \/ link = "detached" /\ link' = "addressed"
       \/ link = "addressed" /\ link' = "configured"
    /\ UNCHANGED <<udc, helper>>

\* Cable, port reset, target off or rebooting.
Disconnect ==
    /\ link \in {"addressed", "configured"}
    /\ link' = "detached"
    /\ UNCHANGED <<udc, helper>>

HelperStep ==
    \/ Unusable \/ SoftConnect \/ UnbindFallback \/ AlreadyUnbound \/ Rebind
    \/ Fallback \/ AwaitBound \/ LinkedUp \/ StillDown \/ UdcUnbind \/ UdcRebind
    \/ Rebuild \/ BuildGadget \/ NoDriver \/ Reprobe \/ Reattach \/ Restore

HostStep == Enumerate \/ Disconnect

GadgetNext ==
    \/ \E verb \in Verbs : Start(verb)
    \/ Refused
    \/ HelperStep
    \/ HostStep

\* A started helper is a process the kernel keeps running, and each of its retry loops
\* counts its tries.
GadgetSpec == GadgetInit /\ [][GadgetNext]_gadgetVars /\ WF_gadgetVars(HelperStep)

-----------------------------------------------------------------------------

HelperStates ==
    [verb : {"reenumerate", "recover"}, at : Steps, rung : 1..4, rc : {0, 1, 3, NoExit},
     seen : Links]

GadgetTypeOK ==
    /\ link \in Links
    /\ udc \in BOOLEAN
    /\ helper \in HelperStates

\* A helper that reported success left the gadget bound to a controller: the target is
\* never silently left without USB, on any path through the fallbacks.
SuccessMeansBound == helper.rc = 0 => Bound

\* Every run of the helper comes to an end, however often the host comes and goes.
HelperEnds == Running ~> ~Running

\* A recovery that reports success found the gadget enumerated (_linked_up: "True if the
\* host has (re)enumerated us"), not stuck half way.
RecoveredMeansEnumerated ==
    helper.verb = "recover" /\ helper.rc = 0 => helper.seen = "configured"

=============================================================================
