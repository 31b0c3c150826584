-------------------------- MODULE GadgetHelperProofs --------------------------
(***************************************************************************)
(* GadgetHelper: its type and what its exit status 0 means, on every path  *)
(* through the rungs.  A helper has no status while it runs, and a host    *)
(* coming or going never unbinds the gadget.                               *)
(***************************************************************************)
EXTENDS GadgetHelper, TLAPS

NoStatusYet == Running => helper.rc = NoExit

HelperInv ==
    /\ GadgetTypeOK
    /\ NoStatusYet
    /\ SuccessMeansBound

USE DEF NoExit

LEMMA HelperInvInit == GadgetInit => HelperInv
  BY DEF GadgetInit, HelperInv, GadgetTypeOK, HelperStates, Links, Steps, NoStatusYet, Running,
         SuccessMeansBound

-----------------------------------------------------------------------------
(* What the updates of the helper's record amount to.                      *)

\* It goes on, without a status.
GoesOn == helper' \in HelperStates /\ helper'.rc = helper.rc

\* It exits, with 0 only if the gadget is bound.
Exits == helper' \in HelperStates /\ helper'.at = "off" /\ (helper'.rc = 0 => Bound')

LEMMA GotoGoesOn ==
  ASSUME helper \in HelperStates, NEW step \in Steps, Goto(step)
  PROVE  GoesOn
  BY DEF Goto, HelperStates, GoesOn

LEMMA NextRungGoesOn ==
  ASSUME helper \in HelperStates, NEW rung \in 1..4, NextRung(rung)
  PROVE  GoesOn
  BY DEF NextRung, HelperStates, Steps, GoesOn

LEMMA RebuildGoesOn ==
  ASSUME GadgetTypeOK, NEW rung \in 1..4, BeginRebuild(rung)
  PROVE  GoesOn /\ link' \in Links
<1>1. GoesOn
  BY DEF BeginRebuild, GadgetTypeOK, HelperStates, Steps, GoesOn
<1>2. link' \in Links
  BY DEF BeginRebuild, TearDown, Links
<1> QED BY <1>1, <1>2

LEMMA ExitExits ==
  ASSUME helper \in HelperStates, NEW rc \in {0, 1, 3}, Exit(rc), rc = 0 => Bound'
  PROVE  Exits
<1>1. helper' = [verb |-> helper.verb, at |-> "off", rung |-> 1, rc |-> rc,
                 seen |-> helper.seen]
  BY DEF Exit, HelperStates
<1>2. helper' \in HelperStates
  BY <1>1 DEF HelperStates, Steps
<1>3. helper'.at = "off" /\ helper'.rc = rc
  BY <1>1
<1> QED BY <1>2, <1>3 DEF Exits

LEMMA BouncedGoesOnOrExits ==
  ASSUME helper \in HelperStates, NEW rc \in {0, 1}, Bounced(rc), rc = 0 => Bound'
  PROVE  GoesOn \/ Exits
<1>1. CASE helper.verb = "recover"
  <2>1. NextRung(1)
    BY <1>1 DEF Bounced, NextRung
  <2> QED BY <2>1, NextRungGoesOn
<1>2. CASE helper.verb # "recover"
  BY <1>2, ExitExits DEF Bounced
<1> QED BY <1>1, <1>2

LEMMA RunningStep ==
  ASSUME HelperInv, Running, link' \in Links, udc' \in BOOLEAN, GoesOn \/ Exits
  PROVE  HelperInv'
<1>1. helper.rc = NoExit
  BY DEF HelperInv, NoStatusYet
<1>2. GadgetTypeOK'
  BY DEF GadgetTypeOK, GoesOn, Exits
<1>3. NoStatusYet' /\ SuccessMeansBound'
  BY <1>1 DEF GoesOn, Exits, NoStatusYet, SuccessMeansBound, Running
<1> QED BY <1>2, <1>3 DEF HelperInv

-----------------------------------------------------------------------------
(* The actions.                                                            *)

LEMMA StartRefused ==
  ASSUME HelperInv, (\E verb \in Verbs : Start(verb)) \/ Refused
  PROVE  HelperInv'
<1>1. ASSUME NEW verb \in Verbs, Start(verb) PROVE HelperInv'
  BY <1>1, VerbsAssumption
     DEF Start, HelperInv, GadgetTypeOK, HelperStates, Links, Steps, NoStatusYet, SuccessMeansBound
<1>2. CASE Refused
  <2>0. helper' = [verb |-> helper.verb, at |-> "off", rung |-> 1, rc |-> 3,
                   seen |-> helper.seen]
    BY <1>2 DEF Refused, Exit, HelperInv, GadgetTypeOK, HelperStates
  <2>1. helper' \in HelperStates /\ helper'.at = "off" /\ helper'.rc = 3
    BY <2>0 DEF HelperInv, GadgetTypeOK, HelperStates, Steps
  <2> QED
    BY <1>2, <2>1
       DEF Refused, HelperInv, GadgetTypeOK, NoStatusYet, Running, SuccessMeansBound
<1> QED BY <1>1, <1>2

LEMMA HelperPreserves ==
  ASSUME HelperInv, HelperStep
  PROVE  HelperInv'
<1>0. GadgetTypeOK /\ helper \in HelperStates /\ link \in Links /\ udc \in BOOLEAN
  BY DEF HelperInv, GadgetTypeOK
<1> USE <1>0 DEF Links
<1>1. Running
  BY DEF HelperStep, Running, Unusable, SoftConnect, UnbindFallback, AlreadyUnbound, Rebind,
         Fallback, AwaitBound, LinkedUp, StillDown, UdcUnbind, UdcRebind, Rebuild,
         BuildGadget, NoDriver, Reprobe, Reattach, Restore
<1>2. link' \in Links
  <2>1. CASE Fallback \/ Rebuild \/ Restore
    BY <2>1, RebuildGoesOn DEF Fallback, Rebuild, Restore
  <2>2. CASE Unusable \/ AlreadyUnbound \/ LinkedUp \/ StillDown \/ NoDriver \/ Reattach
    BY <2>2 DEF Unusable, AlreadyUnbound, LinkedUp, StillDown, NoDriver, Reattach
  <2>3. CASE SoftConnect \/ UnbindFallback \/ Rebind \/ AwaitBound
    BY <2>3 DEF SoftConnect, UnbindFallback, Rebind, AwaitBound
  <2>4. CASE UdcUnbind \/ UdcRebind \/ BuildGadget \/ Reprobe
    BY <2>4 DEF UdcUnbind, UdcRebind, BuildGadget, BuildUp, Reprobe, TearDown
  <2> QED BY <2>1, <2>2, <2>3, <2>4 DEF HelperStep
<1>3. udc' \in BOOLEAN
  BY DEF HelperStep, Unusable, SoftConnect, UnbindFallback, AlreadyUnbound, Rebind,
         Fallback, AwaitBound, LinkedUp, StillDown, UdcUnbind, UdcRebind, Rebuild,
         BuildGadget, NoDriver, Reprobe, Reattach, Restore
<1>4. GoesOn \/ Exits
  <2>1. CASE Unusable
    BY <2>1, BouncedGoesOnOrExits DEF Unusable
  <2>2. CASE SoftConnect
    BY <2>2, BouncedGoesOnOrExits DEF SoftConnect, Bound
  <2>3. CASE UnbindFallback
    BY <2>3, BouncedGoesOnOrExits, GotoGoesOn DEF UnbindFallback, Steps
  <2>4. CASE AlreadyUnbound
    BY <2>4, GotoGoesOn DEF AlreadyUnbound, Steps
  <2>5. CASE Rebind
    BY <2>5, BouncedGoesOnOrExits, GotoGoesOn DEF Rebind, Bound, Steps
  <2>6. CASE Fallback \/ Rebuild \/ Restore
    BY <2>6, RebuildGoesOn DEF Fallback, Rebuild, Restore
  <2>7. CASE AwaitBound
    BY <2>7, BouncedGoesOnOrExits DEF AwaitBound, Bound, GoesOn
  <2>8. CASE LinkedUp
    BY <2>8 DEF LinkedUp, HelperStates, Steps, Exits, Bound
  <2>9. CASE StillDown
    <3>1. Goto("udc") \/ Goto("rebuild") \/ Goto("reprobe") \/ Exit(1)
      BY <2>9 DEF StillDown
    <3> QED BY <3>1, GotoGoesOn, ExitExits DEF Steps
  <2>10. CASE UdcUnbind
    BY <2>10, GotoGoesOn, NextRungGoesOn DEF UdcUnbind, Steps
  <2>11. CASE UdcRebind
    BY <2>11, NextRungGoesOn DEF UdcRebind
  <2>12. CASE BuildGadget
    <3>1. helper.rung \in 1..4
      BY DEF HelperStates
    <3> QED BY <2>12, <3>1, GotoGoesOn, NextRungGoesOn DEF BuildGadget, Steps
  <2>13. CASE NoDriver
    BY <2>13, NextRungGoesOn DEF NoDriver
  <2>14. CASE Reprobe
    BY <2>14, GotoGoesOn, NextRungGoesOn DEF Reprobe, Steps
  <2>15. CASE Reattach
    BY <2>15, GotoGoesOn DEF Reattach, Steps
  <2> QED
    BY <2>1, <2>2, <2>3, <2>4, <2>5, <2>6, <2>7, <2>8, <2>9, <2>10, <2>11, <2>12, <2>13,
       <2>14, <2>15 DEF HelperStep
<1> QED BY <1>1, <1>2, <1>3, <1>4, RunningStep

LEMMA HostSteps ==
  ASSUME HelperInv, HostStep \/ UNCHANGED gadgetVars
  PROVE  HelperInv'
  BY DEF HelperInv, GadgetTypeOK, Links, NoStatusYet, Running, SuccessMeansBound, Bound, HostStep,
         Enumerate, Disconnect, gadgetVars

\* Whoever composes the helper with more has its invariant: the steps are all it takes.
LEMMA HelperInductive == GadgetInit /\ [][GadgetNext]_gadgetVars => []HelperInv
<1>1. HelperInv /\ [GadgetNext]_gadgetVars => HelperInv'
  BY StartRefused, HelperPreserves, HostSteps DEF GadgetNext
<1> QED BY HelperInvInit, <1>1, PTL

\* The helper's and the link's variables keep their types on every path.
THEOREM HelperTypeCorrect == GadgetSpec => []GadgetTypeOK
<1>1. HelperInv => GadgetTypeOK
  BY DEF HelperInv
<1> QED BY HelperInductive, <1>1, PTL DEF GadgetSpec

\* Whatever verbs the clients use and however the host behaves, an exit status 0 was and
\* stays the status of a gadget that is bound to its controller.
THEOREM SuccessIsBound == GadgetSpec => []SuccessMeansBound
<1>1. HelperInv => SuccessMeansBound
  BY DEF HelperInv
<1> QED BY HelperInductive, <1>1, PTL DEF GadgetSpec

=============================================================================
