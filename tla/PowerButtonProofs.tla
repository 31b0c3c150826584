-------------------------- MODULE PowerButtonProofs --------------------------
(***************************************************************************)
(* PowerButton for any number of targets, requests and release attempts.   *)
(*                                                                         *)
(* The invariant is a mutual exclusion: a thread that has a pin holds its  *)
(* entry in `holding', and only one thread has it.  Hence no other request *)
(* in button mode drives a button while it is held, and whether a line is  *)
(* pressed follows from where that one thread is.                          *)
(***************************************************************************)
EXTENDS PowerButton, TLAPS

Has(r) == thread[r].at # "idle"

ThreadsHold == \A r \in Requests : Has(r) => Pin(r) \in holding

OneThread == \A r, s \in Requests : Has(r) /\ Has(s) /\ Pin(r) = Pin(s) => r = s

\* A pressed line belongs to a thread that has not let go of it yet, or to a fault.
PressedHasThread ==
    \A p \in Pins : line[p] = "pressed" /\ p \notin fault =>
        \E r \in Requests :
            Pin(r) = p /\ thread[r].at \in {"record", "hold", "release", "stuck"}

\* A thread that has let go of the line does not see it pressed again.
LetGo == \A r \in Requests : thread[r].at = "released" => line[Pin(r)] # "pressed"

\* The attempts are counted from the first one on.
Retrying ==
    \A r \in Requests :
        thread[r].at \in {"press", "record", "hold", "release"} => thread[r].tries > 0

IInv ==
    /\ TypeOK
    /\ Retrying
    /\ ThreadsHold
    /\ OneThread
    /\ PressedHasThread
    /\ LetGo

LEMMA NoPressType ==
  NoPress \in [at : Steps, pin : Pins, on : BOOLEAN, tries : 0..Tries] /\ NoPress.at = "idle"
  BY PowerAssumption DEF NoPress, Steps

LEMMA InitIInv == Init => IInv
<1> SUFFICES ASSUME Init PROVE IInv
  OBVIOUS
<1>1. TypeOK
  BY NoPressType DEF Init, TypeOK, Levels
<1>2. \A r \in Requests : thread[r].at = "idle"
  BY NoPressType DEF Init
<1>3. \A p \in Pins : line[p] = "unset"
  BY DEF Init
<1> QED
  BY <1>1, <1>2, <1>3 DEF IInv, Retrying, ThreadsHold, OneThread, PressedHasThread, LetGo, Has

LEMMA TypeStep ==
  ASSUME TypeOK, Retrying, [Next]_vars
  PROVE  TypeOK' /\ Retrying'
<1> USE PowerAssumption, NoPressType
    DEF TypeOK, Retrying, Levels, Steps, Drive, MayDrive, Goto, At, Pin, Unregister
<1>1. ASSUME NEW p \in Pins, NEW on \in BOOLEAN, RelaySet(p, on)
      PROVE TypeOK' /\ Retrying'
  BY <1>1 DEF RelaySet
<1>2. ASSUME NEW p \in Pins, NEW on \in BOOLEAN, NEW r \in Requests, Claim(r, p, on)
      PROVE TypeOK' /\ Retrying'
  BY <1>2 DEF Claim
<1>3. ASSUME NEW r \in Requests, ThreadStep(r) PROVE TypeOK' /\ Retrying'
  <2>1. CASE Press(r)  BY <2>1 DEF Press
  <2>2. CASE PressFails(r)  BY <2>2 DEF PressFails
  <2>3. CASE GiveBack(r)  BY <2>3 DEF GiveBack
  <2>4. CASE Record(r)  BY <2>4 DEF Record
  <2>5. CASE HoldOver(r)  BY <2>5 DEF HoldOver
  <2>6. CASE Release(r)  BY <2>6 DEF Release
  <2>7. CASE ReleaseFails(r)
    <3>1. thread[r].tries \in 1..Tries
      BY <2>7 DEF ReleaseFails
    <3>2. line' \in [Pins -> Levels]
      BY <2>7 DEF ReleaseFails
    <3>3. thread' = [thread EXCEPT ![r] =
                       [thread[r] EXCEPT !.tries = thread[r].tries - 1,
                                         !.at = IF thread[r].tries = 1 THEN "stuck" ELSE "release"]]
      BY <2>7 DEF ReleaseFails
    <3>4. thread'[r] = [at |-> IF thread[r].tries = 1 THEN "stuck" ELSE "release",
                        pin |-> Pin(r), on |-> thread[r].on, tries |-> thread[r].tries - 1]
      BY <3>3
    <3>5. thread[r].tries - 1 \in 0..Tries /\ (thread[r].tries # 1 => thread[r].tries - 1 > 0)
      BY <3>1
    <3>6. thread'[r] \in [at : Steps, pin : Pins, on : BOOLEAN, tries : 0..Tries]
      BY <3>4, <3>5
    <3>7. thread' = [thread EXCEPT ![r] = thread'[r]]
      BY <3>3
    <3> QED BY <2>7, <3>2, <3>4, <3>5, <3>6, <3>7 DEF ReleaseFails
  <2>8. CASE EndHold(r)  BY <2>8 DEF EndHold
  <2> QED BY <1>3, <2>1, <2>2, <2>3, <2>4, <2>5, <2>6, <2>7, <2>8 DEF ThreadStep
<1>4. CASE SetMode  BY <1>4 DEF SetMode
<1>5. CASE Stop  BY <1>5 DEF Stop
<1>6. CASE UNCHANGED vars  BY <1>6 DEF vars
<1> QED BY <1>1, <1>2, <1>3, <1>4, <1>5, <1>6 DEF Next

Exclusion == ThreadsHold /\ OneThread
Lines == PressedHasThread /\ LetGo

LEMMA ExclusionStep ==
  ASSUME IInv, [Next]_vars
  PROVE  Exclusion'
<1>0. TypeOK' /\ TypeOK /\ Exclusion
  BY TypeStep DEF IInv, Exclusion
<1> USE <1>0, NoPressType
    DEF Exclusion, ThreadsHold, OneThread, Has, TypeOK, Steps, Goto, At, Pin, Unregister
<1>1. ASSUME NEW p \in Pins, NEW on \in BOOLEAN, RelaySet(p, on) PROVE Exclusion'
  BY <1>1 DEF RelaySet
<1>2. ASSUME NEW p \in Pins, NEW on \in BOOLEAN, NEW r \in Requests, Claim(r, p, on)
      PROVE Exclusion'
  BY <1>2 DEF Claim
<1>3. ASSUME NEW r \in Requests, ThreadStep(r) PROVE Exclusion'
  <2>1. CASE Press(r)  BY <2>1 DEF Press
  <2>2. CASE PressFails(r)  BY <2>2 DEF PressFails
  <2>3. CASE GiveBack(r)  BY <2>3 DEF GiveBack
  <2>4. CASE Record(r)  BY <2>4 DEF Record
  <2>5. CASE HoldOver(r)  BY <2>5 DEF HoldOver
  <2>6. CASE Release(r)  BY <2>6 DEF Release
  <2>7. CASE ReleaseFails(r)  BY <2>7 DEF ReleaseFails
  <2>8. CASE EndHold(r)  BY <2>8 DEF EndHold
  <2> QED BY <1>3, <2>1, <2>2, <2>3, <2>4, <2>5, <2>6, <2>7, <2>8 DEF ThreadStep
<1>4. CASE SetMode  BY <1>4 DEF SetMode
<1>5. CASE Stop  BY <1>5 DEF Stop
<1>6. CASE UNCHANGED vars  BY <1>6 DEF vars
<1> QED BY <1>1, <1>2, <1>3, <1>4, <1>5, <1>6 DEF Next

LEMMA LinesStep ==
  ASSUME IInv, [Next]_vars
  PROVE  Lines'
<1>0. TypeOK' /\ TypeOK /\ Exclusion /\ Lines
  BY TypeStep DEF IInv, Exclusion, Lines
<1> USE <1>0, NoPressType
    DEF Exclusion, Lines, OneThread, PressedHasThread, LetGo, Has, TypeOK, Levels,
        Steps, Drive, MayDrive, Goto, At, Pin, Unregister
<1>1. ASSUME NEW p \in Pins, NEW on \in BOOLEAN, RelaySet(p, on) PROVE Lines'
  BY <1>1 DEF RelaySet
<1>2. ASSUME NEW p \in Pins, NEW on \in BOOLEAN, NEW r \in Requests, Claim(r, p, on)
      PROVE Lines'
  BY <1>2 DEF Claim
<1>3. ASSUME NEW r \in Requests, ThreadStep(r) PROVE Lines'
  <2>1. CASE Press(r)  BY <2>1 DEF Press
  <2>2. CASE PressFails(r)  BY <2>2 DEF PressFails
  <2>3. CASE GiveBack(r)  BY <2>3 DEF GiveBack
  <2>4. CASE Record(r)  BY <2>4 DEF Record
  <2>5. CASE HoldOver(r)  BY <2>5 DEF HoldOver
  <2>6. CASE Release(r)  BY <2>6 DEF Release
  <2>7. CASE ReleaseFails(r)  BY <2>7 DEF ReleaseFails
  <2>8. CASE EndHold(r)  BY <2>8 DEF EndHold
  <2> QED BY <1>3, <2>1, <2>2, <2>3, <2>4, <2>5, <2>6, <2>7, <2>8 DEF ThreadStep
<1>4. CASE SetMode  BY <1>4 DEF SetMode
<1>5. CASE Stop  BY <1>5 DEF Stop
<1>6. CASE UNCHANGED vars  BY <1>6 DEF vars
<1> QED BY <1>1, <1>2, <1>3, <1>4, <1>5, <1>6 DEF Next

LEMMA Accounted ==
  ASSUME IInv
  PROVE  PressedIsAccounted
  BY DEF IInv, ThreadsHold, PressedHasThread, PressedIsAccounted, Has

LEMMA Inductive == Spec => []IInv
<1>1. IInv /\ [Next]_vars => IInv'
  BY TypeStep, ExclusionStep, LinesStep DEF IInv, Exclusion, Lines
<1> QED BY InitIInv, <1>1, PTL DEF Spec

\* The controller's state keeps its type; in particular the release attempts are used up
\* before they run below zero.
THEOREM TypeCorrect == Spec => []TypeOK
<1>1. IInv => TypeOK
  BY DEF IInv
<1> QED BY Inductive, <1>1, PTL

\* For any number of targets, overlapping requests and release attempts, a button that the
\* service has pressed is being held or is reported as a fault.
THEOREM PressAccounted == Spec => []PressedIsAccounted
<1>1. IInv => PressedIsAccounted
  BY Accounted
<1> QED BY Inductive, <1>1, PTL

\* No hold is cut short by another press, for any number of overlapping requests: of the
\* threads only the one that has a pin drives its line, and it waits for the hold to be over.
THEOREM HoldKept == Spec => NoCutShort
<1>1. ASSUME IInv, [Next]_vars, NEW r \in Requests, Held(r), Held(r)'
      PROVE  line'[Pin(r)] \in {line[Pin(r)], "on", "off"}
  <2>0. line \in [Pins -> Levels] /\ Pin(r) \in Pins /\ Has(r)
    BY <1>1 DEF IInv, TypeOK, Pin, Held, Has
  <2>1. \A s \in Requests : s # r /\ Has(s) => Pin(s) # Pin(r)
    BY <1>1, <2>0 DEF IInv, OneThread
  <2>2. ASSUME NEW s \in Requests, ThreadStep(s) PROVE line'[Pin(r)] = line[Pin(r)]
    <3>1. CASE Press(s)  BY <1>1, <2>0, <2>1, <3>1 DEF Press, At, Has, Held, Drive
    <3>2. CASE PressFails(s)
      BY <1>1, <2>0, <2>1, <3>2 DEF PressFails, At, Has, Held, MayDrive, Drive
    <3>3. CASE Release(s)  BY <1>1, <2>0, <2>1, <3>3 DEF Release, At, Has, Held, Drive
    <3>4. CASE ReleaseFails(s)
      BY <1>1, <2>0, <2>1, <3>4 DEF ReleaseFails, At, Has, Held, MayDrive, Drive
    <3>5. CASE GiveBack(s) \/ Record(s) \/ HoldOver(s) \/ EndHold(s)
      BY <3>5 DEF GiveBack, Record, HoldOver, EndHold
    <3> QED BY <2>2, <3>1, <3>2, <3>3, <3>4, <3>5 DEF ThreadStep
  <2>3. ASSUME NEW p \in Pins, NEW on \in BOOLEAN,
               RelaySet(p, on) \/ \E s \in Requests : Claim(s, p, on)
        PROVE line'[Pin(r)] \in {line[Pin(r)], "on", "off"}
    BY <1>1, <2>0, <2>3 DEF RelaySet, Claim, MayDrive, Drive
  <2>4. CASE SetMode  BY <2>4 DEF SetMode
  <2>5. CASE Stop  BY <1>1, <2>5, NoPressType DEF Stop, Held
  <2>6. CASE UNCHANGED vars  BY <2>6 DEF vars
  <2> QED BY <1>1, <2>2, <2>3, <2>4, <2>5, <2>6 DEF Next
<1>2. IInv /\ [Next]_vars
        => \A r \in Requests : Held(r) /\ Held(r)'
             => line'[Pin(r)] \in {line[Pin(r)], "on", "off"}
  BY <1>1
<1> QED BY Inductive, <1>2, PTL DEF Spec, NoCutShort

=============================================================================
