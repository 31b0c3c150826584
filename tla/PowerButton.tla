----------------------------- MODULE PowerButton -----------------------------
(***************************************************************************)
(* PowerController: one GPIO line per target, latched like a relay or      *)
(* pressed like a front-panel button, as the configured mode says.         *)
(*                                                                         *)
(* A press is a request thread that claims the pin, drives it and records  *)
(* the state, and the worker thread that then holds and releases it; each  *)
(* step is one section under the controller's lock.  A line is named for   *)
(* who drove it last: "pressed" and "on" are the same level to a target,   *)
(* as are "released" and "off".                                            *)
(***************************************************************************)
EXTENDS Naturals

CONSTANTS
    Pins,           \* the configured targets
    Requests,       \* requests that can be in flight at once, with their workers
    Tries           \* attempts to release a line (five)

ASSUME PowerAssumption == Tries \in Nat \ {0} /\ Pins # {}

VARIABLES
    mode,           \* [power] mode, read afresh by every request
    line,
    state,          \* pins whose target is taken to be on
    holding, fault, \* pins with a hold in progress; pins with a failed release
    thread

vars == <<mode, line, state, holding, fault, thread>>

\* "doubtful" is pressed by a drive that was reported as failed; "orphaned" is pressed by a
\* service that has stopped since.
Levels == {"unset", "on", "off", "pressed", "released", "doubtful", "orphaned"}
Steps == {"idle", "press", "giveback", "record", "hold", "release", "released", "stuck"}
NoPress == [at |-> "idle", pin |-> CHOOSE p \in Pins : TRUE, on |-> FALSE, tries |-> 0]

Init ==
    /\ mode \in {"relay", "button"}
    /\ line = [p \in Pins |-> "unset"]
    /\ state = {} /\ holding = {} /\ fault = {}
    /\ thread = [r \in Requests |-> NoPress]

Pin(r) == thread[r].pin
At(r, step) == thread[r].at = step
Goto(r, step) == thread' = [thread EXCEPT ![r].at = step]

Drive(p, level) == line' = [line EXCEPT ![p] = level]
MayDrive(p, level) == Drive(p, level) \/ UNCHANGED line

Unregister(r) ==
    /\ holding' = holding \ {Pin(r)}
    /\ thread' = [thread EXCEPT ![r] = NoPress]

-----------------------------------------------------------------------------
(* Relay mode.                                                             *)

\* A drive that fails or times out may have reached the line.  `holding' is not looked at: a
\* button that was being held when the mode changed is driven like any other line.  (The
\* request read the mode a little earlier; two SetMode around this step are the same.)
RelaySet(p, on) ==
    /\ mode = "relay"
    /\ MayDrive(p, IF on THEN "on" ELSE "off")
    /\ UNCHANGED <<mode, state, holding, fault, thread>>

-----------------------------------------------------------------------------
(* Button mode: _press.                                                    *)

\* Slip: a hold in progress is not asked about.
ClaimUnasked(r, p, on) ==
    /\ mode = "button" /\ At(r, "idle")
    /\ holding' = holding \cup {p}
    /\ thread' = [thread EXCEPT ![r] = [at |-> "press", pin |-> p, on |-> on, tries |-> Tries]]
    /\ UNCHANGED <<mode, line, state, fault>>

Claim(r, p, on) ==
    /\ mode = "button" /\ At(r, "idle")
    /\ p \notin holding
    /\ holding' = holding \cup {p}
    /\ thread' = [thread EXCEPT ![r] = [at |-> "press", pin |-> p, on |-> on, tries |-> Tries]]
    /\ UNCHANGED <<mode, line, state, fault>>

Press(r) ==
    /\ At(r, "press")
    /\ Drive(Pin(r), "pressed")
    /\ Goto(r, "record")
    /\ UNCHANGED <<mode, state, holding, fault>>

PressFails(r) ==
    /\ At(r, "press")
    /\ MayDrive(Pin(r), "doubtful")
    /\ Goto(r, "giveback")
    /\ UNCHANGED <<mode, state, holding, fault>>

GiveBack(r) ==
    /\ At(r, "giveback")
    /\ Unregister(r)
    /\ UNCHANGED <<mode, line, state, fault>>

Record(r) ==
    /\ At(r, "record")
    /\ state' = IF thread[r].on THEN state \cup {Pin(r)} ELSE state \ {Pin(r)}
    /\ fault' = fault \ {Pin(r)}
    /\ Goto(r, "hold")
    /\ UNCHANGED <<mode, line, holding>>

-----------------------------------------------------------------------------
(* _hold_worker.                                                           *)

HoldOver(r) ==
    /\ At(r, "hold")
    /\ Goto(r, "release")
    /\ UNCHANGED <<mode, line, state, holding, fault>>

Release(r) ==
    /\ At(r, "release")
    /\ Drive(Pin(r), "released")
    /\ Goto(r, "released")
    /\ UNCHANGED <<mode, state, holding, fault>>

\* Slip: the attempts have no end.
ReleaseFailsForEver(r) ==
    /\ At(r, "release")
    /\ MayDrive(Pin(r), "released")
    /\ thread' = [thread EXCEPT ![r].tries = @ - 1]
    /\ UNCHANGED <<mode, state, holding, fault>>

\* Slip: the last failure passes for a release.
ReleaseFailsSilently(r) ==
    /\ At(r, "release")
    /\ MayDrive(Pin(r), "released")
    /\ thread' = [thread EXCEPT ![r].tries = @ - 1,
                                ![r].at = IF thread[r].tries = 1 THEN "released" ELSE @]
    /\ UNCHANGED <<mode, state, holding, fault>>

\* Like every drive that fails, this one may have reached the line.
ReleaseFails(r) ==
    /\ At(r, "release")
    /\ MayDrive(Pin(r), "released")
    /\ thread' = [thread EXCEPT ![r].tries = @ - 1,
                                ![r].at = IF thread[r].tries = 1 THEN "stuck" ELSE @]
    /\ UNCHANGED <<mode, state, holding, fault>>

\* Slip: the pin is given back at the end of a hold only if its line was released.
EndHoldWhenReleased(r) ==
    \/ At(r, "released") /\ fault' = fault \ {Pin(r)} /\ Unregister(r) /\ UNCHANGED <<mode, line, state>>
    \/ At(r, "stuck") /\ fault' = fault \cup {Pin(r)} /\ thread' = [thread EXCEPT ![r] = NoPress]
       /\ UNCHANGED <<mode, line, state, holding>>

EndHold(r) ==
    /\ \/ At(r, "released") /\ fault' = fault \ {Pin(r)}
       \/ At(r, "stuck") /\ fault' = fault \cup {Pin(r)}
    /\ Unregister(r)
    /\ UNCHANGED <<mode, line, state>>

-----------------------------------------------------------------------------
(* Around them.                                                            *)

\* The mode is changed on the Config page, whatever is being held.
SetMode ==
    /\ mode' \in {"relay", "button"} \ {mode}
    /\ UNCHANGED <<line, state, holding, fault, thread>>

\* The service stops or is restarted, as some settings ask the user to do: the workers are
\* daemon threads, which the interpreter does not wait for, and nothing is stored.
Stop ==
    /\ line' = [p \in Pins |-> IF line[p] = "pressed" THEN "orphaned" ELSE line[p]]
    /\ state' = {} /\ holding' = {} /\ fault' = {}
    /\ thread' = [r \in Requests |-> NoPress]
    /\ UNCHANGED mode

ThreadStep(r) ==
    \/ Press(r) \/ PressFails(r) \/ GiveBack(r) \/ Record(r)
    \/ HoldOver(r) \/ Release(r) \/ ReleaseFails(r) \/ EndHold(r)

Next ==
    \/ \E p \in Pins, on \in BOOLEAN :
          RelaySet(p, on) \/ \E r \in Requests : Claim(r, p, on)
    \/ \E r \in Requests : ThreadStep(r)
    \/ SetMode
    \/ Stop

\* A thread runs on, its sleep ends, and every drive has a time-out.
Spec ==
    /\ Init /\ [][Next]_vars
    /\ \A r \in Requests : WF_vars(ThreadStep(r))

-----------------------------------------------------------------------------
(* Properties.                                                             *)

TypeOK ==
    /\ mode \in {"relay", "button"}
    /\ line \in [Pins -> Levels]
    /\ state \subseteq Pins /\ holding \subseteq Pins /\ fault \subseteq Pins
    /\ thread \in [Requests -> [at : Steps, pin : Pins, on : BOOLEAN, tries : 0..Tries]]

\* A button the service has pressed is never left so in silence: its hold goes on, or the
\* status shows a fault (_hold_worker: "instead of silently reporting a clean state"),
\* whatever drives fail and however requests, holds and mode changes interleave.
PressedIsAccounted ==
    \A p \in Pins : line[p] = "pressed" => p \in holding \cup fault

Held(r) == thread[r].at \in {"record", "hold"}

\* No press is cut short by the worker or the failing press of another one, or a forced
\* power-off would end as a tap: no step of a press drives the line of a button that another
\* one holds.  A relay request does (its levels are "on" and "off"), once the mode has been
\* changed in mid-hold: an "off" then does cut the hold short, and the code lets it.
NoCutShort ==
    [][\A r \in Requests : Held(r) /\ Held(r)'
         => line'[Pin(r)] \in {line[Pin(r)], "on", "off"}]_vars

\* A target does not stay refused: every hold ends, also when no release gets through.
HoldsEnd == \A p \in Pins : (p \in holding) ~> (p \notin holding)

\* "If the service is hard-killed (SIGKILL) mid-hold the finally-release cannot run"
\* (power.py): any other stop of the service lets go of a button that is held.
StopReleases ==
    [][\A p \in Pins : p \in holding /\ line[p] = "pressed" => line'[p] # "orphaned"]_vars

=============================================================================
