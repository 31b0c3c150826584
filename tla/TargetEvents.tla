---------------------------- MODULE TargetEvents ----------------------------
(***************************************************************************)
(* The semantic events that the poller derives from two samples of a       *)
(* domain (target_events.py), and a listener that only reads them.  The    *)
(* domains have nothing to do with each other here, so a behaviour follows *)
(* one of them.                                                            *)
(***************************************************************************)
EXTENDS Naturals

CONSTANTS
    Ports,          \* serial devices
    Targets,        \* labels of power targets
    MaxReconnects   \* bound: silent reconnects of one port

VARIABLES
    domain,     \* the domain this behaviour follows
    sample,     \* the poller's last sample of it, as a sequence: none before the first
    told        \* what the semantic events since then add up to

pollVars == <<domain, sample, told>>

\* Samples.  A serial port that is not registered is absent from the list; power targets
\* are matched by their label.
LinkStates == {"unbound", "unknown", "not attached", "attached", "powered", "default",
               "addressed", "suspended", "configured"}
UsbSamples == [state : LinkStates, acm : BOOLEAN]
IsBound(s) == s.state # "unbound"

HidDevices == {"keyboard", "mouse", "mouse_rel"}
HidSamples == [HidDevices -> BOOLEAN]

Absent == [listed |-> FALSE, open |-> FALSE, reconnects |-> 0, error |-> FALSE]
PortStates == [listed : {TRUE}, open : BOOLEAN, reconnects : 0 .. MaxReconnects,
               error : BOOLEAN] \cup {Absent}
SerialSamples == [Ports -> PortStates]

PowerStates == {"on", "off", "unknown", "absent"}
PowerSamples == [Targets -> PowerStates]

DriveSamples == {"attached", "editing", "detached"}

SamplesOf(d) ==
    CASE d = "usb" -> UsbSamples
      [] d = "hid" -> HidSamples
      [] d = "serial" -> SerialSamples
      [] d = "power" -> PowerSamples
      [] d = "drive" -> DriveSamples

Domains == {"usb", "hid", "serial", "power", "drive"}

-----------------------------------------------------------------------------
(* One operator per function of target_events.py.  An event is its type and *)
(* the device or target it names.  The code returns lists; as no two events *)
(* of a list contradict each other (SemanticAddsUp), sets will do.          *)

Event(type, of) == [type |-> type, of |-> of]
When(condition, type, of) == IF condition THEN {Event(type, of)} ELSE {}

\* The events of each member of a set.
Each(set, Ev(_)) == UNION {Ev(x) : x \in set}

Enumerating == {"attached", "powered", "default", "addressed"}
PreLink == {"not attached", "unbound", "unknown"}

\* usb_events: the binding and the link.
UsbEvents(prev, cur) ==
    When(IsBound(cur) /\ ~IsBound(prev), "gadget.bound", "usb")
    \cup When(IsBound(prev) /\ ~IsBound(cur), "gadget.unbound", "usb")
    \cup IF cur.state = prev.state THEN {}
         ELSE When(cur.state = "configured" /\ prev.state = "suspended", "usb.resumed", "usb")
              \cup When(cur.state = "configured" /\ prev.state # "suspended",
                        "usb.enumerated", "usb")
              \cup When(cur.state = "suspended", "usb.suspended", "usb")
              \cup When(cur.state = "not attached", "usb.detached", "usb")
              \cup When(cur.state \in Enumerating /\ prev.state \in PreLink,
                        "usb.enumerating", "usb")

\* com_events, of _com_present: configured, with the ACM function in the configuration.
ComPresent(s) == s.state = "configured" /\ s.acm
ComEvents(prev, cur) ==
    When(ComPresent(cur) /\ ~ComPresent(prev), "serial.enumerated", "usb")
    \cup When(ComPresent(prev) /\ ~ComPresent(cur), "serial.deenumerated", "usb")

\* hid_events.
HidEvents(prev, cur) ==
    Each(HidDevices, LAMBDA d : When(cur[d] /\ ~prev[d], "hid.online", d)
                                \cup When(prev[d] /\ ~cur[d], "hid.offline", d))

\* Slip: a port that has gone from the list is not looked at.
SerialEventsListed(prev, cur) ==
    Each({p \in Ports : cur[p].listed},
         LAMBDA p : When(cur[p].open /\ ~prev[p].open, "serial.opened", p)
                    \cup When(prev[p].open /\ ~cur[p].open, "serial.closed", p)
                    \cup When(cur[p].error /\ ~prev[p].error, "serial.error", p)
                    \cup When(prev[p].error /\ ~cur[p].error, "serial.error_cleared", p))

\* serial_events: the ports listed now, and those that have gone while open.
SerialEvents(prev, cur) ==
    Each({p \in Ports : cur[p].listed},
         LAMBDA p : When(cur[p].open /\ ~prev[p].open, "serial.opened", p)
                    \cup When(prev[p].open /\ ~cur[p].open, "serial.closed", p)
                    \cup When(prev[p].listed /\ cur[p].reconnects > prev[p].reconnects,
                              "serial.reconnected", p)
                    \cup When(cur[p].error /\ ~prev[p].error, "serial.error", p)
                    \cup When(prev[p].error /\ ~cur[p].error, "serial.error_cleared", p))
    \cup Each({p \in Ports : ~cur[p].listed},
              LAMBDA p : When(prev[p].open, "serial.closed", p))

\* power_events: a state that is unknown says nothing; known after unknown does.
PowerEvents(prev, cur) ==
    Each({t \in Targets : cur[t] \in {"on", "off"} /\ cur[t] # prev[t]},
         LAMBDA t : When(cur[t] = "on", "power.on", t) \cup When(cur[t] = "off", "power.off", t))

\* drive_events: a change of image under the same state says nothing.
DriveEvents(prev, cur) ==
    IF cur = prev THEN {}
    ELSE When(cur = "attached", "drive.attached", "drive")
         \cup When(cur = "detached", "drive.detached", "drive")
         \cup When(cur = "editing", "drive.editing", "drive")

Semantic(d, prev, cur) ==
    CASE d = "usb" -> UsbEvents(prev, cur) \cup ComEvents(prev, cur)
      [] d = "hid" -> HidEvents(prev, cur)
      [] d = "serial" -> SerialEvents(prev, cur)
      [] d = "power" -> PowerEvents(prev, cur)
      [] d = "drive" -> DriveEvents(prev, cur)

-----------------------------------------------------------------------------
(* A listener: what it was told last of each thing an event can name.       *)

Subjects == {"usb", "bound", "com", "drive"} \cup HidDevices \cup Ports \cup Targets

\* What an event says, and about what.
Says(ev) ==
    CASE ev.type \in {"usb.enumerated", "usb.resumed"} -> {[of |-> "usb", is |-> "configured"]}
      [] ev.type = "usb.suspended" -> {[of |-> "usb", is |-> "suspended"]}
      [] ev.type = "usb.detached" -> {[of |-> "usb", is |-> "not attached"]}
      [] ev.type = "usb.enumerating" -> {[of |-> "usb", is |-> "enumerating"]}
      [] ev.type = "gadget.bound" -> {[of |-> "bound", is |-> "yes"]}
      [] ev.type = "gadget.unbound" -> {[of |-> "bound", is |-> "no"]}
      [] ev.type = "serial.enumerated" -> {[of |-> "com", is |-> "yes"]}
      [] ev.type = "serial.deenumerated" -> {[of |-> "com", is |-> "no"]}
      [] ev.type \in {"hid.online", "serial.opened", "power.on"} -> {[of |-> ev.of, is |-> "yes"]}
      [] ev.type \in {"hid.offline", "serial.closed", "power.off"} -> {[of |-> ev.of, is |-> "no"]}
      [] ev.type = "drive.attached" -> {[of |-> "drive", is |-> "attached"]}
      [] ev.type = "drive.detached" -> {[of |-> "drive", is |-> "detached"]}
      [] ev.type = "drive.editing" -> {[of |-> "drive", is |-> "editing"]}
      [] OTHER -> {}

News(evs) == UNION {Says(ev) : ev \in evs}
About(x, evs) == {news \in News(evs) : news.of = x}

Hear(what, evs) ==
    [x \in Subjects |-> IF About(x, evs) = {} THEN what[x]
                        ELSE (CHOOSE news \in About(x, evs) : TRUE).is]

YesNo(b) == IF b THEN "yes" ELSE "no"

\* The subjects of a domain of which a sample says something that events can tell, and what.
SettledLinks == {"configured", "suspended", "not attached"}
Tells(d, s) ==
    CASE d = "usb" -> {"bound", "com"} \cup (IF s.state \in SettledLinks THEN {"usb"} ELSE {})
      [] d = "hid" -> HidDevices
      [] d = "serial" -> Ports
      [] d = "power" -> {t \in Targets : s[t] \in {"on", "off"}}
      [] d = "drive" -> {"drive"}
Shown(d, s, x) ==
    CASE d = "usb" /\ x = "bound" -> YesNo(IsBound(s))
      [] d = "usb" /\ x = "com" -> YesNo(ComPresent(s))
      [] d = "usb" /\ x = "usb" -> s.state
      [] d = "hid" -> YesNo(s[x])
      [] d = "serial" -> YesNo(s[x].open)
      [] d = "power" -> YesNo(s[x] = "on")
      [] d = "drive" -> s

PollInit ==
    /\ domain \in Domains
    /\ sample = <<>>
    /\ told = [x \in Subjects |-> "unknown"]

\* The first sample is the baseline, without events; the listener starts from it.
FirstPoll ==
    /\ sample = <<>>
    /\ \E s \in SamplesOf(domain) :
          /\ sample' = <<s>>
          /\ told' = [x \in Subjects |-> IF x \in Tells(domain, s) THEN Shown(domain, s, x)
                                         ELSE told[x]]
    /\ UNCHANGED domain

\* The poller finds its domain changed.
NextPoll ==
    /\ sample # <<>>
    /\ \E s \in SamplesOf(domain) \ {sample[1]} :
          /\ sample' = <<s>>
          /\ told' = Hear(told, Semantic(domain, sample[1], s))
    /\ UNCHANGED domain

PollNext == FirstPoll \/ NextPoll

PollSpec == PollInit /\ [][PollNext]_pollVars

\* The semantic events add up: a listener that heard every one of them knows what the last
\* sample shows: the binding, the COM port, each HID device, each serial port, also one that
\* is closed by leaving the list, each power target whose state is known, also after it was
\* not, the drive, and the link wherever it is settled.  And whatever the next sample is, no
\* two of its events contradict each other, so their order does not matter.
SemanticAddsUp ==
    \A i \in DOMAIN sample :
        /\ \A x \in Tells(domain, sample[i]) : told[x] = Shown(domain, sample[i], x)
        /\ \A s \in SamplesOf(domain) : \A x \in Subjects :
               \A m, n \in About(x, Semantic(domain, sample[i], s)) : m = n

=============================================================================
