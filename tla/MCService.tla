------------------------------ MODULE MCService ------------------------------
(* The parts of kvm-web around the gadget, for TLC.  They share no state, so   *)
(* what one does does not depend on the others, and a behaviour follows one    *)
(* part while the others stay as they start.                                   *)
EXTENDS H264Source, VideoTap, InputSessions, EventStream, TargetEvents, Settings

CONSTANTS card1, card2

Good(card) == [card |-> card, labelled |-> TRUE, capture |-> TRUE]

\* [video] devices: blank, both cards, one without its label, one that is no capture node.
CardLists ==
    {<<>>,
     <<Good(card1), Good(card2)>>,
     <<[Good(card2) EXCEPT !.labelled = FALSE], Good(card1)>>,
     <<[Good(card1) EXCEPT !.capture = FALSE], Good(card2)>>}

VARIABLE focus

serviceVars == <<focus, sourceVars, tapVars, sessionVars, streamVars, pollVars,
                 settingsVars>>

ServiceInit ==
    /\ focus \in {"h264", "mjpeg", "input", "events", "semantic", "settings"}
    /\ SourceInit
    /\ TapInit /\ (focus # "mjpeg" => transport = "relay")
    /\ SessionInit
    /\ StreamInit /\ (focus # "events" => actual = CHOOSE s \in [Areas -> Values] : TRUE)
    /\ PollInit /\ (focus # "semantic" => domain = "usb")
    /\ SettingsInit

ServiceNext ==
    \/ focus = "h264" /\ SourceNext /\ UNCHANGED <<focus, tapVars, sessionVars, streamVars, pollVars, settingsVars>>
    \/ focus = "mjpeg" /\ TapNext /\ UNCHANGED <<focus, sourceVars, sessionVars, streamVars, pollVars, settingsVars>>
    \/ focus = "input" /\ SessionNext /\ UNCHANGED <<focus, sourceVars, tapVars, streamVars, pollVars, settingsVars>>
    \/ focus = "events" /\ StreamNext /\ UNCHANGED <<focus, sourceVars, tapVars, sessionVars, pollVars, settingsVars>>
    \/ focus = "semantic" /\ PollNext /\ UNCHANGED <<focus, sourceVars, tapVars, sessionVars, streamVars, settingsVars>>
    \/ focus = "settings" /\ SettingsNext /\ UNCHANGED <<focus, sourceVars, tapVars, sessionVars, streamVars, pollVars>>

ServiceSpec == ServiceInit /\ [][ServiceNext]_serviceVars /\ SourceFairness /\ TapFairness

=============================================================================
