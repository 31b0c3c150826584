------------------------------ MODULE Settings ------------------------------
(***************************************************************************)
(* The configuration file and the capture source: the Config page's saves  *)
(* (config_save and kvm-conf-helper), the choice of a capture card         *)
(* (video_select, _video_sources, _video_active) and the streamer, which   *)
(* reads both files when it starts (kvm-ustreamer).  Requests run in       *)
(* worker threads, without a lock between them.                            *)
(***************************************************************************)
EXTENDS Naturals, Sequences

CONSTANTS
    Requests,       \* worker threads at these routes
    Cards,          \* capture devices
    Fallback,       \* [video] device: the card when the list has none
    Lists           \* values of [video] devices: lists of entries

\* An entry may lack its label, and its device may be no capture node (/dev/fb0).
Entries == [card : Cards, labelled : BOOLEAN, capture : BOOLEAN]

ASSUME SettingsAssumption ==
    Fallback \in Cards /\ Lists \subseteq Seq(Entries) /\ <<>> \in Lists

VARIABLES
    conf,       \* the configuration file
    pointer,    \* VIDEO_SOURCE_FILE, NoCard when empty
    streaming,  \* the card the streamer was started with
    unapplied,  \* the list of cards was saved, or a restart failed, since it started
    torn,       \* a selection emptied the pointer and could not write it, since it started
    request,    \* where each request is, and what it has read or was given
    raced       \* another save was written since this one read the file

settingsVars == <<conf, pointer, streaming, unapplied, torn, request, raced>>

NoCard == "none"
Fields == {"devices", "quality"}
Qualities == {60, 80}
Default == [devices |-> <<>>, quality |-> 80]
Idle == [at |-> "idle"]

\* The selected card while it is among the entries accepted, else the first of them.
Chosen(list, accepted, card) ==
    IF \E i \in accepted : list[i].card = card THEN card
    ELSE IF accepted = {} THEN Fallback
    ELSE list[CHOOSE i \in accepted : \A j \in accepted : i <= j].card

\* The app offers the entries that have a label, kvm-ustreamer plays those whose device is a
\* capture node: two parsers of one list.
Offered(list) == {i \in DOMAIN list : list[i].labelled}
Playable(list) == {i \in DOMAIN list : list[i].capture}

Active(list, card) == Chosen(list, Offered(list), card)
Played(list, card) == Chosen(list, Playable(list), card)

Sources(list) ==
    IF Offered(list) = {} THEN {Fallback} ELSE {list[i].card : i \in Offered(list)}

SettingsInit ==
    /\ conf = Default
    /\ pointer = NoCard
    /\ streaming = Played(conf.devices, pointer)
    /\ unapplied = FALSE /\ torn = FALSE
    /\ request = [r \in Requests |-> Idle]
    /\ raced = [r \in Requests |-> FALSE]

-----------------------------------------------------------------------------
(* config_save.                                                            *)

ValuesOf(key) == IF key = "devices" THEN Lists ELSE Qualities

\* Slip: keys that are not submitted get the schema's default.
SaveReadsNothing(r, key, value) ==
    /\ request[r] = Idle
    /\ request' = [request EXCEPT ![r] = [at |-> "saving", key |-> key,
                                          draft |-> [Default EXCEPT ![key] = value]]]
    /\ raced' = [raced EXCEPT ![r] = FALSE]
    /\ UNCHANGED <<conf, pointer, streaming, unapplied, torn>>

\* The submitted key over the file as it is now.
SaveReads(r, key, value) ==
    /\ request[r] = Idle
    /\ request' = [request EXCEPT ![r] = [at |-> "saving", key |-> key,
                                          draft |-> [conf EXCEPT ![key] = value]]]
    /\ raced' = [raced EXCEPT ![r] = FALSE]
    /\ UNCHANGED <<conf, pointer, streaming, unapplied, torn>>

\* The helper replaces the file in one step.
SaveWrites(r) ==
    /\ request[r].at = "saving"
    /\ conf' = request[r].draft
    /\ unapplied' = (unapplied \/ conf'.devices # conf.devices)
    /\ request' = [request EXCEPT ![r] = Idle]
    /\ raced' = [q \in Requests |-> raced[q] \/ q # r]
    /\ UNCHANGED <<pointer, streaming, torn>>

\* It refuses a value, or cannot write.
SaveRefused(r) ==
    /\ request[r].at = "saving"
    /\ request' = [request EXCEPT ![r] = Idle]
    /\ UNCHANGED <<conf, pointer, streaming, unapplied, torn, raced>>

-----------------------------------------------------------------------------
(* video_select and config_restart_streamer.                               *)

\* One of the cards on offer now.
SelectReads(r, card) ==
    /\ request[r] = Idle /\ card \in Sources(conf.devices)
    /\ request' = [request EXCEPT ![r] = [at |-> "selecting", card |-> card]]
    /\ UNCHANGED <<conf, pointer, streaming, unapplied, torn, raced>>

\* The pointer file is opened, which empties it, ...
SelectEmpties(r) ==
    /\ request[r].at = "selecting"
    /\ pointer' = NoCard
    /\ request' = [request EXCEPT ![r].at = "writing"]
    /\ UNCHANGED <<conf, streaming, unapplied, torn, raced>>

\* ... or cannot be opened: nothing has changed, ...
SelectRefused(r) ==
    /\ request[r].at = "selecting"
    /\ request' = [request EXCEPT ![r] = Idle]
    /\ UNCHANGED <<conf, pointer, streaming, unapplied, torn, raced>>

\* Slip: a selection restarts the streamer before the file is written.
SelectRestartsFirst(r) ==
    /\ request[r].at = "writing"
    /\ pointer' = request[r].card
    /\ request' = [request EXCEPT ![r] = Idle]
    /\ UNCHANGED <<conf, streaming, unapplied, torn, raced>>

\* ... and written.
SelectWrites(r) ==
    /\ request[r].at = "writing"
    /\ pointer' = request[r].card
    /\ request' = [request EXCEPT ![r] = [at |-> "restarting"]]
    /\ UNCHANGED <<conf, streaming, unapplied, torn, raced>>

\* ... or cannot be: /run is full.  The file stays empty and the streamer is not restarted.
SelectFails(r) ==
    /\ request[r].at = "writing"
    /\ torn' = TRUE
    /\ request' = [request EXCEPT ![r] = Idle]
    /\ UNCHANGED <<conf, pointer, streaming, unapplied, raced>>

RestartButton(r) ==
    /\ request[r] = Idle
    /\ request' = [request EXCEPT ![r] = [at |-> "restarting"]]
    /\ UNCHANGED <<conf, pointer, streaming, unapplied, torn, raced>>

StreamerStarts ==
    /\ streaming' = Played(conf.devices, pointer)
    /\ unapplied' = FALSE /\ torn' = FALSE

\* The helper restarts the streamer; it does not report whether that worked.
Restarts(r) ==
    /\ request[r].at = "restarting"
    /\ StreamerStarts \/ (unapplied' = TRUE /\ UNCHANGED <<streaming, torn>>)
    /\ request' = [request EXCEPT ![r] = Idle]
    /\ UNCHANGED <<conf, pointer, raced>>

\* systemd restarts a streamer that has failed, at any time.
StreamerRestarted ==
    /\ StreamerStarts
    /\ UNCHANGED <<conf, pointer, request, raced>>

-----------------------------------------------------------------------------

RequestStep(r) ==
    \/ \E key \in Fields : \E value \in ValuesOf(key) : SaveReads(r, key, value)
    \/ SaveWrites(r) \/ SaveRefused(r)
    \/ \E card \in Cards : SelectReads(r, card)
    \/ SelectEmpties(r) \/ SelectRefused(r) \/ SelectWrites(r) \/ SelectFails(r)
    \/ RestartButton(r) \/ Restarts(r)

SettingsNext == (\E r \in Requests : RequestStep(r)) \/ StreamerRestarted

SettingsSpec == SettingsInit /\ [][SettingsNext]_settingsVars

-----------------------------------------------------------------------------

\* A save leaves the keys it was not given as they were ("A partial POST must never reset
\* omitted settings"), unless another save was written since it read the file: then it
\* undoes that one.
OmittedKept ==
    [][\A r \in Requests :
          request[r].at = "saving" /\ conf' = request[r].draft /\ request'[r] = Idle
          /\ ~raced[r] => \A k \in Fields \ {request[r].key} : conf'[k] = conf[k]]_settingsVars

Choosing == \E r \in Requests : request[r].at \in {"writing", "restarting"}

\* The two parsers accept the same entries, or both accept the card that is selected.
Agree(list, card) ==
    \/ Offered(list) = Playable(list)
    \/ \E i \in Offered(list) : list[i].card = card /\ \E j \in Playable(list) : list[j].card = card

\* Once no selection is under way, the card the UI shows as active is the one that streams,
\* however the selections of two operators and restarts of the streamer overlapped.  Excepted
\* are a list that was saved since or a restart that failed, which the operator repairs with
\* another restart, a selection that failed half way, after which another card may be shown
\* than the one that streams, and lists the two parsers read differently, where it may be so from
\* the start.
ShownIsStreamed ==
    \/ Choosing \/ unapplied \/ torn
    \/ Agree(conf.devices, pointer) => streaming = Active(conf.devices, pointer)

=============================================================================
