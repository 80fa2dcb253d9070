----------------------------- MODULE CcWwanData -----------------------------
(***************************************************************************)
(* Mobile broadband, panels/wwan: the access points (APNs) of every SIM,   *)
(* which one is its default, whether its data is on, and which SIM is used *)
(* for data; cc-wwan-data.c with the calls of cc-wwan-panel.c,             *)
(* cc-wwan-device-page.c and cc-wwan-apn-dialog.c.                         *)
(*                                                                         *)
(* All of it is kept in the connections that NetworkManager stores.  An    *)
(* APN has a connection of its own (nm_connection) from the time it is     *)
(* first edited or chosen, and the one NetworkManager gave back            *)
(* (remote_connection).  Of a connection the flags are kept that tell      *)
(* which SIM it belongs to, that it connects by itself, and its priority;  *)
(* data roaming is switched and saved as data is and left out.             *)
(***************************************************************************)
EXTENDS Integers, FiniteSets, SequencesExt

CONSTANTS
    NSims,          \* number of devices with a SIM, in the order of self->devices
    NApns,          \* number of APNs in their lists
    SimOf,          \* the SIM in whose list an APN is
    Stored,         \* the APNs with a connection when the panel starts
    Starts,         \* the flags these connections may have then
    MaxSteps        \* bound on what the user does

Sims == 1..NSims
Apns == 1..NApns
None == 0
Idle == 0           \* the states of a device that uses no APN
Off == -1
Flags == {"sim-id", "autoconnect", "high"}

ASSUME WwanAssumption ==
    /\ NSims \in Nat /\ NApns \in Nat /\ MaxSteps \in Nat
    /\ SimOf \in [Apns -> Sims]
    /\ Stored \subseteq Apns
    /\ Starts \subseteq [Apns -> SUBSET Flags]

\* Of two SIMs at most one has the high priority when the panel starts.
ASSUME PriorityAssumption ==
    NSims <= 2 =>
        \A start \in Starts, a, b \in Stored :
            {"sim-id", "high"} \subseteq start[a] \cap start[b] => SimOf[a] = SimOf[b]

VARIABLES
    wwan,           \* the CcWwanData objects, their APNs and NetworkManager, see Objects
    link,           \* the state of each device: Idle, Off by request, or the APN it uses
    chosen,         \* data_device, or None
    offered,        \* data_devices: the SIMs in the list to choose from
    notify,         \* a state has changed that the panel has not been told
    steps

vars == <<wwan, link, chosen, offered, notify, steps>>

Answers == [apn : Apns, add : BOOLEAN, ok : BOOLEAN, sim : Sims \cup {None}]

Objects == [
    stored   : SUBSET Apns,                 \* what NetworkManager stores
    flags    : [Apns -> SUBSET Flags],
    remote   : SUBSET Apns,                 \* those with a remote_connection
    local    : [Apns -> SUBSET Flags],      \* and its settings
    owned    : SUBSET Apns,                 \* those with an nm_connection
    own      : [Apns -> SUBSET Flags],      \* and its settings
    modified : SUBSET Apns,
    default  : [Sims -> Apns \cup {None}],  \* default_apn
    old      : [Sims -> Apns \cup {None}],  \* old_default_apn
    enabled  : [Sims -> BOOLEAN],           \* data_enabled
    high     : [Sims -> BOOLEAN],           \* priority
    answers  : Seq(Answers),                \* on their way from NetworkManager
    unsaved  : SUBSET Sims,                 \* the last save of the settings was refused
    unlinked : SUBSET Sims,                 \* the last (de)activation failed
    kept     : SUBSET Apns ]                \* bound when the panel started, or a default
                                            \* of before, and not reset

ApnsOf(s) == {a \in Apns : SimOf[a] = s}

------------------------------------------------------------------------------
(* cc-wwan-data.c.  refused are the APNs whose changes NetworkManager      *)
(* refuses in this step; it takes requests in the order they are made.     *)

\* wwan_data_get_nm_connection
Connection(w, a) == IF a \in w.owned \/ a \notin w.remote THEN w.own[a] ELSE w.local[a]

\* ... and g_object_set on its settings; the connection is made when there is none
Write(w, a, flags) ==
    IF a \in w.owned \/ a \notin w.remote
    THEN [w EXCEPT !.own[a] = flags, !.owned = @ \cup {a}]
    ELSE [w EXCEPT !.local[a] = flags]

\* wwan_data_update_apn
UpdateApn(w, a) ==
    LET s    == SimOf[a]
        kept == Connection(w, a) \cap {"sim-id"}
    IN  Write(w, a, kept \cup (IF w.enabled[s] THEN {"autoconnect"} ELSE {})
                         \cup (IF w.high[s] /\ w.default[s] = a THEN {"high"} ELSE {}))

\* cc_wwan_data_save_apn, for sim's settings or, with None, for the APN alone.
\* What is committed is the remote connection.  To add a connection that is stored
\* already is an error.
SaveApn(w, a, sim, refused) ==
    LET u  == UpdateApn(w, a)
        ok == a \notin refused /\ (a \in u.remote \/ a \notin u.stored)
        answer == [apn |-> a, add |-> a \notin u.remote, ok |-> ok, sim |-> sim]
        sent   == [u EXCEPT !.answers = Append(@, answer)]
    IN  IF a \in w.remote \ w.modified
        THEN [w EXCEPT !.answers = Append(@, [answer EXCEPT !.add = FALSE, !.ok = TRUE])]
        ELSE IF ~ok THEN sent
        ELSE [sent EXCEPT !.stored = @ \cup {a},
                          !.flags[a] = IF a \in u.remote THEN u.local[a] ELSE u.own[a]]

\* The first part of cc_wwan_data_save_settings: the old default APN is reset, when
\* it has a remote connection, and the call waits for NetworkManager.
ResetOld(w, s, refused) ==
    LET a == w.old[s]
    IN  IF a = None THEN w
        ELSE IF a \notin w.remote THEN [w EXCEPT !.kept = @ \cup {a}]
        ELSE [w EXCEPT !.local[a] = {},
                       !.flags[a] = IF a \in refused THEN @ ELSE {},
                       !.kept     = IF a \in refused THEN @ \cup {a} ELSE @ \ {a},
                       !.modified = @ \ {a},
                       !.old[s]   = None]

\* Mutant of SaveSettings: the old default APN keeps its settings.
SaveSettingsOnly(w, s, refused) ==
    LET a == w.default[s]
        r == [w EXCEPT !.modified = @ \cup {a}]
    IN  IF a = None THEN w
        ELSE SaveApn(Write(r, a, Connection(r, a) \cup {"sim-id"}), a, s, refused)

\* cc_wwan_data_save_settings
SaveSettings(w, s, refused) ==
    LET a == w.default[s]
        r == [ResetOld(w, s, refused) EXCEPT !.modified = @ \cup {a}]
    IN  IF a = None THEN w
        ELSE SaveApn(Write(r, a, Connection(r, a) \cup {"sim-id"}), a, s, refused)

\* cc_wwan_data_set_default_apn
SetDefaultApn(w, a) ==
    LET s == SimOf[a]
        d == [w EXCEPT !.modified = @ \cup {a}, !.old[s] = w.default[s], !.default[s] = a]
    IN  Write(d, a, Connection(d, a) \cup {"sim-id"})

\* ... and what the setters do to the default APN
Modify(w, s) == IF w.default[s] = None THEN w ELSE [w EXCEPT !.modified = @ \cup {w.default[s]}]

\* cc_wwan_data_set_enabled
SetEnabled(w, s, on) == [Modify(w, s) EXCEPT !.enabled[s] = on]

\* cc_wwan_data_set_priority
SetPriority(w, s, high) ==
    IF w.high[s] = high THEN w ELSE [Modify(w, s) EXCEPT !.high[s] = high]

\* cc_wwan_data_get_priority: is it high?
IsHigh(w, s) == w.default[s] \in w.remote /\ "high" \in w.local[w.default[s]]

\* cc_wwan_data_get_enabled
IsEnabled(w, s) ==
    CASE link[s] = Off  -> FALSE
      [] link[s] = Idle -> w.default[s] \in w.remote /\ "autoconnect" \in w.local[w.default[s]]
      [] OTHER            -> TRUE

------------------------------------------------------------------------------
(* Handlers *)

Init ==
    /\ \E start \in Starts, default \in [Sims -> Apns \cup {None}] :
        LET bound(s) == {a \in ApnsOf(s) \cap Stored : "sim-id" \in start[a]}
        IN  /\ \A s \in Sims :      \* wwan_data_update_apn_list: the first that matches
                default[s] = IF bound(s) = {} THEN None
                             ELSE CHOOSE a \in bound(s) : \A b \in bound(s) : a <= b
            /\ wwan = [stored |-> Stored, flags |-> start, remote |-> Stored, local |-> start,
                       owned |-> {}, own |-> [a \in Apns |-> {}], modified |-> {},
                       default |-> default, old |-> [s \in Sims |-> None],
                       enabled |-> [s \in Sims |-> default[s] # None
                                        /\ "autoconnect" \in start[default[s]]],
                       high |-> [s \in Sims |-> default[s] # None /\ "high" \in start[default[s]]],
                       answers |-> <<>>, unsaved |-> {}, unlinked |-> {},
                       kept |-> {a \in Stored : a \in bound(SimOf[a]) \ {default[SimOf[a]]}}]
    /\ link = [s \in Sims |-> Idle]
    /\ chosen = None /\ offered = {}
    /\ notify = TRUE        \* cc_wwan_panel_update_devices
    /\ steps = 0

Step == steps < MaxSteps /\ steps' = steps + 1

\* cc_wwan_apn_changed_cb: the APN a is made the default of its SIM.
ChooseApn(a, refused) ==
    /\ Step
    /\ wwan.default[SimOf[a]] # a
    /\ wwan' = SaveSettings(SetDefaultApn(wwan, a), SimOf[a], refused)
    /\ UNCHANGED <<link, chosen, offered, notify>>

\* cc_wwan_apn_save_clicked_cb: the name of APN a is changed.
EditApn(a, refused) ==
    /\ Step
    /\ LET edited == Write(wwan, a, Connection(wwan, a))
       IN  wwan' = SaveApn([edited EXCEPT !.modified = @ \cup {a}], a, None, refused)
    /\ UNCHANGED <<link, chosen, offered, notify>>

\* wwan_device_page_handle_data_row; without a default APN the user chooses one first.
SwitchData(s, on, refused) ==
    /\ Step
    /\ wwan.default[s] # None
    /\ wwan' = SaveSettings(SetEnabled(wwan, s, on), s, refused)
    /\ UNCHANGED <<link, chosen, offered, notify>>

\* Mutant of ChooseSim: the SIM used before keeps its priority.
ChooseSimOnly(s, refused) ==
    /\ Step
    /\ s \in offered \ {chosen} /\ chosen # None
    /\ wwan' = SaveSettings(SetPriority(wwan, s, TRUE), s, refused)
    /\ chosen' = s
    /\ UNCHANGED <<link, offered, notify>>

\* cc_wwan_data_item_activate_cb
ChooseSim(s, refused) ==
    /\ Step
    /\ s \in offered \ {chosen} /\ chosen # None
    /\ LET before == SaveSettings(SetPriority(wwan, chosen, FALSE), chosen, refused)
       IN  wwan' = SaveSettings(SetPriority(before, s, TRUE), s, refused)
    /\ chosen' = s
    /\ UNCHANGED <<link, offered, notify>>

\* cc_wwan_data_new_connection_added_cb and cc_wwan_data_connection_updated_cb: a
\* connection that could not be added leaves remote_connection NULL.
Received(w, answer) ==
    LET a == answer.apn
        w1 == [w EXCEPT !.answers = Tail(@),
                        !.modified = IF answer.ok THEN @ \ {a} ELSE @]
    IN  CASE answer.add /\ answer.ok  -> [w1 EXCEPT !.remote = @ \cup {a}, !.local[a] = w.flags[a]]
          [] answer.add /\ ~answer.ok -> [w1 EXCEPT !.remote = @ \ {a}]
          [] ~answer.add              -> w1

\* What NetworkManager connects to when it is asked for a connection of SIM s: with
\* NULL, one it finds itself.
Connects(w, s) ==
    IF w.default[s] \in w.remote THEN {w.default[s]} ELSE ApnsOf(s) \cap w.stored

\* Mutant of SettingsSaved: data that is switched off is not disconnected.
SettingsSavedOn(w, answer) ==
    LET s == answer.sim
        saved == [w EXCEPT !.modified = @ \ {w.default[s]}, !.unsaved = @ \ {s}]
    IN  /\ wwan' = [saved EXCEPT !.unlinked = @ \ {s}]
        /\ \E to \in IF w.enabled[s] THEN Connects(w, s) ELSE {link[s]} : link' = [link EXCEPT ![s] = to]
        /\ notify' = TRUE

\* cc_wwan_data_settings_saved_cb, with the activation or the disconnection it asks
\* for; if that fails the page only warns.
SettingsSaved(w, answer) ==
    LET s == answer.sim
        saved == [w EXCEPT !.modified = @ \ {w.default[s]}, !.unsaved = @ \ {s}]
    IN  \/ /\ wwan' = [saved EXCEPT !.unlinked = @ \ {s}]
           /\ \E to \in IF w.enabled[s] THEN Connects(w, s) ELSE {Off} : link' = [link EXCEPT ![s] = to]
           /\ notify' = TRUE
        \/ /\ wwan' = [saved EXCEPT !.unlinked = @ \cup {s}]
           /\ UNCHANGED <<link, notify>>

\* The next answer arrives.
Answered ==
    /\ wwan.answers # <<>>
    /\ LET answer == Head(wwan.answers)
           w      == Received(wwan, answer)
       IN  IF answer.sim # None /\ answer.ok THEN SettingsSaved(w, answer)
           ELSE /\ wwan' = [w EXCEPT !.unsaved = @ \cup ({answer.sim} \ {None})]
                /\ UNCHANGED <<link, notify>>
    /\ UNCHANGED <<chosen, offered, steps>>

\* cc_wwan_panel_update_data_connections, when the state of a device has changed: the
\* first SIM of those that are enabled and have the highest priority is used for data.
DataChanged ==
    LET enabled == {s \in Sims : IsEnabled(wwan, s)}
        best    == {s \in enabled : IsHigh(wwan, s) \/ \A t \in enabled : ~IsHigh(wwan, t)}
    IN  /\ notify /\ notify' = FALSE
        /\ offered' = enabled
        /\ chosen' = IF enabled = {} THEN chosen
                     ELSE CHOOSE s \in best : \A t \in best : s <= t
        /\ UNCHANGED <<wwan, link, steps>>

Next ==
    \/ \E refused \in SUBSET Apns :
        \/ \E a \in Apns : ChooseApn(a, refused) \/ EditApn(a, refused)
        \/ \E s \in Sims : \E on \in BOOLEAN : SwitchData(s, on, refused)
        \/ \E s \in Sims : ChooseSim(s, refused)
    \/ Answered
    \/ DataChanged

Spec == Init /\ [][Next]_vars

------------------------------------------------------------------------------
(* Properties *)

\* Types of all variables.
TypeOK ==
    /\ wwan \in Objects
    /\ link \in [Sims -> Apns \cup {Idle, Off}]
    /\ chosen \in Sims \cup {None} /\ offered \subseteq Sims
    /\ notify \in BOOLEAN
    /\ steps \in 0..MaxSteps

\* Nothing of SIM s is on its way, its last settings were not refused, and its default
\* APN is one that NetworkManager had when the panel started.
Settled(s) ==
    /\ \A i \in DOMAIN wwan.answers : SimOf[wwan.answers[i].apn] # s
    /\ s \notin wwan.unsaved
    /\ wwan.default[s] \in Stored

\* What belongs to a SIM is its default APN, stored with the data switch and the priority
\* of the panel, and nothing else but the connections in kept.  "At a time, only one
\* connection will be bound to a device" is more than the code keeps: a default of before
\* stays bound when it was not added yet as another one was chosen, when NetworkManager
\* refused to reset it, or when it was bound beside the default as the panel started.
SavedAsShown ==
    \A s \in Sims :
        LET d == wwan.default[s]
        IN  /\ \A a \in (ApnsOf(s) \cap wwan.stored) \ {d} :
                "sim-id" \in wwan.flags[a] => a \in wwan.kept
            /\ Settled(s) =>
                wwan.flags[d] = {"sim-id"} \cup (IF wwan.enabled[s] THEN {"autoconnect"} ELSE {})
                                           \cup (IF wwan.high[s] THEN {"high"} ELSE {})

\* The device follows the data switch and the last choice of an APN, in whatever order
\* the choices and the answers to the earlier ones come, unless it failed to.
LinkFollowsPage ==
    \A s \in Sims : Settled(s) /\ s \notin wwan.unlinked /\ link[s] # Idle =>
        link[s] = IF wwan.enabled[s] THEN wwan.default[s] ELSE Off

\* Of the SIMs to choose from, the chosen one has the high priority if any of them has,
\* once a device has changed its state: the list is not refreshed when the last activation
\* fails.  And of two SIMs only one has the high priority at a time.  (Of three, more may:
\* the SIM that is switched off keeps its priority when another is chosen, since
\* cc_wwan_data_item_activate_cb lowers that of the former choice only.)
OneHighPriority ==
    (\A s \in Sims : Settled(s)) =>
        LET high == {s \in Sims : "high" \in wwan.flags[wwan.default[s]]}
        IN  /\ ~notify /\ wwan.unlinked = {} /\ offered \cap high # {} => chosen \in high
            /\ NSims <= 2 => \A s, t \in high : s = t

\* "If the data is enabled, the device will automatically turn data on everytime the
\* same SIM is available" (cc_wwan_data_set_enabled).
DataStaysEnabled ==
    \A s \in Sims :
        /\ wwan.answers = <<>> /\ s \notin wwan.unsaved
        /\ wwan.enabled[s] /\ wwan.default[s] \in wwan.remote
        => "autoconnect" \in wwan.flags[wwan.default[s]]
==============================================================================
