--------------------------- MODULE CcDisplayPanel ---------------------------
(***************************************************************************)
(* The display panel (panels/display/cc-display-panel.c), the cache of the *)
(* compositor's state it works from (cc-display-config-manager.c) and the  *)
(* compositor at the other end of the bus (external).                      *)
(*                                                                         *)
(* The compositor announces a change by a signal; the manager then asks    *)
(* for the state, and the answer replaces what it has cached.  The panel   *)
(* edits a copy of the cached state and shows "Apply Changes?" while the   *)
(* copy differs.  Signals, answers, the laptop's lid and the user come in  *)
(* any order.  A handler of the panel runs to its end before the next one: *)
(* handlers are written as operators from panel states to panel states.    *)
(*                                                                         *)
(* A configuration is a DisplayLayout with a "look", which stands for      *)
(* modes, scales, rotations and positions.                                 *)
(***************************************************************************)
EXTENDS DisplayLayout, Sequences

CONSTANTS
    Builtin,        \* the monitor of the laptop
    Startups,       \* the layouts the compositor may come up with by itself
    Mirrorable,     \* the sets of monitors that have a mode in common
    MaxSerial,      \* bound on the changes of the compositor's state
    MaxErrors       \* bound on the calls that fail

ASSUME StartupsAssumption == Startups \subseteq Layouts

ASSUME BoundsAssumption == MaxSerial \in Nat \ {0} /\ MaxErrors \in Nat

VARIABLES
    compositor,     \* its serial, layout and look
    inbox,          \* messages from the compositor to this process, in order
    asked,          \* calls of GetCurrentState that are not answered yet
    errors,         \* calls that have failed
    lid,            \* the lid is closed
    cached,         \* the manager's current_state
    panel           \* the panel, see PanelStates

vars == <<compositor, inbox, asked, errors, lid, cached, panel>>

Looks == {0, 1}

Configs == [serial : 1..MaxSerial, layout : Layouts, look : Looks]
NoConfig == [serial |-> 0, layout |-> [monitors |-> {}, groups |-> {}, primary |-> None],
             look |-> 0]            \* NULL

Messages == [type : {"changed", "error"}] \cup [type : {"state"}, state : Configs]

PanelStates == [
    lid      : BOOLEAN,                     \* lid_is_closed
    current  : Configs \cup {NoConfig},     \* current_config
    usable   : SUBSET Monitors,             \* its monitors that are usable
    shown    : BOOLEAN,                     \* showing_apply_titlebar
    allowed  : BOOLEAN,                     \* the apply button is sensitive
    type     : {"join", "clone"},           \* the toggle display_config_type
    multiple : BOOLEAN,                     \* ... which is visible
    rows     : {"none", "current", "dropped"},  \* whose monitors monitor_rows show
    listed   : BOOLEAN,                     \* ... in display_settings_group, visible
    pickable : SUBSET Monitors,             \* primary_display_list
    selected : Monitors \cup {None},        \* selected_output of the settings
    switch   : BOOLEAN,                     \* enabled_row of the settings
    fault    : {"none", "null monitor"} ]

------------------------------------------------------------------------------
(* Configurations *)

Useful(p) == Active(p.current.layout) \cap p.usable

\* config_get_current_type
TypeOf(p) ==
    IF Useful(p) = {} THEN "none"
    ELSE IF IsCloning(p.current.layout) THEN "clone" ELSE "join"

\* cc_display_config_equal compares the monitors one by one: where they are, how
\* they look and whether theirs is the primary logical monitor.
Equal(c, d) ==
    /\ c.layout.groups = d.layout.groups
    /\ GroupOf(c.layout, c.layout.primary) = GroupOf(d.layout, d.layout.primary)
    /\ c.look = d.look

\* The first of the monitors S in the interface: the built-in one comes before the
\* others (get_ui_sorted_monitors).
UiFirst(S) == IF Builtin \in S THEN Builtin ELSE First(S)

------------------------------------------------------------------------------
(* The panel.  The record e is what a handler sees outside the panel: e.state, *)
(* the cached state; e.serial, the compositor's serial; e.ok, the compositor's *)
(* verdict on a configuration that is not stale; e.look, what a conversion of  *)
(* the configuration makes of the positions, modes and scales.                 *)

\* update_apply_button.  Without a cached state the comparison fails.
UpdateApplyButton(p, e) ==
    IF p.current = NoConfig \/ (e.state # NoConfig /\ Equal(p.current, e.state))
    THEN [p EXCEPT !.shown = FALSE]
    ELSE [p EXCEPT !.shown = TRUE,
                   !.allowed = e.ok /\ p.current.serial = e.serial
                               /\ p.current.layout.groups # {}]

\* reset_current_config: a fresh copy of the cached state, if there is one
ResetCurrentConfig(p, e) ==
    IF e.state = NoConfig THEN p
    ELSE UpdateApplyButton(
            [p EXCEPT !.current  = e.state,
                      !.usable   = e.state.layout.monitors \
                                        (IF p.lid THEN {Builtin} ELSE {}),
                      !.rows     = IF @ = "none" THEN "none" ELSE "dropped",
                      !.pickable = {},
                      !.selected = None], e)

\* config_ensure_of_type, JOIN: in the order of the interface every usable monitor is
\* turned on and the built-in one, if it is not usable, off; it is the first to hand over
\* the role of the primary.
MakeJoin(p, e) ==
    LET joined == SetCloning(p.current.layout, FALSE)
        on     == Active(joined) \cap p.usable
        off    == (joined.monitors \cap p.usable) \ on
        made   == [joined EXCEPT
                    !.groups  = ({g \cap p.usable : g \in @} \ {{}}) \cup {{m} : m \in off},
                    !.primary = IF @ \in on THEN @
                                ELSE IF on # {} THEN First(on)
                                ELSE IF off # {} THEN UiFirst(off) ELSE None]
    IN  [p EXCEPT !.current.layout = made, !.current.look = e.look]

\* config_ensure_of_type, CLONE: mirrors all the monitors, and finds no mode for
\* those that have none in common.
MakeClone(p, e) ==
    [p EXCEPT !.current.layout = SetCloning(@, TRUE),
              !.current.look = IF p.current.layout.monitors \in Mirrorable
                               THEN e.look ELSE @]

\* config_ensure_of_type, up to rebuild_ui
EnsureOfType(p, type, e) ==
    IF type = TypeOf(p) THEN p
    ELSE IF type = "join" THEN MakeJoin(ResetCurrentConfig(p, e), e)
                          ELSE MakeClone(ResetCurrentConfig(p, e), e)

\* cc_display_settings_set_multimonitor: the switch is turned on when the settings
\* are those of a single monitor, which activates the selected monitor.
SetMultimonitor(p, multi, e) ==
    IF multi \/ p.switch THEN p
    ELSE IF p.selected = None THEN [p EXCEPT !.switch = TRUE, !.fault = "null monitor"]
    ELSE [p EXCEPT !.switch = TRUE,
                   !.current.layout = SetActive(@, p.selected, TRUE),
                   !.current.look = e.look]

\* set_current_output: the settings show that monitor.
SetCurrentOutput(p, m) ==
    [p EXCEPT !.selected = m, !.switch = m \in Active(p.current.layout)]

\* rebuild_ui, whose last call of cc_panel_set_selected_type may convert the
\* configuration for which the rows have just been made.
RebuildUi(p, e) ==
    IF p.current = NoConfig THEN [p EXCEPT !.pickable = {}, !.rows = "none"]
    ELSE LET multi   == \E m, n \in p.usable : m # n
             type    == IF multi /\ TypeOf(p) = "clone" THEN "clone" ELSE "join"
             listing == [p EXCEPT !.rows     = IF p.usable = {} THEN "none" ELSE "current",
                                  !.listed   = multi /\ type = "join",
                                  !.multiple = multi,
                                  !.type     = type,
                                  !.pickable = Useful(p)]
             showing == IF Useful(p) = {} THEN listing
                        ELSE SetCurrentOutput(listing, UiFirst(Useful(p)))
             single  == SetMultimonitor(showing, multi /\ type # "clone", e)
         IN  UpdateApplyButton(EnsureOfType(single, type, e), e)

\* on_screen_changed
OnScreenChanged(p, e) ==
    RebuildUi(ResetCurrentConfig([p EXCEPT !.shown = FALSE], e), e)

------------------------------------------------------------------------------
(* Initial states: the panel has been created and has asked for the state. *)

Init ==
    /\ \E l \in Startups : compositor = [serial |-> 1, layout |-> l, look |-> 0]
    /\ inbox = <<>> /\ asked = 1 /\ errors = 0
    /\ lid \in BOOLEAN
    /\ cached = NoConfig
    /\ panel = [ lid |-> lid, current |-> NoConfig, usable |-> {}, shown |-> FALSE,
                 allowed |-> FALSE, type |-> "join", multiple |-> FALSE,
                 rows |-> "none", listed |-> FALSE, pickable |-> {},
                 selected |-> None, switch |-> FALSE, fault |-> "none" ]

Running == panel.fault = "none"

\* What a handler may see outside the panel
Seen(state, serial) ==
    {[state |-> state, serial |-> serial, ok |-> ok, look |-> look] :
        ok \in BOOLEAN, look \in Looks}

------------------------------------------------------------------------------
(* The compositor and the lid *)

\* A monitor comes or goes, or an applied configuration is reverted.
CompositorChanges ==
    /\ compositor.serial < MaxSerial
    /\ \E l \in Startups :
        /\ l # compositor.layout
        /\ compositor' = [serial |-> compositor.serial + 1, layout |-> l, look |-> 0]
    /\ inbox' = Append(inbox, [type |-> "changed"])
    /\ UNCHANGED <<asked, errors, lid, cached, panel>>

\* A call of GetCurrentState is answered or fails.
Answer ==
    /\ asked > 0
    /\ asked' = asked - 1
    /\ \/ /\ inbox' = Append(inbox, [type |-> "state", state |-> compositor])
          /\ UNCHANGED errors
       \/ /\ errors < MaxErrors
          /\ errors' = errors + 1
          /\ inbox' = Append(inbox, [type |-> "error"])
    /\ UNCHANGED <<compositor, lid, cached, panel>>

LidMoves ==
    /\ lid' = ~lid
    /\ UNCHANGED <<compositor, inbox, asked, errors, cached, panel>>

------------------------------------------------------------------------------
(* Handlers *)

\* Mutant of MonitorsChanged: no call while the user is editing.
MonitorsChangedWhileIdle ==
    /\ Running
    /\ inbox # <<>> /\ Head(inbox).type = "changed"
    /\ inbox' = Tail(inbox)
    /\ asked' = IF panel.shown THEN asked ELSE asked + 1
    /\ UNCHANGED <<compositor, errors, lid, cached, panel>>

\* monitors_changed asks for the state.
MonitorsChanged ==
    /\ Running
    /\ inbox # <<>> /\ Head(inbox).type = "changed"
    /\ inbox' = Tail(inbox)
    /\ asked' = asked + 1
    /\ UNCHANGED <<compositor, errors, lid, cached, panel>>

\* Mutant of GotCurrentState: the panel is told before the state is replaced.
GotCurrentStateLate ==
    /\ Running
    /\ inbox # <<>> /\ Head(inbox).type \in {"state", "error"}
    /\ inbox' = Tail(inbox)
    /\ cached' = IF Head(inbox).type = "state" THEN Head(inbox).state ELSE NoConfig
    /\ \E e \in Seen(cached, compositor.serial) : panel' = OnScreenChanged(panel, e)
    /\ UNCHANGED <<compositor, asked, errors, lid>>

\* got_current_state replaces the cached state, or clears it after an error, and
\* emits "changed".
GotCurrentState ==
    /\ Running
    /\ inbox # <<>> /\ Head(inbox).type \in {"state", "error"}
    /\ inbox' = Tail(inbox)
    /\ cached' = IF Head(inbox).type = "state" THEN Head(inbox).state ELSE NoConfig
    /\ \E e \in Seen(cached', compositor.serial) : panel' = OnScreenChanged(panel, e)
    /\ UNCHANGED <<compositor, asked, errors, lid>>

\* Mutant of LidChanged: the panel is not refreshed.
LidChangedOnly ==
    /\ Running
    /\ panel.lid # lid
    /\ panel' = [panel EXCEPT !.lid = lid]
    /\ UNCHANGED <<compositor, inbox, asked, errors, lid, cached>>

\* cc_display_panel_up_client_changed
LidChanged ==
    /\ Running
    /\ panel.lid # lid
    /\ \E e \in Seen(cached, compositor.serial) :
        panel' = OnScreenChanged([panel EXCEPT !.lid = lid], e)
    /\ UNCHANGED <<compositor, inbox, asked, errors, lid, cached>>

\* The user works on the panel, and sees "e".
Uses(Handler(_)) ==
    /\ Running
    /\ panel.current # NoConfig
    /\ \E e \in Seen(cached, compositor.serial) : panel' = Handler(e)
    /\ UNCHANGED <<compositor, inbox, asked, errors, lid, cached>>

Other(type) == IF type = "join" THEN "clone" ELSE "join"

\* Mutant of Toggled: the rows are not made again.
ToggledOnly(e) ==
    LET type == Other(panel.type)
    IN  UpdateApplyButton(EnsureOfType([panel EXCEPT !.type = type], type, e), e)

\* on_config_type_toggled_cb: without a mode for all the monitors the conversion
\* stops halfway.
Toggled(e) ==
    LET type == Other(panel.type)
        p    == [panel EXCEPT !.type = type]
        q    == EnsureOfType(p, type, e)
        stop == type = "clone" /\ q.current.layout.monitors \notin Mirrorable
    IN  IF type = TypeOf(p) \/ stop THEN q ELSE RebuildUi(q, e)
ToggleType == panel.multiple /\ Uses(Toggled)

\* A row or a monitor of the arrangement is selected.
SelectOutput(m) ==
    /\ panel.multiple /\ panel.type = "join" /\ m # panel.selected
    /\ m \in IF panel.rows = "current" THEN panel.usable ELSE Useful(panel)
    /\ Uses(LAMBDA e : SetCurrentOutput(panel, m))

\* Mutant of Switched: the titlebar is not updated.
SwitchedOnly(e) ==
    [panel EXCEPT !.switch = ~@,
                  !.current.layout = SetActive(@, panel.selected, ~panel.switch),
                  !.current.look = e.look]

\* on_enabled_row_active_changed_cb, with the "updated" it emits.  The row is
\* insensitive for the last display available.
Switched(e) ==
    UpdateApplyButton(
        [panel EXCEPT !.switch = ~@,
                      !.current.layout = SetActive(@, panel.selected, ~panel.switch),
                      !.current.look = e.look], e)
SwitchOutput ==
    /\ panel.multiple /\ panel.type = "join" /\ panel.selected # None
    /\ Useful(panel) # {panel.selected}
    /\ Uses(Switched)

\* A mode, scale or rotation is chosen in the settings, or a monitor is dragged.
EditSettings ==
    /\ panel.selected # None
    /\ Uses(LAMBDA e : UpdateApplyButton([panel EXCEPT !.current.look = e.look], e))

\* on_primary_display_selected_item_changed_cb
PickPrimary(m) ==
    /\ panel.listed /\ m \in panel.pickable
    /\ m \notin GroupOf(panel.current.layout, panel.current.layout.primary)
    /\ Uses(LAMBDA e :
            UpdateApplyButton([panel EXCEPT !.current.layout = SetPrimary(@, m)], e))

\* cancel_current_configuration
Cancel == panel.shown /\ Uses(LAMBDA e : OnScreenChanged(panel, e))

\* The compositor takes the configuration, unless it is stale.  Calls on one bus
\* are handled in order: those of GetCurrentState come first.
ApplyMonitorsConfig ==
    /\ asked = 0
    /\ \/ /\ panel.current.serial = compositor.serial
          /\ compositor.serial < MaxSerial
          /\ panel.current.layout.groups # {}
          /\ compositor' = [panel.current EXCEPT !.serial = @ + 1]
          /\ inbox' = Append(inbox, [type |-> "changed"])
       \/ UNCHANGED <<compositor, inbox>>

\* apply_current_configuration: the configuration is sent, then the screen is
\* taken to have changed.
Apply ==
    /\ Running
    /\ panel.shown /\ panel.allowed
    /\ ApplyMonitorsConfig
    /\ \E e \in Seen(cached, compositor'.serial) : panel' = OnScreenChanged(panel, e)
    /\ UNCHANGED <<asked, errors, lid, cached>>

Next ==
    \/ CompositorChanges \/ Answer \/ LidMoves
    \/ MonitorsChanged \/ GotCurrentState \/ LidChanged
    \/ ToggleType \/ SwitchOutput \/ EditSettings \/ Apply \/ Cancel
    \/ \E m \in Monitors : SelectOutput(m) \/ PickPrimary(m)

\* MonitorsChanged or GotCurrentState, seen from the inbox
Delivers == Running /\ inbox # <<>> /\ inbox' = Tail(inbox)

\* The compositor answers, or the call times out; the main loop delivers.
Fairness == WF_vars(Answer) /\ WF_inbox(Delivers)

Spec == Init /\ [][Next]_vars /\ Fairness

------------------------------------------------------------------------------
(* Properties *)

\* Every variable has the type its comment states.
TypeOK ==
    /\ compositor \in Configs
    /\ inbox \in Seq(Messages)
    /\ asked \in 0..MaxSerial
    /\ errors \in 0..MaxErrors
    /\ lid \in BOOLEAN
    /\ cached \in Configs \cup {NoConfig}
    /\ panel \in PanelStates

\* The panel has a copy of a state that the manager still has.
Synchronised == panel.current # NoConfig /\ cached # NoConfig

\* While the manager has a state, the configuration that is being edited started
\* from it: edits of an older state never outlive an answer of the compositor.
EditsLatestState == Synchronised => panel.current.serial = cached.serial

\* "Apply Changes?" shows exactly when the configuration on display differs from
\* the compositor's state as far as it is known, whatever made it differ.
TitlebarTellsEdits ==
    Synchronised => (panel.shown <=> ~Equal(panel.current, cached))

\* "Mark any builtin monitor as unusable if the lid is closed": whichever of the
\* lid and the state changed last.
UsableFollowsLid ==
    Synchronised =>
        panel.usable = cached.layout.monitors \ (IF panel.lid THEN {Builtin} ELSE {})

\* The rows of the monitors are those of the configuration that is being edited: "We
\* need to hold on to the config until all display references are dropped", and so is
\* the list the primary is picked from.  The code breaks its comment in two cases, and
\* only in them: the compositor left all of several usable monitors off, so that
\* rebuild_ui converts the configuration whose rows it has just made, or mirroring its
\* monitors stops halfway.
RowsShowCurrent ==
    /\ panel.listed /\ panel.rows = "dropped" =>
            /\ Synchronised
            /\ \/ cached.layout.monitors \notin Mirrorable
               \/ /\ \E m, n \in panel.usable : m # n
                  /\ Active(cached.layout) \cap panel.usable = {}
    /\ panel.pickable \subseteq panel.current.layout.monitors

\* Once the compositor has settled, the manager ends up with its latest state,
\* unless the call for it failed.
RefreshesEventually ==
    <>[](\/ cached = compositor
         \/ errors > 0 /\ cached = NoConfig
         \/ ~Running)

==============================================================================
