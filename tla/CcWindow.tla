------------------------------ MODULE CcWindow ------------------------------
(***************************************************************************)
(* The shell of the control center: the window (shell/cc-window.c), its    *)
(* sidebar (shell/cc-panel-list.c), the visibility column of the panel     *)
(* model and the "last-panel" configuration key.                           *)
(*                                                                         *)
(* The window and the sidebar call each other: activating a row emits      *)
(* show-panel, which makes the window load the panel, which makes the list *)
(* activate the row again, which emits show-panel again.  GTK runs all of  *)
(* it synchronously, so one user or system event is one step.  The nested  *)
(* calls are written as operators from shell states to shell states: "s"   *)
(* is the state at the call and the value is the state at the return.      *)
(*                                                                         *)
(* A panel is the position of its row in the sidebar (panel_order).        *)
(***************************************************************************)
EXTENDS Naturals, Sequences

CONSTANTS
    NPanels,        \* number of panels in the model
    VisibilityOf,   \* the visibilities each panel may be given
    MaxHistory      \* bound on the previous-panels queue

Panels == 1..NPanels
NoPanel == 0                    \* NULL panel id
Unknown == NPanels + 1          \* an id that no panel of the model has
Visibilities == {"hidden", "in_search", "visible"}

ASSUME NPanelsAssumption == NPanels \in Nat /\ NPanels > 0
ASSUME VisibilityAssumption ==
    VisibilityOf \in [Panels -> (SUBSET Visibilities) \ {{}}]
ASSUME MaxHistoryAssumption == MaxHistory \in Nat

VARIABLES
    shell,          \* the window and its sidebar, see ShellState
    visibility,     \* COL_VISIBILITY of the panel model
    idle            \* maybe_load_last_panel is still queued

vars == <<shell, visibility, idle>>

ShellState == [
    \* CcWindow
    current    : Panels \cup {NoPanel},  \* current_panel_id
    cancelled  : BOOLEAN,                \* its cancellable has been cancelled
    history    : Seq(Panels),            \* previous_panels, head first
    single     : BOOLEAN,                \* single_panel_mode
    content    : BOOLEAN,                \* the split view shows the content
    prevView   : {"main", "search"},     \* previous_list_view
    \* CcPanelList
    view       : {"main", "search"},
    previous   : {"main", "search"},     \* previous_view
    autoselect : BOOLEAN,                \* autoselect_panel
    listed     : Panels \cup {NoPanel},  \* current_panel_id of the list
    collapsed  : BOOLEAN,                \* selection mode NONE, else SINGLE
    selected   : Panels \cup {NoPanel},  \* the selected row of main_listbox
    row        : [Panels -> BOOLEAN],    \* row widgets shown in main_listbox
    \* CcConfig
    config     : BOOLEAN,                \* the configuration could be parsed
    last       : Panels \cup {NoPanel, Unknown} ]

------------------------------------------------------------------------------
(* Switching panels *)

\* gtk_list_box_select_row: nothing can be selected in a collapsed window.
Select(s, p) == IF s.collapsed THEN s ELSE [s EXCEPT !.selected = p]

\* "When loading the same panel again, just set its parameters."
ShowSame(s, force) ==
    [s EXCEPT !.content = @ \/ force \/ s.prevView = s.view,
              !.prevView = s.view]

\* The panel could not be activated: the old one is kept, although it has been
\* deactivated already.
KeepOld(s) == [s EXCEPT !.cancelled = @ \/ s.current # NoPanel]

\* A new panel object replaces the old one and becomes the current panel.
Load(s, p, remember, force) ==
    [s EXCEPT !.current   = p,
              !.cancelled = FALSE,
              !.history   = IF remember /\ ~s.single /\ s.current # NoPanel
                            THEN <<s.current>> \o @ ELSE @,
              !.content   = @ \/ force,
              !.last      = IF s.config THEN p ELSE @]

\* Mutant of Reveal: the row of the previous panel stays.
RevealOnly(s, vis, p) ==
    Select([s EXCEPT !.row[p] = TRUE, !.autoselect = FALSE], p)

\* Mutant of Reveal: the row of p may stay hidden.
RevealNot(s, vis, p) ==
    Select([s EXCEPT !.row = [q \in Panels |-> IF q = s.listed THEN vis[q] = "visible"
                                                               ELSE s.row[q]],
                     !.autoselect = FALSE], p)

\* The part of cc_panel_list_set_active_panel before the row is activated: the
\* row of the previous panel goes back to its own visibility, p's row shows.
Reveal(s, vis, p) ==
    Select([s EXCEPT !.row = [q \in Panels |->
                                 \/ q = p
                                 \/ IF q = s.listed THEN vis[q] = "visible"
                                                    ELSE s.row[q]],
                     !.autoselect = FALSE], p)

\* switch_to_view, when no first row is to be selected.
SwitchView(s, view) ==
    IF s.view = view THEN s
    ELSE [s EXCEPT !.previous = s.view, !.view = view]

\* Mutant of SyncList: the list does not store the panel's id.
SyncListForgets(s, vis, p) ==
    [ShowSame(SwitchView(Reveal(s, vis, p), "main"), FALSE) EXCEPT !.autoselect = TRUE]

\* cc_panel_list_set_active_panel for the panel the window has just loaded:
\* the row's activation comes back to the window as ShowSame.
SyncList(s, vis, p) ==
    [ShowSame(SwitchView(Reveal(s, vis, p), "main"), FALSE)
        EXCEPT !.autoselect = TRUE, !.listed = p]

\* set_active_panel_from_id
SetActive(s, vis, p, remember, force) ==
    CASE p = s.current        -> ShowSame(s, force)
      [] p \notin Panels      -> s
      [] p \in Panels /\ p # s.current /\ vis[p] = "hidden" -> KeepOld(s)
      [] p \in Panels /\ p # s.current /\ vis[p] # "hidden" ->
            LET t == Load(s, p, remember, force)
            IN  IF t.single THEN t ELSE SyncList(t, vis, p)

------------------------------------------------------------------------------
(* Activating rows *)

\* The signal show-panel, and the flag row_activated_cb resets after it.
ShowPanel(s, vis, p) ==
    [SetActive(s, vis, p, TRUE, FALSE) EXCEPT !.autoselect = TRUE]

FirstRow(s) ==
    IF \E p \in Panels : s.row[p]
    THEN CHOOSE p \in Panels : s.row[p] /\ \A q \in Panels : s.row[q] => p <= q
    ELSE NoPanel

\* cc_panel_list_activate in the main view
ActivateFirst(s, vis) ==
    IF FirstRow(s) = NoPanel THEN s
    ELSE ShowPanel(Select(s, FirstRow(s)), vis, FirstRow(s))

\* switch_to_view (MAIN), which selects the first row when autoselect is set
GoToMain(s, vis) ==
    IF s.view = "search" /\ s.autoselect
    THEN ActivateFirst(SwitchView(s, "main"), vis)
    ELSE SwitchView(s, "main")

\* "activate" of a row of main_listbox: select it, then row_activated_cb
ActivateRow(s, vis, p) == ShowPanel(GoToMain(Select(s, p), vis), vis, p)

\* search_row_activated_cb
ActivateResult(s, vis, p) ==
    ActivateRow([Select(s, p) EXCEPT !.autoselect = FALSE], vis, p)

\* cc_panel_list_activate: the results of a search are in any order and the
\* filter may hide any of them, so that any reachable panel may come first.
ActivateAny(s, vis) ==
    IF s.view = "main" THEN {ActivateFirst(s, vis)}
    ELSE {s} \cup {ActivateResult(s, vis, p) :
                      p \in {q \in Panels : vis[q] # "hidden"}}

\* cc_panel_list_set_active_panel
ListSetActive(s, vis, p) ==
    IF vis[p] = "hidden" THEN ActivateAny(s, vis)
    ELSE {[ActivateRow(Reveal(s, vis, p), vis, p) EXCEPT !.listed = p]}

\* activate_row_below: the next row, or the one before when there is none
RowBelow(p) == IF p < NPanels THEN p + 1 ELSE p - 1

\* Mutant of ListSetVisibility: the row is hidden and remains selected.
ListSetVisibilityOnly(s, vis, p) == [s EXCEPT !.row[p] = vis[p] = "visible"]

\* cc_panel_list_set_panel_visibility, when the model's column is now "vis"
ListSetVisibility(s, vis, p) ==
    LET away == s.selected = p /\ vis[p] # "visible" /\ RowBelow(p) # NoPanel
        t    == IF away THEN ActivateRow(s, vis, RowBelow(p)) ELSE s
    IN  [t EXCEPT !.row[p] = vis[p] = "visible"]

\* cc_panel_list_set_selection_mode: the selection is lost and restored
SetSelectionMode(s, none) ==
    [s EXCEPT !.collapsed = none, !.selected = IF none THEN NoPanel ELSE s.listed]

------------------------------------------------------------------------------
(* Initial states: cc_window_constructed has run *)

\* A new process that found the given configuration.
Started(vis, config, last) ==
    [current |-> NoPanel, cancelled |-> FALSE, history |-> <<>>,
     single |-> FALSE, content |-> FALSE, prevView |-> "main",
     view |-> "main", previous |-> "main", autoselect |-> FALSE,
     listed |-> NoPanel, collapsed |-> FALSE, selected |-> NoPanel,
     row |-> [p \in Panels |-> vis[p] = "visible"],
     config |-> config, last |-> last]

VisibilitiesNow == {vis \in [Panels -> Visibilities] :
                        \A p \in Panels : vis[p] \in VisibilityOf[p]}

Init ==
    /\ visibility \in VisibilitiesNow
    /\ \E config \in BOOLEAN, last \in Panels \cup {NoPanel, Unknown} :
        /\ config \/ last = NoPanel
        /\ shell = Started(visibility, config, last)
    /\ idle = TRUE

------------------------------------------------------------------------------
(* Actions *)

\* Bound on the model: a step adds two entries at most.
HistoryHasRoom == Len(shell.history) + 2 <= MaxHistory

\* Mutants of LoadLastPanel: it selects the first panel in any case; it does not
\* load anything.
LoadFirstPanel ==
    /\ idle
    /\ idle' = FALSE
    /\ shell' \in ActivateAny(shell, visibility)
    /\ UNCHANGED visibility
LoadLastPanelNever == idle /\ idle' = FALSE /\ UNCHANGED <<shell, visibility>>

\* maybe_load_last_panel
LoadLastPanel ==
    /\ idle
    /\ idle' = FALSE
    /\ \/ shell.listed # NoPanel /\ shell' = shell
       \/ /\ shell.listed = NoPanel
          /\ shell.last \in Panels
          /\ shell' \in ListSetActive(shell, visibility, shell.last)
       \/ /\ shell.listed = NoPanel
          /\ shell.last \notin Panels
          /\ shell' \in ActivateAny(shell, visibility)
    /\ UNCHANGED visibility

\* launch-panel, or a panel on the command line.  The caller is told TRUE on every
\* path, also when the panel is unknown.
LaunchPanel(p) ==
    /\ HistoryHasRoom
    /\ shell' = SetActive(shell, visibility, p, TRUE, TRUE)
    /\ UNCHANGED <<visibility, idle>>

\* launch-single-panel-mode.  Clearing the breakpoint's condition undoes its
\* setter: a window that was collapsed by it may be expanded again.
LaunchSinglePanelMode(p) ==
    /\ HistoryHasRoom
    /\ \E none \in {TRUE, shell.single \/ ~shell.collapsed} :
        LET s == SetSelectionMode([shell EXCEPT !.single = TRUE], none)
        IN  shell' = SetActive(s, visibility, p, TRUE, TRUE)
    /\ UNCHANGED <<visibility, idle>>

\* A collapsed window shows the sidebar or the content, not both.
SidebarShown == ~shell.single /\ ~(shell.collapsed /\ shell.content)

\* A row of the sidebar is clicked.
ClickRow(p) ==
    /\ SidebarShown /\ shell.view = "main" /\ shell.row[p]
    /\ HistoryHasRoom
    /\ shell' = ActivateRow(shell, visibility, p)
    /\ UNCHANGED <<visibility, idle>>

\* The user moves through the sidebar with the arrow keys, which select a row that shows
\* without activating it, or unselects it with Ctrl+Space: the list box has a handler
\* for rows that are activated only.
MoveCursor ==
    /\ SidebarShown /\ shell.view = "main" /\ ~shell.collapsed
    /\ \E p \in {q \in Panels : shell.row[q]} \cup {NoPanel} : shell' = Select(shell, p)
    /\ UNCHANGED <<visibility, idle>>

\* A search result is clicked, or Enter is pressed in the search entry.
ClickResult ==
    /\ SidebarShown /\ shell.view = "search"
    /\ HistoryHasRoom
    /\ shell' \in ActivateAny(shell, visibility) \ {shell}
    /\ UNCHANGED <<visibility, idle>>

\* A first character is typed in the search entry, or --search is given
\* (update_search; the window captures the keys of all its widgets).
Search ==
    /\ shell.view = "main"
    /\ shell' = SwitchView(shell, "search")
    /\ UNCHANGED <<visibility, idle>>

\* The search entry is emptied, or the search bar closed (update_search).
ClearSearch ==
    /\ shell.view = "search"
    /\ shell' = SwitchView([shell EXCEPT !.autoselect = FALSE], shell.previous)
    /\ UNCHANGED <<visibility, idle>>

\* Mutant of GoBack: going back is remembered.
GoBackRemembers ==
    /\ shell.history # <<>>
    /\ shell' = SetActive([shell EXCEPT !.history = Tail(@)], visibility,
                          Head(shell.history), TRUE, FALSE)
    /\ UNCHANGED <<visibility, idle>>

\* Alt+Left: switch_to_previous_panel
GoBack ==
    /\ shell.history # <<>>
    /\ shell' = SetActive([shell EXCEPT !.history = Tail(@)], visibility,
                          Head(shell.history), FALSE, FALSE)
    /\ UNCHANGED <<visibility, idle>>

\* A device comes or goes: cc_shell_model_set_panel_visibility, whose
\* row-changed signal reaches the list even when the value stays the same.
SetPanelVisibility(p, v) ==
    /\ v \in VisibilityOf[p]
    /\ HistoryHasRoom
    /\ visibility' = [visibility EXCEPT ![p] = v]
    /\ shell' = ListSetVisibility(shell, visibility', p)
    /\ UNCHANGED idle

\* The window is resized across the breakpoint.
Resize ==
    /\ ~shell.single
    /\ shell' = SetSelectionMode(shell, ~shell.collapsed)
    /\ UNCHANGED <<visibility, idle>>

\* The user returns to the sidebar of a collapsed window.
BackToSidebar ==
    /\ ~shell.single /\ shell.collapsed /\ shell.content
    /\ shell' = [shell EXCEPT !.content = FALSE]
    /\ UNCHANGED <<visibility, idle>>

\* The application quits and is started again: the configuration stays, and
\* a configuration that cannot be parsed stays so.
Restart ==
    /\ shell' = Started(visibility, shell.config, shell.last)
    /\ idle' = TRUE
    /\ UNCHANGED visibility

Next ==
    \/ LoadLastPanel
    \/ \E p \in Panels \cup {Unknown} : LaunchPanel(p) \/ LaunchSinglePanelMode(p)
    \/ \E p \in Panels : ClickRow(p)
    \/ MoveCursor \/ ClickResult \/ Search \/ ClearSearch
    \/ GoBack
    \/ \E p \in Panels : \E v \in Visibilities : SetPanelVisibility(p, v)
    \/ Resize \/ BackToSidebar \/ Restart

\* The main loop runs the queued idle callback.
Spec == Init /\ [][Next]_vars /\ WF_vars(LoadLastPanel)

------------------------------------------------------------------------------
(* Properties *)

\* Every variable has the type its comment states.
TypeOK ==
    /\ shell \in ShellState
    /\ visibility \in [Panels -> Visibilities]
    /\ idle \in BOOLEAN

\* Window and sidebar each keep a current panel id; except in single panel mode,
\* where the sidebar is gone, no sequence of events makes them differ.
ListFollowsWindow == ~shell.single => shell.listed = shell.current

\* Whenever the window turns to another panel, be it by a click, a launch, a search, a
\* device event or a step back, the sidebar shows and selects its row, wherever the
\* arrow keys had moved the selection and whatever panels were activated on the way.
\* (In a collapsed window nothing is selected.)
NewPanelIsSelected ==
    [][~shell'.single /\ shell'.current \notin {shell.current, NoPanel}
        => /\ shell'.row[shell'.current]
           /\ shell'.selected = IF shell'.collapsed THEN NoPanel ELSE shell'.current]_vars

\* Going back always changes the panel: the head of previous_panels is never the
\* panel displayed, and no panel follows itself in the queue.
HistoryNeverRepeats ==
    /\ ~shell.single /\ shell.history # <<>> => Head(shell.history) # shell.current
    /\ \A i \in 1..Len(shell.history) - 1 : shell.history[i] # shell.history[i + 1]

\* The row of a panel that is only visible in search shows only while it is the
\* panel of the sidebar, and is hidden "after the user moves out"; the row of a
\* visible panel always shows.
RowsMatchVisibility ==
    \A p \in Panels :
        /\ visibility[p] = "visible" => shell.row[p]
        /\ shell.row[p] /\ visibility[p] # "visible" => p = shell.listed

\* Seen without its sidebar, the shell navigates as the abstract history does.
History == INSTANCE PanelHistory WITH
    current <- shell.current, history <- shell.history, kiosk <- shell.single
NavigatesAsHistory == History!Spec

\* The search view is only entered from the main view, so that leaving it by
\* emptying the entry (switch_to_view of previous_view) does leave it.
SearchReturnsToMain == shell.view = "search" => shell.previous = "main"

\* The configuration always names the panel on display, the one a new process
\* comes back to.
ConfigNamesCurrent ==
    shell.config /\ shell.current # NoPanel => shell.last = shell.current

\* When the panel of the selected row stops being visible, the window moves to
\* another panel, whose row is in the sidebar.
HiddenPanelIsLeft ==
    [][\A p \in Panels :
        /\ shell.selected = p /\ visibility[p] = "visible"
        /\ visibility'[p] # "visible"
        => /\ shell'.current # p
           /\ shell'.row[shell'.current]]_vars

\* The queued idle callback leaves a panel that was activated before it ran,
\* "from commandline parameter or from DBus method", as long as the
\* configuration can be read.
IdleKeepsPanel ==
    [][idle /\ ~idle' /\ shell.config /\ shell.current # NoPanel
        => shell'.current = shell.current]_vars

\* A process whose configuration names a panel ends up displaying a panel.
LastPanelComesBack ==
    (idle /\ shell.last \in Panels) ~> (shell.current # NoPanel)

==============================================================================
