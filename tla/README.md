# A verification project for the control center

TLA+ models of the control center in this repository (a Hyprland fork of GNOME
Settings), TLC runs that check them on small instances, and TLAPS proofs for
every value of their constants. Modules carry the names of the C files they
model, and definitions those of the functions where TLA+ allows it.
`PROJECT.json` maps every definition to its lines of code.

    tlc -config shell.cfg MCCcWindow          # one run; see "Runs"
    tlapm ShellProofs.tla                     # one proof module; see "Proofs"

## The system

The program is one process with one main loop. A window shows a sidebar of
panels and the panel in use. A panel is a page of settings, nearly all of which
show the state of some other service over D-Bus and send it requests. Threads
are rare: `GTask` workers that create proxies, list printers or parse
wallpapers. What is hard lies in three places:

* handlers that re-enter each other through signals before the first one ends
  (selecting a row loads a panel, which selects a row);
* answers that come when the panel, or the state they are about, has changed;
* state kept twice: window and sidebar, a flag and a pointer, a configuration
  and its edited copy, a cache and the service behind it.

### Components

| Component (source) | State | Operations | What makes it correct |
|---|---|---|---|
| Window and sidebar (`shell/cc-window.c`, `cc-panel-list.c`) | current panel (twice), queue of previous panels, views, rows, single panel mode | activate a row or a result, launch, search, go back, resize | both agree; going back changes the panel; the rows shown are those that should be |
| Shell model (`shell/cc-shell-model.c`) | visibility of each panel | set the visibility when hardware comes or goes | a panel that disappears is left for one that is there |
| Configuration file (`shell/cc-config.c`) | JSON with the last panel and other keys | read, write as a whole | a restart comes back to the panel that was on display |
| Object storage (`shell/cc-object-storage.c`) | table of D-Bus proxies, a `GTask` per request | create in a thread or synchronously, finish, cancel | its assertion holds; each object is stored once; every request is answered |
| Display library (`panels/display/cc-display-config.c`) | logical monitors, primary (flag and pointer), modes, positions | turn on or off, mirror, join, make primary, move | the two records of the primary agree; joined monitors form a row |
| Display manager and panel (`cc-display-config-manager.c`, `cc-display-panel.c`, `cc-display-settings.c`) | cached state, edited copy, titlebar, rows, lid | signal, answer, lid, edits, apply, cancel | the copy stems from the latest state; "Apply Changes?" tells the truth |
| Arrangement (`cc-display-arrangement.c`) | positions and sizes of the monitors, a drag | drag, resize, turn, switch, snap | two monitors stay attached and never overlap; to snap again what was snapped moves nothing |
| Night Light (`cc-night-light-page.c`, `cc-hyprsunset.c`) | keys of the file, `hyprsunset` processes | switch, set temperature, schedule | cannot be reached, see "What is not modelled" |
| Keyboard shortcuts (`panels/keyboard/cc-keyboard-manager.c`, `cc-keyboard-item.c`, editor, page) | items with key combinations, list of custom shortcuts, the dialog | edit, add, remove, reset one or all | a combination confirmed ends on one item; nobody loses anything else; reverse items mirror their items |
| Wi-Fi, network, connection editor (`panels/network`) | mirrors of NetworkManager objects | switch, connect, hotspot | the switches follow the daemon |
| Mobile broadband (`panels/wwan`) | access points and the connections NetworkManager stores for them, the SIM used for data | choose, edit, switch data, choose a SIM | what is stored and what the device uses end as the page shows them |
| Printers (`panels/printers`) | the list, one deletion that can be undone, those under way, page, toast and timer | list, delete, undo, rename, add, test the connection | a deleted printer stays hidden; an undone deletion is never carried out, every other one is |
| Thunderbolt (`panels/privacy/bolt`) | two lists of devices with their boxes, a dialog, a queue of calls | devices come, go and change, authorise with parents, forget | the lists follow the daemon; parents before children; an operation ends |
| Tablets (`panels/wacom`) | devices, calibration points, tools | plug, calibrate | axes and misclicks are recognised |
| Mouse and Hyprland backend (`panels/mouse`, `libhypr`) | one socket per request | send, read | the whole answer is read |
| Others (sound, power, colour, sharing, privacy pages, applications, background, notifications, search, multitasking, online accounts, universal access, Bluetooth) | mostly kept by another service | show, set | |

`panels/system`, `panels/wellbeing`, `search-provider` and
`global-shortcuts-provider` are in the tree but no `meson.build` enters them, and
`panels/power/cc-hypridle.c` is compiled by nobody.

### How they interact

* Sidebar to window: the signal `show-panel`, synchronously. Window to sidebar:
  `cc_panel_list_set_active_panel`, inside that signal.
* Window to model: a panel type's static initialiser installs callbacks on
  devices. Of the panels listed in `cc-panel-loader.c` only wifi and wacom have
  one; both switch between *visible* and *visible in search*. The model's
  `row-changed` signal reaches the sidebar.
* Window to panel: `cc_panel_deactivate` cancels the panel's cancellable before
  the next panel is made; panel to storage: proxies by key.
* Printers panel to CUPS: threads that read lists, and D-Bus calls that change
  them, answered in any order. Thunderbolt page and boltd: signals and answers in
  order, later than what they tell. Broadband pages and NetworkManager: requests
  handled in order, answers in the same order, later.
* Display panel to library: calls; to the manager: the signal `changed`; the
  manager to the compositor: D-Bus.

## Modules

    PanelHistory        abstract navigation, as in a browser
      <- CcWindow       implements it (NavigatesAsHistory)
    DisplayLayout       abstract operations on a display configuration
    DisplayLayoutSpec   the specification they make up
      <- CcDisplayConfig  implements it (ImplementsLayout)
      <- CcDisplayPanel   is written against the operations, beside the
                          manager's cache, the compositor and the lid
    CcDisplayArrangement  where the monitors of a configuration lie
    CcObjectStorage     the storage, composed with the panels that use it
    CcKeyboardShortcuts items, dialog and resets of the shortcuts page, composed
                        with other programs that write the same settings
    CcPrintersPanel     the printers panel, composed with CUPS
    CcBoltPage          page, dialog and queue of calls, composed with boltd
    CcWwanData          access points of all SIMs, composed with NetworkManager

`MC*` modules give the constants values for TLC, `*Proofs` modules hold theorems.
`ShellProofs` is about both modules of `shell/`, so that the initial predicate, the
steps and the types of `CcObjectStorage` bear its name (`StorageSpec`).
Definitions introduced as mutants state plausible mistakes in the code; for every
checked property there is one that breaks it.

### CcWindow

One user or system event is one step, because GTK emits signals synchronously. The
nested calls are operators from shell states to shell states, one per function, and the
recursion between window and sidebar is unfolded: it ends after two rounds, since the
panel just loaded is current when the row is activated again (`ShowSame`). `Load` is
`activate_panel`, `SetActive` is `set_active_panel_from_id`, `ActivateRow` is
`row_activated_cb`, `Reveal` and `SyncList` are the two halves of
`cc_panel_list_set_active_panel`, `ListSetVisibility` is
`cc_panel_list_set_panel_visibility`. The actions are the events: the queued idle
callback, a launch (D-Bus or command line), single panel mode, clicks on rows and
results, the arrow keys (`MoveCursor`: they select a row and activate nothing), typing
and clearing a search, Alt+Left, a device event, a resize across the breakpoint, the
back button of a collapsed window, and a restart, which keeps the configuration file
only.

A panel is its position in the sidebar. Titles, keywords, the order of search
results (any reachable panel may be the first result), subpages and sizes are left
out. A panel whose model row says *hidden* stands for one that cannot be
activated.

### CcObjectStorage

Each panel object is an instance with one `GTask` per key. `Open` is the
deactivation of the old panel and the creation of the new one, with its
synchronous proxies (which the bus may refuse) and its asynchronous requests;
`ThreadReturns` is the worker; `Finish` is the callback in the main loop, with the
assertion of `cc_object_storage_create_dbus_proxy_finish`. A cancelled task gives
an error whatever its thread returned, as `g_task_propagate_pointer` does.

### DisplayLayout, CcDisplayConfig

`CcDisplayConfig` keeps the objects of the library: which logical monitor each
monitor belongs to, the flag `primary` of each logical monitor, the pointer
`self->primary`, a position and a mode. Only one axis is kept, since the code
treats both alike, and a mode is its width. `LayoutOf` maps this state to a
`DisplayLayout`: the sets of monitors that share a logical monitor, and the
primary.

### CcDisplayPanel

The compositor changes by itself, sends a signal and answers `GetCurrentState`,
in order on one bus, and calls may fail. `GotCurrentState` replaces the manager's
cache and lets the panel rebuild; the lid, the user's edits, Apply and Cancel are
actions. The panel's functions are operators as in `CcWindow`. Modes, scales,
rotations and positions are one value, the "look", which a conversion may
change in any way. The check whether a configuration may be applied is taken as
allowed.

### CcKeyboardShortcuts

`combos` gives each item the set of its combinations, `names` is the list of
custom shortcuts in the settings, and `rows` counts the custom items the manager holds
of each path (two, if another program removed a path and the user adds a shortcut
then); `table` is the set of these paths.
An item and its settings are one value, since GSettings tells the item of every
change at once; a combination is a symbol, a key code and Shift, and `Parsed` is
what reading it back from the settings makes of the key code. `Removed`,
`Disabled`, `Added` and `Restored` are the four operations of
`cc-keyboard-item.c` on an item and its reverse. `Conflicts`, `Collisions` and
`Found` are the search for a collision, group by group; within a group any item
that collides may be found. The dialog (`editor`) has three pages and remembers
the collision found when the combination was pressed, until it is confirmed
(`Done`, `Add`), removed or cancelled. It is a new object each time.

A reset is a loop in one handler: `pending` holds the items still to be reset, and
nothing else is enabled until it is empty. Each default combination of an item is looked
up after those before it have been taken from others (`LookedUp`). Other programs write
a standard item or a custom one, and add and remove custom shortcuts, `MaxChanges`
times; they do not write items that have a reverse. The page does not hear of such
additions and removals until it is opened again. Adding and removing are one step each,
although the code reads the list (`cc-keyboard-manager.c:760`) before it writes it
(`:769`): what another process writes between the two would be lost. A process that
has read the settings of an application's shortcut, which is held in memory,
has `crashed` and does nothing more. Invalid combinations are refused by the
dialog and leave nothing behind, so they are left out, and so are names and
commands.

### CcDisplayArrangement

A layout gives each monitor that is on its size (scaled and turned) and the
position of its corner, in real pixels; both axes are kept. `Candidates` are the
positions `find_best_snapping` tries against one other monitor, in its order:
`Edges`, `Corners` and, without limit, `Hanging`. `MaybeUpdateSnap` is the
function of that name, split into what the limits allow (`Allowed`) and when a
candidate is better than the last one taken (`Better`). The actions are press,
motion and release of the pointer, a change of a monitor's size, a monitor
switched on or off, and a new configuration. Two distances of the code are
measured on the widget and positions on the screen: `Zoom` is the ratio of the
drawing, fixed at 20 screen pixels to one, which is that of the three monitors in a
narrow window; the code computes it from the layout and the window. The loops of
`find_best_snapping` and `cc_display_config_snap_outputs` are functions from the number
of turns to the snap, or the layout, after them (`Trying`, `Visiting`, `Snapping`).

### CcPrintersPanel

`panel` is the panel object, with the rows the filter hides; the handlers are
operators on it. Every listing is a record in `listings`: CUPS is read in a thread
(`ReadListing`) and the answer is handled later (`ListingArrives`), in any order.
`Dismissed` is `on_notification_dismissed`, which the timer, the toast, the undo
button and the next deletion all reach; `Becomes` adds the call that goes with
each name put on `deleted_printers`. `verdict` is a history variable: what the user
last said of a printer. Other programs add and remove printers, CUPS stops and
starts, calls fail. The connection may be tested several times at once (`testing` counts,
`MaxTests` is the bound). The toast of a failed addition has no handler for its end:
once it expires (`PlainToastExpires`) `self->toast` points to freed memory, and the next
deletion, which dismisses it, goes on or ends the process. `Dispose` closes the panel.

### CcBoltPage

`boltd` is the daemon, `inbox` what it has sent and the main loop has not handled,
`seen` the cached properties of the proxies. `AddDevice`, `DelEntry`,
`StatusChanged`, `Synchronize` and `Clear` are the functions that move rows
between the two lists and show or hide their boxes. The dialog orders the devices
to authorise (`Chain`), and `HandleReplyContinue` and `HandleReplyDone` are the two
ends of `allop_one_done`. `ops` are the operations in flight, one slot each: a dialog that
is closed leaves its operation there, and another dialog may start its own. boltd may
stop and start, and other programs authorise devices too. A device whose `added` message
is handled when boltd no longer has it is listed all the same, until its removal is heard
of; `UpdateVisibility` hides and shows the page as a whole, and a row that goes while it
is hidden finds no list visible. `OperationDone` leaves out what the code does after a
cancelled call: the calls are made without a cancellable, and boltd is assumed not to
answer with that error itself.

### CcWwanData

`wwan` holds all `CcWwanData` objects with what NetworkManager stores: for each access
point its own connection, the one NetworkManager gave back, and the flags (SIM, connects
by itself, priority) of each; `kept` is a history variable, the connections that were
bound to a SIM beside or before its default and have not been reset. `Connection`
prefers the former, as `wwan_data_get_nm_connection` does. `SaveApn`, `SaveSettings`,
`SetDefaultApn`, `SetEnabled` and `SetPriority` are the functions; `Received` and
`SettingsSaved` are the callbacks. NetworkManager handles a request when it is made, may
refuse any change (`refused`), and its answers come later in order. Activations and
disconnections may fail (`unlinked`). `DataChanged` rebuilds the list of SIMs and
chooses one by priority.

## Runs

| Run | Instance | States | Shows |
|---|---|---|---|
| `shell` | 4 panels: wifi, the row below it, wacom, the row below it; `MaxHistory` 3 | 109 000 | window, sidebar, visibilities, configuration and abstract history agree under all events; the panel the window turns to is shown and selected; the idle callback keeps an explicit launch; a restart comes back |
| `storage` | wifi, bluetooth, display with the keys they use; `MaxInstances` 4 | 10 900 | the assertion holds, proxies are shared and stored once, requests are answered |
| `display_config` | 3 monitors, one with two widths; `MaxX` 3 | 63 000 | the records of the primary agree, joined monitors form a row, the library implements `DisplayLayoutSpec` |
| `display_panel` | a laptop and up to two external monitors; `MaxSerial` 2, `MaxErrors` 1 | 287 000 | edits start from the latest state, the titlebar, the toggle and the rows tell the truth, the cache catches up |
| `display_arrangement` | 3 monitors of different sizes, one that can be turned, one with a second mode; 25 places for the pointer, `MaxSteps` 5 | 20 400 | two monitors never come apart or overlap, snapping settles, attached ones are hardly moved, a monitor switched on finds a place |
| `keyboard` | a launcher with two combinations, two reverse items with rows (as in `01-input-sources.xml.in`), one application's shortcut, 2 custom paths; four combinations to press, `MaxChanges` 1 | 290 000 | a combination confirmed ends on one item, others keep theirs, the list keeps foreign entries, resets restore |
| `printers` | 2 printers, the second may be added and the first renamed to it; `MaxListings` 1, `MaxTests` 2 | 1 447 000 | deleted printers stay hidden, deletions are tracked, sent unless undone, and never otherwise |
| `bolt` | a chain of 2 devices of which the first is stored when authorised; `MaxInbox` 3, `MaxBusy` 1, `MaxOperations` 2 | 1 147 000 | lists and boxes follow the daemon, devices are authorised from the root on, operations end |
| `wwan` | 2 SIMs, 3 stored access points and one that is not; `MaxSteps` 3 | 546 000 | stored flags, devices and the SIM for data end as the pages show |

Why the bounds are enough. *shell*: the shipped table has two panels that follow
hardware, neither above the other; one more visible row for each gives every neighbour a
row can have, and a queue of three holds a repetition at its head, in the middle and
after a pop. *storage*: a request, its panel's replacement, a synchronous creation of
the same key in between and a second request by a new instance need four instances.
*display_config*: with three monitors two can mirror while the third stands alone, a
logical monitor can lose one member and keep two, and the primary's successor is not
always the next one; `MaxX` holds the row of the widest modes. *display_panel*: one
change, by the compositor or by Apply, falls between a question and its answer or
between the answer and the user's edits, and its signal crosses the answer; the safety
theorems hold for any number of changes. With two external monitors off and the lid
closed `rebuild_ui` converts the configuration whose rows it has made. *keyboard*: a
reverse pair, a third standard item and a custom one let two items swap combinations
before a reset, a collision be found on an item, its reverse or a custom shortcut, and a
foreign write, addition or removal fall between the key press and the confirmation; two
key codes of one symbol are a second layout. *display_arrangement*: a drag takes a press
and a motion, and the first motion still has the limit of the former configuration, so
five steps hold a change, a drag of two motions and another change; the places of the
pointer lie inside, between, beside and far from the monitors. In the first layout the
monitors are attached but not aligned, as the compositor may report them. *printers*:
handlers ask for further listings beyond the bound, so that two or three are in flight
and cross; two printers let one deletion wait while another is sent, and a name be
deleted, renamed and added again; two tests cross. *bolt*: the first device of the chain
can fail or be authorised by others before the second is asked for. Three messages may
wait, such as a late signal, a stop and a start, while no operation runs; beside
operations (`MaxBusy`) boltd does a step of its own when none waits, and an answer may
come with the signal of what it did. Two operations: that of a closed dialog and that of
the next. The theorems need none of these bounds. *wwan*: three changes let two saves of
one SIM cross with a change of the other, and any of them be refused; an access point
that is not stored may be chosen and left again before NetworkManager has answered.

`CHECK_DEADLOCK FALSE` appears where the system may stop: the compositor, CUPS and
boltd may cease to change with nothing left to handle, the keyboard's process may
have crashed, and the arrangement and broadband models end at their bound on steps.

Fairness. The idle callback runs because the main loop does (`WF` of `LoadLastPanel`).
Worker threads return because D-Bus calls time out, and their callbacks are run by the
main loop (`WF` of `ThreadReturns`, `Finish`). The compositor answers or the call times
out (`WF` of `Answer`), and the main loop delivers (`WF` of `Delivers`). The loop of
reset-all is inside one handler and runs to its end (`WF` of `ResetNext`). The timer of
a deletion fires (`WF` of `Timeout`). What boltd sends is handled by the main loop (`WF`
of `Handle`), and a call to it is answered or times out (`WF` of `Answer`). Nothing is
assumed of users, devices or the compositor's own changes.

### Where code and documentation part

Each of these runs checks one statement of a comment, an assertion or a manual
page, and TLC finds it violated.

| Run | Statement | What happens |
|---|---|---|
| `keyboard_global` | "this shortcut will disable the other" | if the other is an application's shortcut, its settings are NULL and the process ends: a bug in the code |
| `bolt_closed` | "don' do anything if we are being destroyed" | the dialog has no cancellable, so closing it cancels nothing and the answer uses a dialog that is gone: a bug in the code |
| `wwan_autoconnect` | "the device will automatically turn data on everytime the same SIM is available" | for an access point added in this session the flag is written to a connection that is never committed: a bug in the code |

Smaller disagreements were met and have no run.

Of the shell: the queued idle callback leaves the search view that `--search`
opened. A device event that changes nothing moves the user out of a panel that is
visible in search only, which `cc-panel.h:53` calls accessible there. A panel that
is kept because the next one cannot be activated ("let's keep the old panel around
instead") has been cancelled by then; only a panel table such as that of
`tests/interactive-panels`, with hidden panels, can show it.
`cc_window_set_active_panel_from_id` reports success on every path, also for an
unknown panel. Hiding the row in use during a search loads the first panel on the
way to the neighbour, which leaves an entry in the queue (`PanelHistory` calls it
a detour). A panel whose device vanishes while the arrow keys have another row selected
stays on display with its row hidden: `cc-panel-list.c:951-955` looks at the selected row
only. In single panel mode with an unreadable configuration the idle callback
replaces a panel launched before it ran, against the comment at `cc-window.c:607`:
the list has no panel of its own there.

Of the displays: the comment at `cc-display-panel.c:876` says the configuration is
re-read after Apply; it is copied from the cache. After a failed call
`cc_display_config_equal` is given NULL, and the panel offers to apply changes nobody
made. Nothing prevents Mirror without a mode in common, and the conversion then stops
halfway: this is the case the theorem `TitlebarTells` excludes. With the lid closed and
the externals off no output is selected, and the settings activate NULL; with two
externals off, `rebuild_ui` converts the configuration whose rows it has just made
(`cc-display-panel.c:697-752`): they then hold monitors of a configuration that was
dropped, against "We need to hold on to the config until all display references are
dropped". `RowsShowCurrent` names this case and the halted conversion as its exceptions,
and *display_panel* reaches both the case and its surroundings. With three monitors
snapping moves some layouts that are attached already, and a resize of one of three may
leave an overlap; the first motion after a new configuration has the limit of the former
one, so that a drag of one motion can part two monitors; switching a monitor off may
move the others.

Of the printers: an undo while the connection is tested leaves "No Printers" over a list
with a printer, until the next listing. The toast of a failed addition is dropped by its
overlay when it expires, and the panel keeps a pointer to it. `new_printer_name` is
never cleared, so that one printer can be added per panel, and the test of the
connection has no cancellable.

Of Thunderbolt: parents that are being authorised at that moment are skipped. A page that
hid itself while boltd was down stays hidden when boltd is back, until a device comes or
goes: `update_visibility` is not called when the owner of the name changes
(`cc-bolt-page.c:143-145`).

Of broadband: an access point chosen or edited twice before the answer is added twice;
the second answer is an error and clears what the first one set. "At a time, only one
connection will be bound to a device" is not kept: whoever chooses an access point that
is not stored, and then a stored one before the answer to the addition, leaves both
bound, since `cc_wwan_data_save_settings` resets only an old default that has a remote
connection (`cc-wwan-data.c:823`); so does a refused reset, whose error is ignored
(`:837`). `SavedAsShown` says what is kept instead. The comment at
`cc-wwan-data.c:103-106` says that of several matching connections the one with the
highest route metric is taken; the code takes the first. A failed activation is only
warned about, and the list of SIMs is not made again then. The list of SIMs may jump
back to the former choice when it is an access point that is not stored.
`cc_wwan_data_delete_apn` has no caller. The comment at `cc-wwan-data.c:123` says that
only the access point of the selected SIM has the high priority; a choice lowers only
that of the SIM chosen before, so with three SIMs one that was switched off meanwhile
keeps it.

Of the shortcuts: a key of a second layout is announced to be taken from an
item, but `cc_keyboard_item_remove_key_combo` compares key codes, which the
search for collisions does not, and so leaves it there. An item that is edited or
reset gives its reverse item a combination nobody checked, although
`cc-keyboard-shortcut-page.c:334` says that resets resolve conflicts: a custom
shortcut may keep it. Reset-all returns at the first custom shortcut and then does
not set the overview switch. A custom shortcut that another program removed stays on the
page, and one it added does not appear, until the page is opened again.

## Proofs

Each theorem holds for every value of the constants that satisfies the assumptions
named below; bounds on steps and listings are constants like the others, and no
proof needs their values. Theorems whose property no run names (the type
correctness of seven components, `HistoryNeverRepeatsHolds`,
`SearchReturnsToMainHolds`, `ConfigNamesCurrentHolds`, `StoredOnceHolds`,
`ResetKeepsDefaultsHolds`) need no run any more.

| Theorem | Module | Says |
|---|---|---|
| `StorageTypesHold`, `NeverFailsHolds`, `ProxiesAreSharedHolds`, `StoredOnceHolds`, `AnswersReachLivePanelHolds` | `ShellProofs` | type correctness and the safety of the storage |
| `TypeCorrect`, `HistoryNeverRepeatsHolds`, `ListFollowsWindowHolds`, `RowsMatchVisibilityHolds`, `SearchReturnsToMainHolds`, `ConfigNamesCurrentHolds`, `IdleKeepsPanelHolds` | `ShellProofs` | type correctness and the safety of the shell |
| `NewPanelIsSelectedHolds` | `ShellProofs` | whenever the window turns to another panel, the sidebar shows and selects its row |
| `HiddenPanelIsLeftHolds` | `ShellProofs` | the window leaves a panel that disappears from the sidebar for one whose row is shown |
| `ImplementsHistory` | `ShellProofs` | `Spec => NavigatesAsHistory`: the shell implements `PanelHistory` |
| `NeverRepeatsHolds` | `ShellProofs` | the abstract history never repeats a panel |
| `LayoutsStayLayouts` | `CcDisplayPanelProofs` | every operation leads from layouts to layouts |
| `TypeCorrect`, `OnePrimaryHolds` | `CcDisplayConfigProofs` | type correctness of the display library; flag, pointer and monitors in use agree on the primary |
| `JoinedIsLinearHolds` | `CcDisplayConfigProofs` | monitors that stop mirroring stand side by side, the primary first, for any number of monitors and any order of the hash table |
| `ImplementsLayoutHolds` | `CcDisplayConfigProofs` | `Spec => ImplementsLayout`: the library implements `DisplayLayout` |
| `DrawingTypes`, `PairStaysAttachedHolds`, `SettlingAttaches` | `CcDisplayArrangementProofs` | type correctness of the drawing; dragging, or snapping after a change of the settings, leaves two monitors attached along an edge, whatever their sizes and wherever they were |
| `PairSettlesHolds` | `CcDisplayArrangementProofs` | what a change of the settings leaves of two monitors is attached and comes to rest at once; monitors that were attached are moved no farther than `MINOR_SNAP_DISTANCE` |
| `EditsAreOfTheLatestState`, `UsableMonitorsFollowTheLid`, `TitlebarTells`, `RowsShowTheEditedMonitors` | `CcDisplayPanelProofs` | what the panel edits, tells and lists, for any monitors and any number of changes and failures |
| `PanelTypes`, `TitlebarTellsOfMirrorable` | `CcDisplayPanelProofs` | type correctness of the panel; what it tells, from a condition on the monitors that may be plugged in instead of on the states |
| `PrintersTypes`, `DeletedStaysHidden`, `DeletionsTracked`, `UndoneIsKept` | `CcPrintersPanelProofs` | type correctness and the safety of the printers panel |
| `DataTypes`, `SettingsAreSaved`, `DevicesFollow`, `HighPriorityIsChosen` | `CcWwanDataProofs` | type correctness of broadband; what is stored, what the devices use, which SIM is chosen for data |
| `Invariant`, `TypeCorrect`, `ListsFollowBoltdHolds`, `BoxesFollowListsHolds`, `ParentsFirstHolds` | `CcBoltPageProofs` | type correctness and the safety of the Thunderbolt page |
| `TypeCorrect`, `ReverseMirrorsHolds`, `ListKeepsOthersHolds`, `KeyIsReassignedHolds`, `OthersKeepTheirKeysHolds`, `ResetKeepsDefaultsHolds` | `CcKeyboardShortcutsProofs` | type correctness and every safety property of the shortcuts page |

**Storage.** The assertion speaks of one task and the table, which is not inductive. The
invariant adds: only the panel on display can be live (`LiveIsOpen`), so that at most
one instance has requests that will be delivered; instances not yet created have no
tasks (`TasksAreOld`); a task answered from the table finds its key stored, and it stays
stored (`CachedIsStored`); a live task with a thread has a key that is not stored,
because nothing is stored for another panel meanwhile and no panel asks for a key both
ways (`PendingIsNotStored`, from `OneWayAssumption`, which the code calls a programming
error to break). Without the cancellation in `Deactivate` the last part fails, and so
does the assertion. `AnswersReachLivePanelHolds` is an action property: as long as the
same panel is open, what it has received changes only by an answer to a request of its
own that was not cancelled, and then to the stored proxy.

**Shell.** The operators call each other as the functions do, so the proof has one lemma
per function. `Calling` and `Consistent` are what holds at a call and at a return.
Meanwhile one row `x` may be out of order: the row being revealed, or the one being
hidden whose handler has not reached its last line. What makes it inductive: nothing is
in the queue before the first panel (`FirstIsFirst`); no panel follows itself in the
queue (`Apart`), from which the head differs from the panel on display after a pop; the
two ids agree except in single panel mode (`Listed`); nothing is selected in a collapsed
window (`Unselected`); the search view was entered from the main view (`FromMain`). The
lemmas also say how a call navigates (`Went`, `Walked`), from which each event is a step
of `PanelHistory` or leaves it alone. The number of panels and the length of the queue
are arbitrary.

Four of the theorems (`ShellIsConsistent`, `HistoryNeverRepeatsHolds`,
`IdleKeepsPanelHolds`, `ImplementsHistory`) assume `NeverHidden`: no panel may hide
altogether, as is the case for all panels of `cc-panel-loader.c`. With the table of the
interactive test, whose panels hide, a panel that cannot be activated leaves the window
with one that was cancelled, and TLC refutes `HistoryNeverRepeats`, `IdleKeepsPanel` and
`NavigatesAsHistory`. The others, on types, the two panel ids, rows, views, the saved
configuration and the row that is selected, need it not: `Steady` is what is left of
`Calling`, without the queue and the cancellable, and it is kept by the calls that fail
too (`Answered`). The arrow keys move the selection away from the panel, so
`NewPanelIsSelected` is about the moment at which the panel changes: a call leaves the
panel alone or presents the new one (`Turned`, `Presented`). `HiddenPanelIsLeftHolds`
and `NewPanelIsSelectedHolds` assume `NeighbourStays`: the row that is activated when a
panel disappears belongs to a panel that never does. That is so in `panel_order`, where
the network panel is below wifi and universal access below wacom; in single panel mode,
where the hidden sidebar keeps its rows, the activated row need not be shown otherwise.

**History and layouts.** `NothingBeforeFirst` strengthens the history's property.
Layouts need no strengthening; that the successor of a primary is a member of its
set uses that numbers are well-founded.

**Shortcuts.** The invariant adds to types and mirrored reverse items that the dialog
has a combination when it has a collision and offers to remove only what the table
holds (`EditorOK`). One lemma per operation says that it keeps reverse items
mirrored; for what is taken from several items at once it is enough that the loss
is mirrored (`LossMirrors`). The action properties then follow from what an
operation does to one item (`AppliedElsewhere`, `ResolvedElsewhere`), and
`KeyIsReassigned` from the fact that stored combinations with the same symbol and
modifiers are equal. `ReverseAssumption`, `DefaultAssumption` and
`ForeignAssumption` say what the key binding files and schemas look like and which
items other programs write; `ReverseMirrors` fails without them.

**Display library.** `OnePrimary` speaks of logical monitors in use, and an unused one
may be used again with the flag it was left with. The invariant (`Good`) says instead
that of all logical monitors exactly the primary's has the flag, that the primary is on,
and that nobody is on when there is none. Every operation is made of moves of one
monitor to a logical monitor, so one lemma says what a move does to the flags and to who
shares with whom (`MoveFacts`), and one, from the least step that could go wrong,
carries a fact through a loop of moves; the loops are recursive functions, whose values
are shown to exist first. Placing monitors after mirroring is such a loop too. What it
keeps is `Row`: the monitors placed so far fill the axis from 0 to the next free
position without overlapping, the primary at 0; once all are placed, `Row` is
`JoinedIsLinear` (`RowIsSide`). That nothing but the end of mirroring gives every
monitor a logical monitor of its own is shown by counting (`OnlyJoining`). That a move
to an unused logical monitor leaves the others alone needs that there is one
(`FreshIsUnused`, by counting). Then the sets of monitors that share a logical monitor
and the primary change as `DisplayLayout` says. `PositionsAssumption`, `ModesAssumption`
and `NMonitorsAssumption` say no more than that positions are integers, widths numbers,
and monitors finitely many.

**Display panel.** The invariant says that what the compositor has sent has the shape of
a state (`MessagesAreStates`), and that what is edited stems from the cached state, with
the built-in monitor usable as the lid says (`Follows`). `TitlebarTells` is proved under
the hypothesis that the cached state is always one whose monitors could be mirrored
(`StateIsMirrorable`), because mirroring that stops halfway does not tell the titlebar.
`RowsShowTheEditedMonitors` needs no hypothesis: the property names the two cases in
which the rows are dropped. Its invariant (`Lists`) says that usable monitors belong to
the copy (`Fits`), and that rows that are listed are those of the copy unless one of the
cases holds (`Shows`): `rebuild_ui` finds a configuration joined already when one of
several usable monitors is on, and converts the one it has just made rows for when none
is. `config_ensure_of_type` is written as sets of groups rather than as a loop over
monitors, so that the prover can say which monitors it turns on. `StartupsAssumption`:
the compositor comes up with layouts.

Type correctness (`TInv`) needs that usable, listed and selected monitors belong to the
copy in every state (`Proper`), since turning on a monitor that is not plugged in would
not give a layout, and that calls under way and signals not yet handled are together no
more than the changes of the compositor's state, which bounds `asked`. `TInv` also says
that the monitors of any state are those of a layout of `Startups`. So the hypothesis
`StateIsMirrorable` follows from the constants when what may be plugged in together has
a mode in common (`Plugged \subseteq Mirrorable`), as it has in *display_panel*.

**Arrangement.** The theorems are about the operators, since a motion computes its result
from the layout alone: whatever the snap was, a candidate either changes nothing or puts
the monitor at it (`UpdateFacts`), and every candidate but those straight to an edge is
where enough of an edge is shared (`EveryEndHolds`, `EndIsAttached`). So the candidates
after the edges leave what the edges made or attach the monitor (`EndsDecide`). The edges
come first and are taken, which fixes the side (`EdgesSnap`). Where that is not enough,
the monitor lies too far off along the other axis, and of the two hanging candidates
of that side the one towards which it may move without limit is allowed, and better
(`HangsWhereItIs`); monitors that lie diagonally have no edges and the same holds
(`NearAttaches`). The rest is about loops: only one turn of the outer loop does anything
for two monitors (`OnlyNeighbour`), and snapping the second one finds the first attached
(`SnapOutputsAttaches`). The hypotheses: `LargeMonitors`, none is smaller than
`MIN_OVERLAP`; for a drag `SpotsAreNear`, the pointer never takes a monitor so far
straight away from another that the distance reaches 9999, the code's value for none; for
`SettlingAttaches` and `PairSettlesHolds` the same of the layout that is snapped
(`PairIsClose`). The places and layouts of *display_arrangement* satisfy them in every
state.

That two monitors come to rest (`PairComesToRest`) takes more than that they are
attached. A monitor that touches the other one is put where the edges leave it
(`EdgesLeave`) and then at the first of the corners and hanging places within
`MINOR_SNAP_DISTANCE`, in the order of the code: none that comes later replaces it
(`FirstIsTaken`, `SnapBeside`). Along the edge this is a function of one number, how far
one monitor starts from where the other starts (`Goes`), and it need not rest after one
snap: the start may be near to the centre the monitor has just gone to. What is true is
that from a place that is one of the targets, or near to none of them, the next snap
leads to one that rests (`GoesToRest`); every snap ends at such a place
(`SnapLandsBeside`), whose mirror image is such a place for the other monitor
(`AtRestForBoth`). So the snap of the first monitor lands, that of the second brings
both to rest, and the next round moves neither. The hypotheses: `RoomyMonitors`, every
monitor is longer than `MIN_OVERLAP` and `MINOR_SNAP_DISTANCE` together, 30 pixels,
without which the next change may move them once more, as TLC finds on small sizes; and
`MinorSnap < MinOverlap`, 5 and 25 in the code.

**Printers.** The properties are nearly inductive: the invariant adds types and that the
user last asked to delete the printer that is pending (`PendingIsWanted`), from which
whoever ends the wait (timer, toast, another deletion, closing) may send it.
`BecomesKeepsInv` says what a handler has to show of the panel it leaves.

**Broadband.** The properties speak of moments at which nothing is under way. The
invariant holds at every moment: what was stored at the start keeps one connection
and is never added again (`Base`); the default access point belongs to its SIM
(`Bound`); and the default is stored as the
page shows it, or the last answer under way, or arrived, is an error (`Match`,
`Doubt`). `SaveSettings` re-establishes this for its SIM whatever the change was
(`SaveSettingsFacts`). `Linked` says the same of the device, unless its last activation
failed. A second invariant (`Tied`) says of every access point, stored at the start or
not, that it belongs to a SIM only as its default or as one of `kept`, which
`ResetOld` alone adds to; nothing is assumed of how many connections are bound at the
start. A page
that waits for nothing also has the flags as NetworkManager has them (`Shown`). Of two
SIMs one has the high priority at most (`OneIsHigh`), and the SIM that is chosen has it
if one that is offered does, unless a request is under way, was refused, or the list is
about to be made again (`Quiet`, `ChosenIsHigh`).
`PriorityAssumption`: at the start at most one of two SIMs has the high priority.

**Thunderbolt.** The lists are compared with the daemon when its messages have been
handled, but at any other moment they are of the past. The invariant therefore says what
the messages under way tell: the owner of the name comes and goes in turns
(`OwnersAlternate`), and the last message about a device tells its present state
(`MessagesTell`). A device nobody has a message about is listed as the daemon has it,
because handlers read the state of a device when they run and not when the message was
sent (`ListsAgree`). While the page says "no devices" over rows, the removal of each of
them, or of boltd as a whole, is still to be handled (`StackFits`): a row is added with
"have devices", and only a removal on a hidden page, which is one without devices, turns
it back. Each operation has one call in flight and at most one answer (`RepliesFit`,
`CallsFit`), also those of closed dialogs. `ParentsFirst` follows from the order of the
queue: the chain is found upwards in the tree and called downwards, and a device has a
larger number than the one it hangs on (`DevicesAssumption`).

What stays with TLC: liveness (`LastPanelComesBack`, `RequestsAreAnswered`,
`RefreshesEventually`, `ResetAllRestores`, `DeletionsAreSent`, `OperationsEnd`), which
needs fairness; and `NewcomerFits` of `CcDisplayArrangement`. This one is no theorem: TLC
refutes it on monitors of a few pixels, where the snapping distances and `MIN_OVERLAP` are
not small beside the sizes. It holds of the real sizes and layouts of the run.

## What is not modelled

* Presentation: widgets that show one value or are bound to one key.
* State kept by another service (NetworkManager, PulseAudio, UPower, BlueZ) as far as
  a panel only mirrors it.
* Night Light. The page cannot be built: its `init` updates the dialog, which reads
  the configuration, before the configuration manager is made. The switch that
  would start the schedule is connected to nothing, so neither the processes nor the
  conversion of hours (which stores noon as hour 24) can be reached.
* Subpages of panels, window geometry, translations, parsing of D-Bus variants.
* Components listed as `not_modelled` in `PROJECT.json`, each with its reason.

Within the modelled components: the lease of the printers' subscription, jobs and the
search for new printers; the switch for direct access of Thunderbolt and its
security levels; roaming, SIM locks and devices that come and go in broadband;
scales, rotations and colour modes of a monitor beyond one value. Each would add
state without touching the properties here.

The modelled share of the code is small. Most of the tree is presentation, or
mirrors one service each in a panel that shares nothing with the others; the modules
follow the code where state is kept twice, handlers re-enter or answers come late.

## What could come next

In this order:

1. `HyprBackend` (`libhypr/hypr-backend.c`): an answer delivered in pieces, and what a
   short read leaves.
2. `WifiPanel`: the airplane mode switch and the late rfkill proxy, composed with
   `CcObjectStorage`.
3. The tablet calibrator, the entry of times and the conversion of host names, as
   pure algorithms against reference definitions.
4. Proofs: what the three shell properties that need `NeverHidden` still say of panels that
   never hide when others do.
