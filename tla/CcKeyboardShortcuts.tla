------------------------ MODULE CcKeyboardShortcuts ------------------------
(***************************************************************************)
(* The keyboard shortcuts page: the manager's table of items and their key *)
(* combinations (cc-keyboard-manager.c, cc-keyboard-item.c), the list of   *)
(* custom shortcuts in the settings, the dialog that edits one item        *)
(* (cc-keyboard-shortcut-editor.c), resets (cc-keyboard-shortcut-page.c),  *)
(* and other programs that write the same settings.                        *)
(*                                                                         *)
(* An item holds a set of combinations; a custom one is named after its    *)
(* settings path.  An item and its settings are one value: GSettings tells *)
(* the item of every change at once.                                       *)
(***************************************************************************)
EXTENDS Naturals, Sequences, FiniteSets, Functions

CONSTANTS
    Standard,       \* items bound to a key of a schema
    Globals,        \* shortcuts of applications, held in memory
    NPaths,         \* custom shortcuts have the settings paths 1..NPaths
    Keyvals,        \* key symbols
    Codes,          \* hardware key codes
    CodeOf,         \* the code that parsing gives each symbol
    Presses,        \* the combinations the user may press
    Default,        \* the default combinations of a standard item
    Reverse,        \* its reverse item, or None
    Hidden,         \* standard items that have no row
    Group,          \* the group of sections each item is in
    Order,          \* the rows of standard items, as reset-all visits them
    Foreign,        \* items whose settings other programs write
    Starts,         \* what custom and global shortcuts may hold at the start
    MaxChanges,     \* bound on what other programs write
    None            \* no item; an empty combination

Paths == 1..NPaths
Items == Standard \cup Globals \cup Paths
Combos == [keyval : Keyvals, code : Codes, shift : BOOLEAN]

(* Settings hold the symbol, so a combination that is read back has the code
   that parsing gives. *)
Parsed(c) == [c EXCEPT !.code = CodeOf[c.keyval]]
Stored == {c \in Combos : c.code = CodeOf[c.keyval]}
Reversed(c) == [c EXCEPT !.shift = ~@]
Mirror(S) == {Reversed(c) : c \in S}

HasReverse(i) == i \in Standard /\ Reverse[i] # None
IsReverse(j, i) == HasReverse(i) /\ j = Reverse[i]
Pair(i) == {i} \cup {j \in Standard : IsReverse(j, i)}

ASSUME KeysAssumption == CodeOf \in [Keyvals -> Codes] /\ Presses \subseteq Combos
ASSUME ItemsAssumption ==
    /\ Standard \cap Globals = {} /\ Paths \cap (Standard \cup Globals) = {}
    /\ None \notin Items \cup Combos
    /\ Hidden \subseteq Standard
    /\ Group \in [Items -> Nat]
    /\ NPaths \in Nat /\ MaxChanges \in Nat
ASSUME OrderAssumption == Order \in Seq(Standard)
\* Key bindings files name two entries as each other's reverse.
ASSUME ReverseAssumption ==
    /\ Reverse \in [Standard -> Standard \cup {None}]
    /\ \A i \in Standard : Reverse[i] # None => Reverse[i] # i /\ Reverse[Reverse[i]] = i
\* Other programs leave pairs of reverse items alone.
ASSUME ForeignAssumption ==
    /\ Foreign \subseteq Standard /\ \A i \in Foreign : Reverse[i] = None
    /\ Starts \subseteq [Globals \cup Paths -> SUBSET Stored]
\* The schemas give a reverse item the combinations of its item with Shift, and
\* no combination to two items.
ASSUME DefaultAssumption ==
    /\ Default \in [Standard -> SUBSET Stored]
    /\ \A i, j \in Standard : i # j => Default[i] \cap Default[j] = {}
    /\ \A i \in Standard :
        HasReverse(i) => Default[Reverse[i]] = Mirror(Default[i])

VARIABLES
    combos,     \* key_combos of each item, also of the paths not in use
    names,      \* "custom-keybindings" of the settings: the paths in use
    rows,       \* for each path, the number of custom items of kb_user_sections with it
    editor,     \* the dialog
    pending,    \* the items that a reset under way has still to reset
    changes,    \* number of foreign writes
    crashed     \* the process has dereferenced the settings of a global item

vars == <<combos, names, rows, editor, pending, changes, crashed>>

------------------------------------------------------------------------------
(* Items *)

Live == Standard \cup Globals \cup names
table == {p \in Paths : rows[p] > 0}
Loaded(paths) == [p \in Paths |-> IF p \in paths THEN 1 ELSE 0]
InTable == Standard \cup Globals \cup table

\* cc_keyboard_item_remove_key_combo takes c from i and c with Shift toggled
\* from its reverse item.  It wants the same key code too.
Removed(C, i, c) ==
    [j \in Items |->
        C[j] \ (  (IF j = i THEN {c} ELSE {})
             \cup (IF IsReverse(j, i) THEN {Reversed(c)} ELSE {}))]

\* Mutant of Disabled: the reverse item is left alone.
DisabledAlone(C, i) == [j \in Items |-> IF j = i THEN {} ELSE C[j]]

\* cc_keyboard_item_disable of an item with settings
Disabled(C, i) ==
    [j \in Items |-> IF j \in Pair(i) THEN {} ELSE C[j]]

\* cc_keyboard_item_add_key_combo, for items with settings
Added(C, i, c) ==
    [j \in Items |->
        C[j] \cup (IF j = i THEN {Parsed(c)} ELSE {})
             \cup (IF IsReverse(j, i) THEN {Parsed(Reversed(c))} ELSE {})]

\* Mutant of Restored: the reverse item is disabled.
RestoredAlone(C, i) == [Disabled(C, i) EXCEPT ![i] = Default[i]]

\* cc_keyboard_item_reset: the item and its reverse
Restored(C, i) ==
    [j \in Items |->
        IF j \in Pair(i) THEN Default[j] ELSE C[j]]

------------------------------------------------------------------------------
(* Collisions *)

\* find_conflict compares symbol and modifiers, not the key code.
SameKeys(c, d) == c.keyval = d.keyval /\ c.shift = d.shift
Holds(C, i, c) == \E d \in C[i] : SameKeys(c, d)

\* compare_keys_for_uniqueness of item i: what it reports, not the item edited.
\* A reverse item without a row is looked at only with its item.
Conflicts(C, orig, i, c) ==
    IF i = orig \/ (HasReverse(i) /\ i \in Hidden) THEN {}
    ELSE IF Holds(C, i, c) THEN {i}
    ELSE {j \in Pair(i) : j # orig /\ Holds(C, j, c)}

Collisions(C, orig, c) == UNION {Conflicts(C, orig, i, c) : i \in InTable}

\* cc_keyboard_manager_get_collision: one of them, of the first group that has
\* any; within a group any may come first, sections are in hash tables.
Found(C, orig, c) ==
    LET all == IF c = None THEN {} ELSE Collisions(C, orig, c)
    IN  IF all = {} THEN {None}
        ELSE {i \in all : \A j \in all : Group[i] <= Group[j]}

------------------------------------------------------------------------------
(* The editor *)

Pages == {"edit", "standard", "custom"}
Editors ==
    [open : BOOLEAN, item : Items \cup {None}, page : Pages,
     combo : Combos \cup {None}, edited : BOOLEAN,
     collision : Items \cup {None}, removable : BOOLEAN]

Closed ==
    [open |-> FALSE, item |-> None, page |-> "edit", combo |-> None,
     edited |-> FALSE, collision |-> None, removable |-> FALSE]

IsCustom(i) == i = None \/ i \in Paths

\* cc_keyboard_item_get_primary_combo
Primary(i) == IF combos[i] = {} THEN {None} ELSE combos[i]

\* setup_custom_shortcut of a valid combination, or of none: the dialog shows it
\* and remembers whom it would be taken from.
Captured(c) ==
    {[editor EXCEPT !.page = IF IsCustom(editor.item) THEN "custom" ELSE "standard",
                    !.combo = c,
                    !.edited = TRUE,
                    !.collision = found,
                    !.removable = @ /\ found = None] :
        found \in Found(combos, editor.item, c)}

Running == ~crashed /\ pending = <<>>

\* A click on the row of item i (shortcut_group_row_activated_cb); shortcuts of
\* applications have no row on this page.
EditShortcut(i) ==
    /\ Running /\ ~editor.open
    /\ i \in table \cup (Standard \ Hidden)
    /\ \E c \in Primary(i) :
        editor' = [Closed EXCEPT !.open = TRUE, !.item = i, !.combo = c,
                                 !.page = IF IsCustom(i) THEN "custom" ELSE "edit",
                                 !.removable = IsCustom(i)]
    /\ UNCHANGED <<combos, names, rows, pending, changes, crashed>>

\* add_custom_shortcut_clicked_cb
NewShortcut ==
    /\ Running /\ ~editor.open
    /\ editor' = [Closed EXCEPT !.open = TRUE, !.page = "custom"]
    /\ UNCHANGED <<combos, names, rows, pending, changes, crashed>>

\* change_custom_shortcut_row_activated_cb: what was found before stays
ChangeCombo ==
    /\ Running /\ editor.open /\ editor.page = "custom"
    /\ \E c \in IF editor.item = None THEN {editor.combo} ELSE Primary(editor.item) :
        editor' = [editor EXCEPT !.page = "edit", !.combo = c]
    /\ UNCHANGED <<combos, names, rows, pending, changes, crashed>>

\* on_key_pressed_cb with a valid combination, or with Backspace (None)
Press(c) ==
    /\ Running /\ editor.open /\ editor.page = "edit"
    /\ editor' \in Captured(c)
    /\ UNCHANGED <<combos, names, rows, pending, changes, crashed>>

\* name_entry_changed_cb, command_entry_changed_cb: they look for a collision too
TypeName ==
    /\ Running /\ editor.open /\ editor.page = "custom"
    /\ editor' \in Captured(editor.combo)
    /\ UNCHANGED <<combos, names, rows, pending, changes, crashed>>

\* Mutants of Resolved: the other item loses everything; nothing is taken when a
\* shortcut is created.
ResolvedByDisabling(C) ==
    IF editor.collision = None THEN C ELSE Disabled(C, editor.collision)
ResolvedWhenEditing(C) ==
    IF editor.collision = None \/ editor.item = None THEN C
    ELSE Removed(C, editor.collision, editor.combo)

\* resolve_keyboard_shortcut_collision
Resolved(C) ==
    IF editor.collision = None THEN C ELSE Removed(C, editor.collision, editor.combo)

\* apply_custom_item_fields of an edited shortcut
Applied(C, i) ==
    IF editor.combo = None THEN Disabled(C, i)
    ELSE Added(Disabled(C, i), i, editor.combo)

\* Removing a combination from an item in memory goes on to read its settings,
\* which it does not have.
Crash ==
    /\ editor.collision \in Globals
    /\ crashed' = TRUE
    /\ UNCHANGED <<combos, names, rows, editor, pending, changes>>

\* The buttons Add and Done appear once something valid has been captured.
Confirming == Running /\ editor.open /\ editor.edited /\ editor.page # "edit"

\* set_button_clicked_cb with update_shortcut
Done ==
    /\ Confirming /\ editor.item # None
    /\ editor.collision \notin Globals
    /\ combos' = Applied(Resolved(combos), editor.item)
    /\ editor' = Closed
    /\ UNCHANGED <<names, rows, pending, changes, crashed>>

\* find_free_settings_path
Free(p) == p \notin names /\ \A q \in Paths : q < p => q \in names

\* Mutant of Add: the list is written from the table, not read again.
AddFromTable ==
    /\ Confirming /\ editor.item = None
    /\ editor.collision \notin Globals
    /\ \E p \in Paths :
        /\ Free(p)
        /\ combos' = Applied(Resolved([combos EXCEPT ![p] = {}]), p)
        /\ names' = table \cup {p}
        /\ rows' = [rows EXCEPT ![p] = @ + 1]
    /\ editor' = Closed
    /\ UNCHANGED <<pending, changes, crashed>>

\* add_button_clicked_cb with cc_keyboard_manager_create_custom_shortcut, which
\* resets what the path held, and cc_keyboard_manager_add_custom_shortcut
Add ==
    /\ Confirming /\ editor.item = None
    /\ editor.collision \notin Globals
    /\ \E p \in Paths :
        /\ Free(p)
        /\ combos' = Applied(Resolved([combos EXCEPT ![p] = {}]), p)
        /\ names' = names \cup {p}
        /\ rows' = [rows EXCEPT ![p] = @ + 1]
    /\ editor' = Closed
    /\ UNCHANGED <<pending, changes, crashed>>

ConfirmGlobal == Confirming /\ Crash

\* remove_button_clicked_cb with cc_keyboard_manager_remove_custom_shortcut
Remove ==
    /\ Running /\ editor.open /\ editor.page = "custom" /\ editor.removable
    /\ combos' = [combos EXCEPT ![editor.item] = {}]
    /\ names' = names \ {editor.item}
    /\ rows' = [rows EXCEPT ![editor.item] = @ - 1]
    /\ editor' = Closed
    /\ UNCHANGED <<pending, changes, crashed>>

\* cancel_editing, or the dialog is closed
Cancel ==
    /\ Running /\ editor.open
    /\ editor' = Closed
    /\ UNCHANGED <<combos, names, rows, pending, changes, crashed>>

------------------------------------------------------------------------------
(* Resets *)

\* reset_shortcut_cb: the button of a row that is not at its default
ResetRow(i) ==
    /\ Running /\ ~editor.open
    /\ i \in Standard \ Hidden /\ combos[i] # Default[i]
    /\ pending' = <<i>>
    /\ UNCHANGED <<combos, names, rows, editor, changes, crashed>>

\* on_reset_all_dialog_response_cb: the rows in turn, up to the first custom
\* shortcut; custom shortcuts come last.
ResetAll ==
    /\ Running /\ ~editor.open
    /\ pending' = Order
    /\ UNCHANGED <<combos, names, rows, editor, changes, crashed>>

\* What each item loses to the item being reset: "victim" says for each default
\* combination which item it is taken from.
Taken(C, victim) ==
    [j \in Items |->
        C[j] \ {c \in Stored :
            \E d \in DOMAIN victim :
                \/ victim[d] = j /\ c = d
                \/ IsReverse(j, victim[d]) /\ c = Reversed(d)}]

\* Each is looked up when those before have been taken; the list of the default
\* combinations may have any order.
LookedUp(i, victim) ==
    \E place \in [Default[i] -> 1..Cardinality(Default[i])] :
        /\ \A d, e \in Default[i] : place[d] = place[e] => d = e
        /\ \A d \in Default[i] :
            LET before == {e \in Default[i] : place[e] < place[d]}
            IN  victim[d] \in Found(Taken(combos, Restrict(victim, before)), None, d)

Victims(i) ==
    LET holders == UNION {Collisions(combos, None, d) : d \in Default[i]}
    IN  {victim \in [Default[i] -> holders \cup {None}] : LookedUp(i, victim)}

Reset(C, i, victim) == Restored(Taken(C, victim), i)

\* cc_keyboard_manager_reset_shortcut of the next item.  A handler is not
\* interrupted: nothing else runs before the last item has been reset.
ResetNext ==
    /\ ~crashed /\ pending # <<>>
    /\ \E victim \in Victims(Head(pending)) :
        \/ /\ \A d \in DOMAIN victim : victim[d] \notin Globals
           /\ combos' = Reset(combos, Head(pending), victim)
           /\ pending' = Tail(pending)
           /\ UNCHANGED crashed
        \/ /\ \E d \in DOMAIN victim : victim[d] \in Globals
           /\ crashed' = TRUE
           /\ UNCHANGED <<combos, pending>>
    /\ UNCHANGED <<names, rows, editor, changes>>

------------------------------------------------------------------------------
(* Other programs, and the page opened again *)

ForeignWrite(i, c) ==
    /\ Running /\ changes < MaxChanges
    /\ i \in Foreign \cup names
    /\ combos' = [combos EXCEPT ![i] = IF c = None THEN {} ELSE {Parsed(c)}]
    /\ changes' = changes + 1
    /\ UNCHANGED <<names, rows, editor, pending, crashed>>

\* A program adds a custom shortcut; the manager does not listen to the list.
ForeignAdd(p, c) ==
    /\ Running /\ changes < MaxChanges
    /\ p \notin names
    /\ names' = names \cup {p}
    /\ combos' = [combos EXCEPT ![p] = {Parsed(c)}]
    /\ changes' = changes + 1
    /\ UNCHANGED <<rows, editor, pending, crashed>>

\* A program removes a custom shortcut, and may reset its settings as this one does.
\* The item stays in the table.
ForeignRemove(p) ==
    /\ Running /\ changes < MaxChanges
    /\ p \in names
    /\ names' = names \ {p}
    /\ combos' \in {combos, [combos EXCEPT ![p] = {}]}
    /\ changes' = changes + 1
    /\ UNCHANGED <<rows, editor, pending, crashed>>

\* cc_keyboard_manager_load_shortcuts of a new page
Reload ==
    /\ Running /\ ~editor.open /\ rows # Loaded(names)
    /\ rows' = Loaded(names)
    /\ UNCHANGED <<combos, names, editor, pending, changes, crashed>>

Init ==
    /\ \E held \in Starts :
        combos = [i \in Items |-> IF i \in Standard THEN Default[i] ELSE held[i]]
    /\ names \in SUBSET Paths
    /\ rows = Loaded(names)
    /\ editor = Closed
    /\ pending = <<>>
    /\ changes = 0
    /\ crashed = FALSE

Next ==
    \/ \E i \in Standard \cup Paths : EditShortcut(i)
    \/ NewShortcut \/ ChangeCombo \/ TypeName
    \/ \E c \in Presses \cup {None} : Press(c)
    \/ Done \/ Add \/ ConfirmGlobal \/ Remove \/ Cancel
    \/ \E i \in Standard : ResetRow(i)
    \/ ResetAll \/ ResetNext
    \/ \E i \in Foreign \cup Paths, c \in Presses \cup {None} : ForeignWrite(i, c)
    \/ \E p \in Paths, c \in Presses : ForeignAdd(p, c)
    \/ \E p \in Paths : ForeignRemove(p)
    \/ Reload

\* The loop over the rows runs to its end.
Spec == Init /\ [][Next]_vars /\ WF_vars(ResetNext)

------------------------------------------------------------------------------
(* Properties *)

\* Every variable has the type its comment states; items with settings hold what
\* parsing gives.
TypeOK ==
    /\ combos \in [Items -> SUBSET Stored]
    /\ names \subseteq Paths /\ rows \in [Paths -> Nat]
    /\ editor \in Editors
    /\ pending \in Seq(Standard)
    /\ changes \in 0..MaxChanges
    /\ crashed \in BOOLEAN

\* A reverse item holds what its item holds, with Shift toggled, whether
\* combinations are set, taken for another item or reset.
ReverseMirrors ==
    \A i \in Standard :
        HasReverse(i) => combos[Reverse[i]] = Mirror(combos[i])

\* What the manager writes to the list of custom shortcuts adds and removes only the
\* entries whose items it adds and removes: entries that other programs added since the
\* page was opened stay, and those they removed do not come back.
ListKeepsOthers ==
    [][changes' = changes =>
        /\ \A p \in names' \ names : rows'[p] = rows[p] + 1
        /\ \A p \in names \ names' : rows'[p] = rows[p] - 1]_vars

Holders(c) == {i \in Live : Holds(combos, i, c)}

\* The combination confirmed ends up on one item: what the dialog announced has
\* lost it.  This is so if the announcement was complete (no program gave the
\* combination away meanwhile, and no two items had it) and the key pressed is
\* the one that parsing gives for its symbol.
KeyIsReassigned ==
    [][/\ Done \/ Add
       /\ editor.combo \in Stored
       /\ \A i \in Holders(editor.combo) :
            i \in Pair(editor.item) \cup {editor.collision}
       => \A i \in Live' : Holds(combos', i, editor.combo) =>
            i = editor.item \/ (editor.item = None /\ i \notin names)]_vars

\* "Multi-accelerator shortcuts keep their remaining bindings": an item that is
\* not edited loses the combination confirmed, if it was announced, or is
\* the reverse of one that was, and nothing else.
OthersKeepTheirKeys ==
    [][Done \/ Add =>
        \A i \in Live :
            \/ i \in Pair(editor.item)
            \/ combos'[i] = combos[i]
            \/ i = editor.collision /\ combos'[i] = combos[i] \ {editor.combo}
            \/ /\ IsReverse(i, editor.collision)
               /\ combos'[i] = combos[i] \ {Reversed(editor.combo)}]_vars

\* A reset never takes a combination from an item that is at its default.
ResetKeepsDefaults ==
    [][pending # <<>> =>
        \A i \in Standard : combos[i] = Default[i] => combos'[i] = Default[i]]_vars

\* Reset-all ends with every row at its default, reverse items included, whatever
\* items took each other's combinations before.
ResetAllRestores ==
    (pending = Order) ~>
        (crashed \/ \A i \in Standard \ Hidden : combos[i] = Default[i])

\* Confirming a combination never reads the settings of an item that has none:
\* the item it is taken from is disabled, as the dialog announces.
NeverCrashes == ~crashed
=============================================================================
