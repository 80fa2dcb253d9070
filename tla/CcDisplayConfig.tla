--------------------------- MODULE CcDisplayConfig ---------------------------
(***************************************************************************)
(* The display configuration library, panels/display/cc-display-config.c:  *)
(* one CcDisplayConfig object, read from the compositor and then changed   *)
(* by calls of its public functions in any order.                          *)
(*                                                                         *)
(* Monitors that mirror each other share a logical monitor, an object that *)
(* is freed when its last monitor leaves it.  "Primary" is kept twice: as  *)
(* a flag of the logical monitor and as a pointer to a monitor.  Of the    *)
(* geometry the horizontal axis is kept (both axes are treated alike), and *)
(* of a mode its width.                                                    *)
(***************************************************************************)
EXTENDS Integers, FiniteSets, SequencesExt

CONSTANTS
    NMonitors,      \* number of monitors
    Widths,         \* the widths of the modes of each monitor
    Preferred,      \* the width of its preferred mode
    Positions,      \* where a monitor may be dragged
    MaxX            \* bound on positions

Monitors == 1..NMonitors
LogicalMonitors == 1..NMonitors + 1
None == 0           \* NULL: no logical monitor, no primary, no mode

ASSUME NMonitorsAssumption == NMonitors \in Nat
ASSUME PositionsAssumption == Positions \subseteq Int
ASSUME ModesAssumption ==
    /\ Widths \in [Monitors -> SUBSET (Nat \ {0})]
    /\ Preferred \in [Monitors -> Nat]
    /\ \A m \in Monitors : Preferred[m] \in Widths[m]

VARIABLE config     \* the CcDisplayConfig object, see Configs

Configs == [
    lm      : [Monitors -> LogicalMonitors \cup {None}],    \* logical_monitor
    mode    : [Monitors -> Nat],                            \* current_mode
    flag    : [LogicalMonitors -> BOOLEAN],                 \* lm->primary
    x       : [LogicalMonitors -> Int],                     \* lm->x
    primary : Monitors \cup {None} ]

Members(c, i) == {m \in Monitors : c.lm[m] = i}
\* The hash table logical_monitors
Registered(c) == {i \in LogicalMonitors : Members(c, i) # {}}
ActiveMonitors(c) == {m \in Monitors : c.lm[m] # None}
\* A logical monitor that does not exist yet
Fresh(c) == CHOOSE i \in LogicalMonitors : i \notin Registered(c)

\* logical_monitor_width looks at any of the monitors.
WidthsOf(c, i) == {c.mode[m] : m \in Members(c, i)}

------------------------------------------------------------------------------
(* The primary monitor *)

\* cc_display_config_set_primary
SetPrimary(c, new) ==
    IF c.primary = new \/ c.lm[new] = None THEN c
    ELSE LET old == IF c.primary = None THEN None ELSE c.lm[c.primary]
         IN  [c EXCEPT !.primary = new,
                       !.flag = [i \in LogicalMonitors |->
                                    i = c.lm[new] \/ (i # old /\ c.flag[i])]]

\* Mutants of UnsetPrimary: the next monitor of the list takes over, on or off;
\* nobody takes over.
UnsetPrimaryNext(c, old) ==
    IF c.primary # old THEN c
    ELSE IF old = None THEN SetPrimary(c, CHOOSE m \in ActiveMonitors(c) : TRUE)
    ELSE [c EXCEPT !.primary = old + 1]
UnsetPrimaryOnly(c, old) ==
    IF c.primary # old THEN c
    ELSE IF old = None THEN SetPrimary(c, CHOOSE m \in ActiveMonitors(c) : TRUE)
    ELSE [c EXCEPT !.primary = None]

\* cc_display_config_unset_primary; "unset primary with NULL" selects a monitor
\* when there is no primary.
UnsetPrimary(c, old) ==
    LET heirs == ActiveMonitors(c) \ {old}
    IN  IF c.primary # old THEN c
        ELSE IF heirs = {} THEN [c EXCEPT !.primary = None]
        ELSE SetPrimary(c, CHOOSE m \in heirs : \A n \in heirs : m <= n)

\* Mutant of SetLogicalMonitor: the primary does not follow to the new object.
SetLogicalMonitorForgets(c, m, i) ==
    LET old == c.lm[m]
        was == old # None /\ c.flag[old]
        b   == IF was THEN UnsetPrimary(c, m) ELSE c
        d   == [b EXCEPT !.lm[m] = i]
    IN  IF i = None THEN d ELSE UnsetPrimary(d, None)

\* cc_display_monitor_set_logical_monitor: m leaves its logical monitor, which
\* is freed when m was the last one, and joins logical monitor i.
SetLogicalMonitor(c, m, i) ==
    LET old   == c.lm[m]
        was   == old # None /\ c.flag[old]
        left  == [(IF was THEN UnsetPrimary(c, m) ELSE c) EXCEPT !.lm[m] = i]
        freed == old \in LogicalMonitors \ Registered(left)
        d     == IF ~freed THEN left
                 ELSE [left EXCEPT !.flag[old] = FALSE, !.x[old] = 0]
    IN  CASE i = None         -> d
          [] i # None /\ was  -> SetPrimary(d, m)
          [] i # None /\ ~was -> UnsetPrimary(d, None)

------------------------------------------------------------------------------
(* Monitors on and off, mirrored and joined *)

\* cc_display_config_append_right: to the right of the logical monitor with the
\* greatest position (there may be several).
AppendRight(c, i) ==
    LET others == Registered(c) \ {i}
        last   == {j \in others : \A k \in others : c.x[k] <= c.x[j]}
    IN  IF others = {} THEN {[c EXCEPT !.x[i] = 0]}
        ELSE UNION {{[c EXCEPT !.x[i] = c.x[j] + w] : w \in WidthsOf(c, j)} : j \in last}

\* cc_display_monitor_set_active
SetActive(c, m, active) ==
    LET on == [c EXCEPT !.mode[m] = IF @ = None THEN Preferred[m] ELSE @]
        i  == Fresh(c)
    IN  CASE active /\ c.lm[m] = None   -> AppendRight(SetLogicalMonitor(on, m, i), i)
          [] active /\ c.lm[m] # None   -> {on}
          [] ~active                    -> {SetLogicalMonitor(c, m, None)}

IsCloning(c) ==
    Cardinality(ActiveMonitors(c)) > 1 /\ Cardinality(Registered(c)) = 1

\* logical_monitor_width, of any of the monitors
WidthOf(c, i) == c.mode[CHOOSE m \in Monitors : c.lm[m] = i]
\* Logical monitor i goes to the next free position.
Place(c, d, i) == [x |-> [d.x EXCEPT ![i] = d.next], next |-> d.next + WidthOf(c, i)]

\* Mutant of PrimaryPlaced: the others start at the origin, too.
PrimaryPlacedOver(c) ==
    LET start == [x |-> c.x, next |-> 0]
    IN  IF c.primary = None THEN start
        ELSE [Place(c, start, c.lm[c.primary]) EXCEPT !.next = 0]

\* cc_display_config_make_linear, called when every monitor has a logical monitor
\* of its own: the primary at 0, the others to its right in any order.
PrimaryPlaced(c) ==
    LET start == [x |-> c.x, next |-> 0]
    IN  IF c.primary = None THEN start ELSE Place(c, start, c.lm[c.primary])
OthersOf(c) == Registered(c) \ {IF c.primary = None THEN None ELSE c.lm[c.primary]}
Placing(c, order) ==
    LET after[n \in 0..Len(order)] ==
            IF n = 0 THEN PrimaryPlaced(c) ELSE Place(c, after[n - 1], order[n])
    IN  after
MakeLinear(c) ==
    {[c EXCEPT !.x = Placing(c, order)[Len(order)].x] : order \in SetToSeqs(OthersOf(c))}

\* The two loops of cc_display_config_set_cloning, after n monitors
Mirroring(c) ==
    LET after[n \in 0..NMonitors] ==
            IF n = 0 THEN c ELSE SetLogicalMonitor(after[n - 1], n, Fresh(c))
    IN  after
Separating(c) ==
    LET after[n \in 0..NMonitors] ==
            IF n = 0 THEN c ELSE SetLogicalMonitor(after[n - 1], n, Fresh(after[n - 1]))
    IN  after

MirrorAll(c) == Mirroring(c)[NMonitors]
Separate(c) == Separating(c)[NMonitors]

\* cc_display_config_set_cloning
SetCloning(c, clone) ==
    CASE clone = IsCloning(c)           -> {c}
      [] clone /\ ~IsCloning(c)         -> {MirrorAll(c)}
      [] ~clone /\ IsCloning(c)         -> MakeLinear(Separate(c))

\* cc_display_config_ensure_non_offset_coords
NonOffset(c) ==
    LET used == Registered(c)
        low  == CHOOSE x \in {c.x[i] : i \in used} : \A i \in used : x <= c.x[i]
    IN  IF used = {} THEN c
        ELSE [c EXCEPT !.x = [i \in LogicalMonitors |->
                                IF i \in used THEN @[i] - low ELSE @[i]]]

------------------------------------------------------------------------------
(* Initial states: construct_monitors has read the compositor's state, a list   *)
(* of logical monitors of which one is marked as the primary.                  *)

Blank == [
    lm |-> [m \in Monitors |-> None], mode |-> [m \in Monitors |-> None],
    flag |-> [i \in LogicalMonitors |-> FALSE],
    x |-> [i \in LogicalMonitors |-> 0], primary |-> None ]

\* state.of: the logical monitor of each monitor; state.x: their positions;
\* state.mode: the current modes; primary: a monitor of the one that is marked.
\* The order of the list does not matter as one logical monitor is marked.
Read(state, c, m) ==
    IF state.of[m] = None THEN c
    ELSE [SetLogicalMonitor(c, m, state.of[m])
            EXCEPT !.mode[m] = state.mode[m],
                   !.x[state.of[m]] = state.x[state.of[m]]]
Reading(state) ==
    LET after[n \in 0..NMonitors] ==
            IF n = 0 THEN Blank ELSE Read(state, after[n - 1], n)
    IN  after
Construct(state, primary) ==
    LET read == Reading(state)[NMonitors]
    IN  IF primary = None THEN read ELSE SetPrimary(read, primary)

\* The compositor's states: mirroring monitors have modes of the same size.
States ==
    {s \in [ of : [Monitors -> Monitors \cup {None}], x : [Monitors -> 0..1],
             mode : [Monitors -> UNION {Widths[m] : m \in Monitors} \cup {None}] ] :
        \A m \in Monitors :
            /\ s.of[m] = None => s.mode[m] = None
            /\ s.of[m] # None => s.mode[m] \in Widths[m]
            /\ s.of[m] \in {None, m} \/ (s.of[m] < m /\ s.of[s.of[m]] = s.of[m])
            /\ s.of[m] # None => s.mode[m] = s.mode[s.of[m]]
            /\ s.of[m] # m => s.x[m] = 0}

Init ==
    \E s \in States :
        LET on == {m \in Monitors : s.of[m] # None}
        IN  \E m \in IF on = {} THEN {None} ELSE on : config = Construct(s, m)

------------------------------------------------------------------------------
(* Actions: the public functions.  Nobody calls cc_display_monitor_set_primary *)
(* to take the role away from a monitor.                                       *)

\* Bound on the model: positions do not grow for ever.
Within(c) == \A i \in LogicalMonitors : c.x[i] <= MaxX

\* cc_display_monitor_set_active
Activate(m, active) ==
    \E c \in SetActive(config, m, active) : Within(c) /\ config' = c

\* cc_display_config_set_cloning
Clone(clone) == \E c \in SetCloning(config, clone) : Within(c) /\ config' = c

\* cc_display_monitor_set_primary (TRUE)
MakePrimary(m) == config' = SetPrimary(config, m)

\* cc_display_monitor_set_mode
SetMode(m, width) == config' = [config EXCEPT !.mode[m] = width]

\* cc_display_config_set_mode_on_all_outputs, for a mode that all of them have
SetModeOnAll(width) ==
    config' = [config EXCEPT
        !.mode = [m \in Monitors |-> width],
        !.x = [i \in LogicalMonitors |-> IF i \in Registered(config) THEN 0 ELSE @[i]]]

\* cc_display_monitor_set_position
SetPosition(m, x) ==
    /\ config.lm[m] # None
    /\ config' = [config EXCEPT !.x[config.lm[m]] = x]

\* Comparing or applying the configuration moves it to the origin.
EnsureNonOffset == Within(NonOffset(config)) /\ config' = NonOffset(config)

Next ==
    \/ \E m \in Monitors :
        \/ \E active \in BOOLEAN : Activate(m, active)
        \/ MakePrimary(m)
        \/ \E width \in Widths[m] : SetMode(m, width)
        \/ \E x \in Positions : SetPosition(m, x)
    \/ \E clone \in BOOLEAN : Clone(clone)
    \/ \E width \in {w \in Widths[1] : \A m \in Monitors : w \in Widths[m]} : SetModeOnAll(width)
    \/ EnsureNonOffset

Spec == Init /\ [][Next]_config

------------------------------------------------------------------------------
(* Properties *)

\* The configuration has the type its comment states.
TypeOK == config \in Configs

\* The two records of the primary agree, whatever has been turned on and off,
\* mirrored or joined: the flag is set on exactly one of the logical monitors in
\* use, the one of the monitor self->primary, and there is a primary whenever a
\* monitor is on.
OnePrimary ==
    /\ config.primary = None <=> ActiveMonitors(config) = {}
    /\ {i \in Registered(config) : config.flag[i]} =
            {config.lm[config.primary] : m \in ActiveMonitors(config)}

\* Monitors that stop mirroring end up side by side, the primary at the origin:
\* no two of them overlap and there is no gap (cc_display_config_make_linear).
JoinedIsLinear ==
    [][IsCloning(config) /\ Registered(config') # {}
        /\ Cardinality(Registered(config')) = NMonitors
       => LET Span(m) == config'.x[config'.lm[m]] .. config'.x[config'.lm[m]] + config'.mode[m] - 1
              all     == UNION {Span(m) : m \in Monitors}
          IN  /\ config'.x[config'.lm[config'.primary]] = 0
              /\ \A m, n \in Monitors : m = n \/ Span(m) \cap Span(n) = {}
              /\ all = 0 .. Cardinality(all) - 1]_config

\* Users of the library need not know of logical monitors and flags: what is on,
\* what mirrors what and which is the primary change as DisplayLayout says.
LayoutOf(c) == [
    monitors |-> Monitors,
    groups   |-> {Members(c, i) : i \in Registered(c)},
    primary  |-> c.primary ]
Layout == INSTANCE DisplayLayoutSpec WITH layout <- LayoutOf(config)
ImplementsLayout == Layout!Spec
==============================================================================
