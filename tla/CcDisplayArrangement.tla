------------------------ MODULE CcDisplayArrangement ------------------------
(***************************************************************************)
(* The drawing of the monitors of the display panel, where they are        *)
(* dragged, panels/display/cc-display-arrangement.c, and the snapping that *)
(* follows a drag or a change of a monitor's settings.                     *)
(*                                                                         *)
(* A layout is a record of the monitors that are useful (usable and on),   *)
(* their sizes as drawn (scaled and rotated) and the positions of their    *)
(* upper left corners, in pixels.  Every monitor has a logical monitor of  *)
(* its own: with mirrored monitors the panel hides the drawing.            *)
(***************************************************************************)
EXTENDS Integers, FiniteSets, Sequences

CONSTANTS
    NMonitors,      \* number of monitors
    Sizes,          \* the sizes the settings of each monitor may give it
    Layouts,        \* the layouts the compositor reports
    Spots,          \* where the pointer may drag a corner
    MaxSteps,       \* bound on the steps of a behaviour
    MajorSnap, MinorSnap, Far,      \* MAJOR_SNAP_DISTANCE, MINOR_SNAP_DISTANCE and 9999
    MinOverlap,     \* MIN_OVERLAP
    Zoom            \* the drawing shows one pixel for Zoom of the screen's

Monitors == 1..NMonitors        \* in the order of cc_display_config_get_monitors
None == 0
Axes == {"x", "y"}
Other(a) == IF a = "x" THEN "y" ELSE "x"
Points == [Axes -> Int]

ASSUME ArrangementAssumption ==
    /\ NMonitors \in Nat
    /\ Sizes \in [Monitors -> SUBSET Points]
    /\ {MajorSnap, MinorSnap, Far, MinOverlap, MaxSteps, Zoom} \subseteq Nat
    /\ Zoom > 0 /\ Spots \subseteq Points
    /\ \A l \in Layouts :
        l \in [useful : SUBSET Monitors, size : [Monitors -> Points], pos : [Monitors -> Points]]

VARIABLES
    layout,         \* the current configuration
    drag,           \* selected_output while drag_active, or None
    unlimited,      \* major_snap_distance = G_MAXUINT
    steps

vars == <<layout, drag, unlimited, steps>>

AbsDiff(i, j) == IF i < j THEN j - i ELSE i - j
Least(i, j) == IF i < j THEN i ELSE j
Most(i, j) == IF i < j THEN j ELSE i

Low(l, m, a) == l.pos[m][a]
High(l, m, a) == l.pos[m][a] + l.size[m][a]
Place(p, q) == [x |-> p, y |-> q]
\* The point with coordinate p on axis a and q on the other axis
On(a, p, q) == [b \in Axes |-> IF b = a THEN p ELSE q]

------------------------------------------------------------------------------
(* Snapping a monitor that is at the point from.  A snap (SnapData) is the *)
(* best position so far, its distances and the axes it has snapped on; a   *)
(* reach is major_snap_distance with the scale of to_widget.               *)

Dragged(free) == [free |-> free, zoom |-> Zoom]
Settled == [free |-> TRUE, zoom |-> 1]

\* The three distances of the code are of the widget, the positions of the screen.
BeyondMajor(d, reach) == ~reach.free /\ d > MajorSnap * reach.zoom
BeyondMinor(d, reach) == d > MinorSnap * reach.zoom

\* A candidate: the point to, the axes dirs it snaps on, the axis of the gap it
\* closes, and hang, the direction in which it may move along the other axis
\* without limit.
Candidate(to, dirs, axis, hang) == [to |-> to, dirs |-> dirs, axis |-> axis, hang |-> hang]

\* The switch of maybe_update_snap
Allowed(from, c, reach) ==
    LET o == Other(c.axis)
    IN  /\ ~BeyondMajor(AbsDiff(from[c.axis], c.to[c.axis]), reach)
        /\ BeyondMinor(AbsDiff(from[o], c.to[o]), reach) =>
            /\ c.to[o] > from[o] => c.hang > 0
            /\ c.to[o] < from[o] => c.hang < 0

\* Mutant of Better: a corner must be strictly closer than an edge.
BetterStrictly(s, from, c) ==
    LET d == [a \in Axes |-> AbsDiff(from[a], c.to[a])]
    IN  IF c.dirs = Axes
        THEN s.snapped = {} \/ d[c.axis] < s.dist[c.axis]
        ELSE \E a \in c.dirs : d[a] < s.dist[a] \/ a \notin s.snapped

\* The rest of maybe_update_snap
Better(s, from, c) ==
    LET d == [a \in Axes |-> AbsDiff(from[a], c.to[a])]
    IN  IF c.dirs = Axes
        THEN \/ s.snapped = {}
             \/ d[c.axis] < s.dist[c.axis]
             \/ \E a \in Axes : s.snapped = {a} /\ Most(d.x, d.y) <= s.dist[a]
             \/ s.snapped = {c.axis} /\ c.to[c.axis] = s.pos[c.axis]
        ELSE \E a \in c.dirs : d[a] < s.dist[a] \/ a \notin s.snapped

\* maybe_update_snap
MaybeUpdateSnap(s, from, c, reach) ==
    IF ~(Allowed(from, c, reach) /\ Better(s, from, c)) THEN s
    ELSE [pos     |-> [a \in Axes |-> IF a \in c.dirs THEN c.to[a] ELSE s.pos[a]],
          dist    |-> [a \in Axes |-> IF a \in c.dirs THEN AbsDiff(from[a], c.to[a]) ELSE s.dist[a]],
          snapped |-> s.snapped \cup c.dirs]

\* OVERLAP: m, moved to p, and n have a common coordinate on axis a.
Share(l, m, n, a) == Low(l, m, a) <= High(l, n, a) /\ Low(l, n, a) <= High(l, m, a)

\* Before and after n on axis a: top and bottom, left and right
Sides(l, m, n, a) == <<Low(l, n, a) - l.size[m][a], High(l, n, a)>>

\* dist_y and dist_x: how far m is from either side of n, when it is beside n
Gap(l, m, n, a, zoom) ==
    LET s == Sides(l, m, n, a)
    IN  IF ~Share(l, m, n, Other(a)) THEN Far * zoom
        ELSE Least(AbsDiff(Low(l, m, a), s[1]), AbsDiff(Low(l, m, a), s[2]))

\* Straight to an edge of n, along the axis on which m is closer
Edges(l, m, n, zoom) ==
    LET Way(a, i) == Candidate([l.pos[m] EXCEPT ![a] = Sides(l, m, n, a)[i]], {a}, a, 0)
    IN  IF Gap(l, m, n, "y", zoom) < Gap(l, m, n, "x", zoom) THEN <<Way("y", 1), Way("y", 2)>>
        ELSE IF Gap(l, m, n, "x", zoom) < Far * zoom THEN <<Way("x", 1), Way("x", 2)>>
        ELSE <<>>

\* At side i of n on axis a, with the ends aligned or, above and below, the centres
Corners(l, m, n, a, i) ==
    LET o      == Other(a)
        side   == Sides(l, m, n, a)[i]
        starts == Low(l, n, o)
        ends   == High(l, n, o) - l.size[m][o]
        centre == Low(l, n, o) + l.size[n][o] \div 2 - l.size[m][o] \div 2
        At(q)  == Candidate(On(a, side, q), Axes, a, 0)
    IN  <<At(starts), At(ends)>> \o (IF a = "y" THEN <<At(centre)>> ELSE <<>>)

\* Mutant of Hanging: the monitors only touch at a corner.
HangingByNothing(l, m, n, a, i) ==
    LET o    == Other(a)
        side == Sides(l, m, n, a)[i]
    IN  <<Candidate(On(a, side, Low(l, n, o) - l.size[m][o]), Axes, a, 1),
          Candidate(On(a, side, High(l, n, o)), Axes, a, -1)>>

\* At side i of n on axis a, sharing no more than MinOverlap of the edge
Hanging(l, m, n, a, i) ==
    LET o    == Other(a)
        side == Sides(l, m, n, a)[i]
    IN  <<Candidate(On(a, side, Low(l, n, o) - l.size[m][o] + MinOverlap), Axes, a, 1),
          Candidate(On(a, side, High(l, n, o) - MinOverlap), Axes, a, -1)>>

AllCorners(l, m, n) ==
    Corners(l, m, n, "y", 1) \o Corners(l, m, n, "y", 2)
    \o Corners(l, m, n, "x", 1) \o Corners(l, m, n, "x", 2)
AllHanging(l, m, n) ==
    Hanging(l, m, n, "y", 1) \o Hanging(l, m, n, "y", 2)
    \o Hanging(l, m, n, "x", 1) \o Hanging(l, m, n, "x", 2)

\* Corners, then hanging, of every side
Ends(l, m, n, reach) ==
    AllCorners(l, m, n) \o (IF reach.free THEN AllHanging(l, m, n) ELSE <<>>)

Candidates(l, m, n, reach) == Edges(l, m, n, reach.zoom) \o Ends(l, m, n, reach)

\* find_best_snapping: the snap of monitor m after each of the candidates next to
\* monitor n, after each of the monitors, and where m belongs in the end
Trying(s, l, m, n, reach) ==
    LET cs == Candidates(l, m, n, reach)
        after[i \in 0..Len(cs)] ==
            IF i = 0 THEN s ELSE MaybeUpdateSnap(after[i - 1], l.pos[m], cs[i], reach)
    IN  after
Near(s, l, m, n, reach) == Trying(s, l, m, n, reach)[Len(Candidates(l, m, n, reach))]
Visiting(l, m, reach) ==
    LET after[n \in 0..NMonitors] ==
            IF n = 0 THEN [pos |-> l.pos[m], dist |-> Place(0, 0), snapped |-> {}]
            ELSE IF n = m \/ n \notin l.useful THEN after[n - 1]
            ELSE Near(after[n - 1], l, m, n, reach)
    IN  after
FindBestSnapping(l, m, reach) == Visiting(l, m, reach)[NMonitors].pos

\* try_snap_output
TrySnapOutput(l, m) ==
    IF m \notin l.useful THEN l
    ELSE [l EXCEPT !.pos[m] = FindBestSnapping(l, m, Settled)]

\* cc_display_config_snap_outputs, after each of the monitors
Snapping(l) ==
    LET after[n \in 0..NMonitors] == IF n = 0 THEN l ELSE TrySnapOutput(after[n - 1], n)
    IN  after
SnapOutputs(l) == IF Cardinality(l.useful) <= 1 THEN l ELSE Snapping(l)[NMonitors]

------------------------------------------------------------------------------
(* Handlers *)

Step == steps < MaxSteps /\ steps' = steps + 1

\* on_output_changed_cb, run by every signal of a monitor
Reach(l) == Cardinality(l.useful) <= 2

\* on_click_gesture_pressed_cb on monitor m
Pressed(m) ==
    /\ Step
    /\ drag = None /\ m \in layout.useful
    /\ drag' = IF Cardinality(layout.useful) > 1 THEN m ELSE None
    /\ UNCHANGED <<layout, unlimited>>

\* on_motion_controller_motion_cb while dragging: the monitor is put where the
\* pointer is and snapped from there.  Each change of position is signalled and
\* sets the limit for the next motion.
Motion(to) ==
    LET free  == [layout EXCEPT !.pos[drag] = to]
        snaps == [free EXCEPT !.pos[drag] = FindBestSnapping(free, drag, Dragged(unlimited))]
    IN  /\ Step
        /\ drag # None
        /\ layout' = snaps
        /\ unlimited' = IF free = layout /\ snaps = free THEN unlimited ELSE Reach(layout)
        /\ UNCHANGED drag

\* on_click_gesture_released_cb
Released ==
    /\ Step
    /\ drag # None /\ drag' = None
    /\ UNCHANGED <<layout, unlimited>>

\* The settings of monitor m give it another resolution, scale or rotation; then
\* on_monitor_settings_updated_cb.
Resized(m, size) ==
    /\ Step
    /\ drag = None /\ m \in layout.useful /\ size # layout.size[m]
    /\ layout' = SnapOutputs([layout EXCEPT !.size[m] = size])
    /\ unlimited' = Reach(layout)
    /\ UNCHANGED drag

\* cc_display_config_append_right for monitor m: right of a rightmost monitor,
\* with the same upper edge.  There is one: the panel does not let the only monitor
\* that is on be switched off.
AppendRight(l, m) ==
    LET others == l.useful \ {m}
        last   == {n \in others : \A k \in others : Low(l, k, "x") <= Low(l, n, "x")}
    IN  {[l EXCEPT !.pos[m] = Place(High(l, n, "x"), Low(l, n, "y"))] : n \in last}

\* Mutant of Switched: nothing is snapped afterwards.
SwitchedOnly(m) ==
    /\ Step
    /\ drag = None
    /\ IF m \in layout.useful
       THEN /\ Cardinality(layout.useful) > 1
            /\ layout' = [layout EXCEPT !.useful = @ \ {m}]
       ELSE layout' \in AppendRight([layout EXCEPT !.useful = @ \cup {m}], m)
    /\ unlimited' = Reach(layout')
    /\ UNCHANGED drag

\* The settings of monitor m switch it on or off; then on_monitor_settings_updated_cb.
Switched(m) ==
    /\ Step
    /\ drag = None
    /\ IF m \in layout.useful
       THEN /\ Cardinality(layout.useful) > 1
            /\ layout' = SnapOutputs([layout EXCEPT !.useful = @ \ {m}])
       ELSE \E l \in AppendRight([layout EXCEPT !.useful = @ \cup {m}], m) : layout' = SnapOutputs(l)
    /\ unlimited' = Reach(layout')
    /\ UNCHANGED drag

\* Mutant of SetConfig: the drag goes on.
SetConfigDragging(l) ==
    /\ Step
    /\ layout' = l
    /\ UNCHANGED <<drag, unlimited>>

\* cc_display_arrangement_set_config with what the compositor reports, which ends a
\* drag.  The limit stays as it was: nobody signals.
SetConfig(l) ==
    /\ Step
    /\ layout' = l /\ drag' = None
    /\ UNCHANGED unlimited

\* cc_display_arrangement_init and the first set_config
Init ==
    /\ layout \in Layouts
    /\ drag = None
    /\ unlimited = FALSE
    /\ steps = 0

Next ==
    \/ \E m \in Monitors : Pressed(m) \/ Switched(m)
    \/ \E m \in Monitors : \E size \in Sizes[m] : Resized(m, size)
    \/ \E to \in Spots : Motion(to)
    \/ Released
    \/ \E l \in Layouts : SetConfig(l)

Spec == Init /\ [][Next]_vars

------------------------------------------------------------------------------
(* Properties *)

Overlap(l, m, n) ==
    \A a \in Axes : Low(l, m, a) < High(l, n, a) /\ Low(l, n, a) < High(l, m, a)
\* They share a part of an edge, at least as long as length.
Attached(l, m, n, length) ==
    /\ ~Overlap(l, m, n)
    /\ \E a \in Axes :
        /\ Low(l, m, a) \in {Low(l, n, a) - l.size[m][a], High(l, n, a)}
        /\ Least(High(l, m, Other(a)), High(l, n, Other(a)))
            - Most(Low(l, m, Other(a)), Low(l, n, Other(a))) >= length

\* Nothing overlaps and every monitor has a neighbour it is attached to.
Good(l) ==
    /\ \A m, n \in l.useful : m # n => ~Overlap(l, m, n)
    /\ \A m \in l.useful : \E n \in l.useful \ {m} : Attached(l, m, n, MinOverlap)

\* The types of the variables, and: what is dragged is one of several monitors that
\* are on, which the assertion of the motion handler needs and a new configuration
\* in the middle of a drag could break.
TypeOK ==
    /\ layout \in [useful : SUBSET Monitors, size : [Monitors -> Points], pos : [Monitors -> Points]]
    /\ drag # None => drag \in layout.useful /\ Cardinality(layout.useful) > 1
    /\ unlimited \in BOOLEAN
    /\ steps \in 0..MaxSteps

\* "To prevent detachment": dragging without limit, neither of two monitors can be
\* torn off the other, pushed over it or left at its corner, wherever the pointer
\* goes (find_best_snapping).
PairStaysAttached ==
    [][/\ unlimited /\ drag # None /\ drag' = drag
       /\ Cardinality(layout.useful) = 2
       => Good(layout')]_vars

\* What a change of the settings leaves of two monitors is attached, wherever the
\* change and the drags before it have left them; to snap once more, as the next change
\* does, moves nothing; and if they were attached before, nothing is moved farther than
\* the small distance of snapping (cc_display_config_snap_outputs).
PairSettles ==
    Cardinality(layout.useful) = 2 =>
        LET settled == SnapOutputs(layout)
        IN  /\ Good(settled)
            /\ SnapOutputs(settled) = settled
            /\ Good(layout) => \A m \in layout.useful, a \in Axes :
                    AbsDiff(layout.pos[m][a], settled.pos[m][a]) <= MinorSnap

\* A third monitor that is switched on beside two attached ones finds a free place
\* at one of them, even where "right of the rightmost" is on top of the other
\* (cc_display_config_append_right, then cc_display_config_snap_outputs).
NewcomerFits ==
    [][\A m \in Monitors \ layout.useful :
        /\ Cardinality(layout.useful) = 2 /\ Good(layout)
        /\ layout' = [layout EXCEPT !.useful = @ \cup {m}, !.pos = layout'.pos]
        => Good(layout')]_vars
==============================================================================
