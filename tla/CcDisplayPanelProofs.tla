------------------------ MODULE CcDisplayPanelProofs ------------------------
(***************************************************************************)
(* Proofs about the display panel, for any monitors, layouts and orders of *)
(* signals, answers, lid movements and edits: what is edited started from  *)
(* the latest state, usable monitors follow the lid, "Apply Changes?"      *)
(* tells whether there are edits, and the rows show what is edited.        *)
(* Configurations keep their types because the operations of DisplayLayout *)
(* lead from layouts to layouts, which is also shown of its specification. *)
(***************************************************************************)
EXTENDS CcDisplayPanel, FiniteSetTheorems, WellFoundedInduction, TLAPS

(* Records with the fields of a layout, of a configuration that is not NULL, and of *)
(* a panel                                                                          *)
Laid(l) == l \in [monitors : {l.monitors}, groups : {l.groups}, primary : {l.primary}]

Real(c) == /\ c \in [serial : {c.serial}, layout : {c.layout}, look : {c.look}]
           /\ c.serial \in Nat \ {0} /\ Laid(c.layout)

Shaped(p) ==
    p \in [ lid : {p.lid}, current : {p.current}, usable : {p.usable}, shown : BOOLEAN,
            allowed : {p.allowed}, type : {p.type}, multiple : {p.multiple},
            rows : {p.rows}, listed : {p.listed}, pickable : {p.pickable},
            selected : {p.selected}, switch : {p.switch}, fault : {p.fault} ]

\* What a panel promises when the manager has the state s
Follows(p, s) ==
    p.current # NoConfig /\ s # NoConfig
        => /\ p.current.serial = s.serial
           /\ p.usable = s.layout.monitors \ (IF p.lid THEN {Builtin} ELSE {})

Tells(p, s) == p.current # NoConfig /\ s # NoConfig => (p.shown <=> ~Equal(p.current, s))

\* What no operation changes of a layout
LEMMA OperationFacts ==
    ASSUME NEW l, Laid(l), NEW m
    PROVE  /\ \A on \in BOOLEAN : /\ Laid(SetActive(l, m, on))
                                  /\ SetActive(l, m, on).monitors = l.monitors
           /\ \A on \in BOOLEAN : /\ Laid(SetCloning(l, on))
                                  /\ SetCloning(l, on).monitors = l.monitors
           /\ Laid(SetPrimary(l, m)) /\ SetPrimary(l, m).monitors = l.monitors
<1>1. \A g, q : LET k == [l EXCEPT !.groups = g, !.primary = q]
                IN  Laid(k) /\ k.monitors = l.monitors
  BY DEF Laid
<1>2. \A q : LET k == [l EXCEPT !.primary = q] IN Laid(k) /\ k.monitors = l.monitors
  BY DEF Laid
<1>3. Laid(Activate(l, m)) /\ Activate(l, m).monitors = l.monitors
  BY <1>1 DEF Activate
<1>4. Laid(Deactivate(l, m)) /\ Deactivate(l, m).monitors = l.monitors
  BY <1>1 DEF Deactivate
<1>5. /\ Laid(Mirror(l)) /\ Mirror(l).monitors = l.monitors
      /\ Laid(Join(l)) /\ Join(l).monitors = l.monitors
  BY <1>1 DEF Mirror, Join
<1>6. Laid(SetPrimary(l, m)) /\ SetPrimary(l, m).monitors = l.monitors
  BY <1>2 DEF SetPrimary
<1>7. QED  BY <1>3, <1>4, <1>5, <1>6 DEF SetActive, SetCloning

Sound(p) == Shaped(p) /\ (p.current = NoConfig \/ Real(p.current))

States(s) == s = NoConfig \/ Real(s)

------------------------------------------------------------------------------
(* The operators the handlers are made of *)

LEMMA RealIsNotNull == ASSUME NEW c, Real(c) PROVE c # NoConfig
  BY DEF Real, NoConfig

\* The rows and the monitors they may show
SameRows(p, q) == /\ q.usable = p.usable /\ q.pickable = p.pickable
                  /\ q.rows = p.rows /\ q.listed = p.listed

\* The same copy, lid and usable monitors: the same promises.
LEMMA SameFollows ==
    ASSUME NEW p, NEW q, NEW s, Follows(p, s),
           q.current = p.current, q.usable = p.usable, q.lid = p.lid
    PROVE  Follows(q, s)
  BY DEF Follows

\* An edit of the copy that keeps its serial: the same promises.
LEMMA EditFollows ==
    ASSUME NEW p, NEW q, NEW s, Follows(p, s), Real(p.current),
           q.current.serial = p.current.serial, q.usable = p.usable, q.lid = p.lid
    PROVE  Follows(q, s)
  BY RealIsNotNull DEF Follows

LEMMA UpdateFacts ==
    ASSUME NEW p, NEW e, Shaped(p)
    PROVE  LET q == UpdateApplyButton(p, e)
           IN  /\ Shaped(q) /\ Tells(q, e.state)
               /\ q.current = p.current /\ q.usable = p.usable /\ q.lid = p.lid
               /\ SameRows(p, q)
<1> DEFINE q == UpdateApplyButton(p, e)
           quiet == p.current = NoConfig \/ (e.state # NoConfig /\ Equal(p.current, e.state))
           ok == e.ok /\ p.current.serial = e.serial /\ p.current.layout.groups # {}
<1>1. q = IF quiet THEN [p EXCEPT !.shown = FALSE]
          ELSE [p EXCEPT !.shown = TRUE, !.allowed = ok]
  BY DEF UpdateApplyButton
<1> HIDE DEF q, ok
<1>2. CASE quiet
  <2>1. q = [p EXCEPT !.shown = FALSE]
    BY <1>1, <1>2
  <2>2. /\ Shaped(q) /\ q.shown = FALSE
        /\ q.current = p.current /\ q.usable = p.usable /\ q.lid = p.lid
        /\ SameRows(p, q)
    BY <2>1 DEF Shaped, SameRows
  <2>3. QED  BY <1>2, <2>2 DEF Tells, q
<1>3. CASE ~quiet
  <2>1. q = [p EXCEPT !.shown = TRUE, !.allowed = ok]
    BY <1>1, <1>3
  <2>2. /\ Shaped(q) /\ q.shown = TRUE
        /\ q.current = p.current /\ q.usable = p.usable /\ q.lid = p.lid
        /\ SameRows(p, q)
    BY <2>1 DEF Shaped, SameRows
  <2>3. QED  BY <1>3, <2>2 DEF Tells, q
<1>4. QED  BY <1>2, <1>3

LEMMA ResetFacts ==
    ASSUME NEW p, NEW e, Sound(p), States(e.state)
    PROVE  LET q == ResetCurrentConfig(p, e)
           IN  /\ Sound(q) /\ Follows(q, e.state) /\ Tells(q, e.state)
               /\ e.state = NoConfig => q = p
               /\ e.state # NoConfig => q.current = e.state
<1> DEFINE q == ResetCurrentConfig(p, e)
           r == [p EXCEPT !.current  = e.state,
                          !.usable   = e.state.layout.monitors \
                                            (IF p.lid THEN {Builtin} ELSE {}),
                          !.rows     = IF @ = "none" THEN "none" ELSE "dropped",
                          !.pickable = {},
                          !.selected = None]
<1>1. CASE e.state = NoConfig
  BY <1>1 DEF ResetCurrentConfig, Follows, Tells
<1>2. CASE e.state # NoConfig
  <2>1. q = UpdateApplyButton(r, e)
    BY <1>2 DEF ResetCurrentConfig
  <2>2. /\ Shaped(r) /\ r.current = e.state /\ r.lid = p.lid
        /\ r.usable = e.state.layout.monitors \ (IF p.lid THEN {Builtin} ELSE {})
    BY DEF Sound, Shaped
  <2> HIDE DEF r, q
  <2>3. /\ Shaped(q) /\ Tells(q, e.state)
        /\ q.current = r.current /\ q.usable = r.usable /\ q.lid = r.lid
    BY <2>1, <2>2, UpdateFacts
  <2>4. Sound(q) /\ Follows(q, e.state) /\ q.current = e.state
    BY <1>2, <2>2, <2>3 DEF Sound, Follows, States
  <2>5. QED  BY <1>2, <2>3, <2>4 DEF q
<1>3. QED  BY <1>1, <1>2

\* Another layout and look of the copy
Edited(p, l, k) == [p EXCEPT !.current.layout = l, !.current.look = k]

LEMMA EditedFacts ==
    ASSUME NEW p, Sound(p), p.current # NoConfig, NEW l, Laid(l), NEW k,
           NEW s, Follows(p, s)
    PROVE  LET q == Edited(p, l, k)
           IN  /\ Sound(q) /\ q.current # NoConfig /\ Follows(q, s)
               /\ q.current.serial = p.current.serial /\ q.current.layout = l
               /\ q.usable = p.usable /\ q.lid = p.lid /\ q.shown = p.shown
               /\ SameRows(p, q)
<1> DEFINE c == [p.current EXCEPT !.layout = l, !.look = k]
           q == Edited(p, l, k)
<1>1. Shaped(p) /\ Real(p.current)
  BY DEF Sound
<1>2. Real(c) /\ c.serial = p.current.serial /\ c.layout = l
  BY <1>1 DEF Real
<1>3. q = [p EXCEPT !.current = c]
  BY <1>1 DEF Edited, Shaped, Real
<1> HIDE DEF c, q
<1>4. /\ Shaped(q) /\ q.current = c
      /\ q.usable = p.usable /\ q.lid = p.lid /\ q.shown = p.shown
      /\ SameRows(p, q)
  BY <1>1, <1>3 DEF Shaped, SameRows
<1>5. Sound(q) /\ q.current # NoConfig
  BY <1>2, <1>4, RealIsNotNull DEF Sound
<1>6. Follows(q, s)
  BY <1>1, <1>2, <1>4, EditFollows
<1>7. QED  BY <1>2, <1>4, <1>5, <1>6 DEF q

LEMMA MakeJoinFacts ==
    ASSUME NEW p, NEW e, Sound(p), p.current # NoConfig, Follows(p, e.state)
    PROVE  LET q == MakeJoin(p, e)
           IN  Sound(q) /\ q.current # NoConfig /\ Follows(q, e.state)
<1> DEFINE joined == SetCloning(p.current.layout, FALSE)
           on     == Active(joined) \cap p.usable
           off    == (joined.monitors \cap p.usable) \ on
           gs     == ({g \cap p.usable : g \in joined.groups} \ {{}}) \cup {{m} : m \in off}
           first  == IF joined.primary \in on THEN joined.primary
                     ELSE IF on # {} THEN First(on)
                     ELSE IF off # {} THEN UiFirst(off) ELSE None
           made   == [joined EXCEPT !.groups = gs, !.primary = first]
<1>1. Real(p.current)
  BY DEF Sound
<1>2. Laid(joined)
  BY <1>1, OperationFacts DEF Real
<1>3. MakeJoin(p, e) = Edited(p, made, e.look)
  BY DEF MakeJoin, Edited
<1>4. Laid(made)
  <2> HIDE DEF joined, gs, first
  <2>1. QED  BY <1>2 DEF Laid
<1> HIDE DEF made
<1>5. QED  BY <1>3, <1>4, EditedFacts

LEMMA MakeCloneFacts ==
    ASSUME NEW p, NEW e, Sound(p), p.current # NoConfig, Follows(p, e.state)
    PROVE  LET q == MakeClone(p, e)
           IN  /\ Sound(q) /\ q.current # NoConfig /\ Follows(q, e.state)
               /\ q.current.layout = SetCloning(p.current.layout, TRUE)
<1> DEFINE l == SetCloning(p.current.layout, TRUE)
           k == IF p.current.layout.monitors \in Mirrorable THEN e.look
                ELSE p.current.look
<1>1. Shaped(p) /\ Real(p.current)
  BY DEF Sound
<1>2. MakeClone(p, e) = Edited(p, l, k)
  BY <1>1 DEF MakeClone, Edited, Shaped, Real
<1> DEFINE q == Edited(p, l, k)
<1>0. Laid(l)
  BY <1>1, OperationFacts DEF Real
<1> HIDE DEF l, k
<1>3. Sound(q) /\ q.current # NoConfig /\ Follows(q, e.state) /\ q.current.layout = l
  BY <1>0, EditedFacts
<1> HIDE DEF q
<1>4. MakeClone(p, e) = q
  BY <1>2 DEF q
<1>5. QED  BY <1>3, <1>4 DEF l

LEMMA EnsureFacts ==
    ASSUME NEW p, NEW e, NEW type, Sound(p), p.current # NoConfig,
           States(e.state), Follows(p, e.state)
    PROVE  LET q == EnsureOfType(p, type, e)
           IN  /\ Sound(q) /\ q.current # NoConfig /\ Follows(q, e.state)
               /\ type = TypeOf(p) => q = p
               /\ type # TypeOf(p) /\ type = "clone" /\ e.state # NoConfig
                    => q.current.layout = SetCloning(e.state.layout, TRUE)
<1> DEFINE r == ResetCurrentConfig(p, e)
<1>1. /\ Sound(r) /\ Follows(r, e.state)
      /\ e.state = NoConfig => r = p
      /\ e.state # NoConfig => r.current = e.state
  BY ResetFacts
<1>2. r.current # NoConfig
  BY <1>1
<1>3. CASE type = TypeOf(p)
  BY <1>3 DEF EnsureOfType
<1>4. CASE type # TypeOf(p) /\ type = "join"
  <2>1. EnsureOfType(p, type, e) = MakeJoin(r, e)
    BY <1>4 DEF EnsureOfType
  <2> HIDE DEF r
  <2>2. QED  BY <1>1, <1>2, <1>4, <2>1, MakeJoinFacts
<1>5. CASE type # TypeOf(p) /\ type # "join"
  <2>1. EnsureOfType(p, type, e) = MakeClone(r, e)
    BY <1>5 DEF EnsureOfType
  <2> HIDE DEF r
  <2>2. QED  BY <1>1, <1>2, <1>5, <2>1, MakeCloneFacts
<1>6. QED  BY <1>3, <1>4, <1>5

LEMMA MultimonitorFacts ==
    ASSUME NEW p, NEW e, NEW multi, Sound(p), p.current # NoConfig, Follows(p, e.state)
    PROVE  LET q == SetMultimonitor(p, multi, e)
           IN  Sound(q) /\ q.current # NoConfig /\ Follows(q, e.state)
<1> DEFINE q == SetMultimonitor(p, multi, e)
           r == [p EXCEPT !.switch = TRUE]
           f == [p EXCEPT !.switch = TRUE, !.fault = "null monitor"]
           l == SetActive(p.current.layout, p.selected, TRUE)
           a == Edited(r, l, e.look)
<1>1. Shaped(p) /\ Real(p.current)
  BY DEF Sound
<1>2. /\ Shaped(r) /\ r.current = p.current /\ r.usable = p.usable /\ r.lid = p.lid
      /\ Shaped(f) /\ f.current = p.current /\ f.usable = p.usable /\ f.lid = p.lid
  BY <1>1 DEF Shaped
<1>3. /\ Sound(r) /\ r.current # NoConfig /\ Follows(r, e.state)
      /\ Sound(f) /\ f.current # NoConfig /\ Follows(f, e.state)
  BY <1>1, <1>2, SameFollows DEF Sound
<1>4. q = p \/ q = f \/ q = [p EXCEPT !.switch = TRUE, !.current.layout = l,
                                      !.current.look = e.look]
  BY <1>1 DEF SetMultimonitor, Shaped, Real
<1>5. [p EXCEPT !.switch = TRUE, !.current.layout = l, !.current.look = e.look] = a
  BY <1>1 DEF Edited, Shaped, Real
<1>0. Laid(l)
  BY <1>1, OperationFacts DEF Real
<1> HIDE DEF l, r, f, q
<1>6. Sound(a) /\ a.current # NoConfig /\ Follows(a, e.state)
  BY <1>0, <1>3, EditedFacts
<1> HIDE DEF a
<1>7. Sound(q) /\ q.current # NoConfig /\ Follows(q, e.state)
  BY <1>3, <1>4, <1>5, <1>6
<1>8. QED  BY <1>7 DEF q

LEMMA SelectFacts ==
    ASSUME NEW p, NEW m, NEW s, Sound(p), Follows(p, s)
    PROVE  LET q == SetCurrentOutput(p, m)
           IN  /\ Sound(q) /\ Follows(q, s) /\ q.current = p.current /\ q.shown = p.shown
               /\ q.usable = p.usable /\ q.lid = p.lid /\ SameRows(p, q)
<1> DEFINE q == SetCurrentOutput(p, m)
<1>1. /\ Shaped(q) /\ q.current = p.current /\ q.shown = p.shown
      /\ q.usable = p.usable /\ q.lid = p.lid /\ SameRows(p, q)
  BY DEF SetCurrentOutput, Sound, Shaped, SameRows
<1> HIDE DEF q
<1>2. Sound(q) /\ Follows(q, s)
  BY <1>1, SameFollows DEF Sound
<1>3. QED  BY <1>1, <1>2 DEF q

\* The rows and the toggle say nothing about the promises.
Relisted(p, r, l, m, t, k) ==
    [p EXCEPT !.rows = r, !.listed = l, !.multiple = m, !.type = t, !.pickable = k]

LEMMA ListedFacts ==
    ASSUME NEW p, NEW s, Sound(p), Follows(p, s), NEW r, NEW l, NEW m, NEW t, NEW k
    PROVE  LET q == Relisted(p, r, l, m, t, k)
           IN  Sound(q) /\ Follows(q, s) /\ q.current = p.current
<1> DEFINE q == Relisted(p, r, l, m, t, k)
<1>1. /\ Shaped(q) /\ q.current = p.current /\ q.usable = p.usable /\ q.lid = p.lid
  BY DEF Relisted, Sound, Shaped
<1> HIDE DEF q
<1>2. Sound(q) /\ Follows(q, s)
  BY <1>1, SameFollows DEF Sound
<1>3. QED  BY <1>1, <1>2 DEF q

LEMMA RebuildFacts ==
    ASSUME NEW p, NEW e, Sound(p), States(e.state), Follows(p, e.state)
    PROVE  LET q == RebuildUi(p, e)
           IN  Sound(q) /\ Follows(q, e.state) /\ Tells(q, e.state)
<1>1. CASE p.current = NoConfig
  <2> DEFINE q == [p EXCEPT !.pickable = {}, !.rows = "none"]
  <2>1. RebuildUi(p, e) = q
    BY <1>1 DEF RebuildUi
  <2>2. Shaped(q) /\ q.current = NoConfig
    BY <1>1 DEF Sound, Shaped
  <2> HIDE DEF q
  <2>3. QED  BY <2>1, <2>2 DEF Sound, Follows, Tells
<1>2. CASE p.current # NoConfig
  <2> DEFINE multi   == \E m, n \in p.usable : m # n
             type    == IF multi /\ TypeOf(p) = "clone" THEN "clone" ELSE "join"
             listing == [p EXCEPT !.rows     = IF p.usable = {} THEN "none" ELSE "current",
                                  !.listed   = multi /\ type = "join",
                                  !.multiple = multi,
                                  !.type     = type,
                                  !.pickable = Useful(p)]
             showing == IF Useful(p) = {} THEN listing
                        ELSE SetCurrentOutput(listing, UiFirst(Useful(p)))
             single  == SetMultimonitor(showing, multi /\ type # "clone", e)
             ensured == EnsureOfType(single, type, e)
  <2>1. RebuildUi(p, e) = UpdateApplyButton(ensured, e)
    BY <1>2 DEF RebuildUi
  <2>2. Sound(listing) /\ Follows(listing, e.state) /\ listing.current = p.current
    <3> DEFINE shown == IF p.usable = {} THEN "none" ELSE "current"
               joined == multi /\ type = "join"
               useful == Useful(p)
    <3> HIDE DEF multi, type, shown, joined, useful
    <3>1. listing = Relisted(p, shown, joined, multi, type, useful)
      BY DEF Relisted, shown, joined, useful
    <3> HIDE DEF listing
    <3>2. QED  BY <3>1, ListedFacts
  <2> HIDE DEF multi, type, listing
  <2>3. Sound(showing) /\ Follows(showing, e.state) /\ showing.current = p.current
    BY <2>2, SelectFacts
  <2> HIDE DEF showing
  <2>4. Sound(single) /\ single.current # NoConfig /\ Follows(single, e.state)
    BY <1>2, <2>3, MultimonitorFacts
  <2> HIDE DEF single
  <2>5. Sound(ensured) /\ ensured.current # NoConfig /\ Follows(ensured, e.state)
    BY <2>4, EnsureFacts
  <2> HIDE DEF ensured
  <2> DEFINE q == UpdateApplyButton(ensured, e)
  <2>6. /\ Shaped(q) /\ Tells(q, e.state)
        /\ q.current = ensured.current /\ q.usable = ensured.usable /\ q.lid = ensured.lid
    BY <2>5, UpdateFacts DEF Sound
  <2> HIDE DEF q
  <2>7. Sound(q) /\ Follows(q, e.state)
    BY <2>5, <2>6, SameFollows DEF Sound
  <2>8. QED  BY <2>1, <2>6, <2>7 DEF q
<1>3. QED  BY <1>1, <1>2

\* Whatever the panel showed before, a refresh brings it in line with the manager.
LEMMA ScreenChangedFacts ==
    ASSUME NEW p, NEW e, Sound(p), States(e.state)
    PROVE  LET q == OnScreenChanged(p, e)
           IN  Sound(q) /\ Follows(q, e.state) /\ Tells(q, e.state)
<1> DEFINE h == [p EXCEPT !.shown = FALSE]
           r == ResetCurrentConfig(h, e)
<1>1. Sound(h)
  BY DEF Sound, Shaped
<1>2. OnScreenChanged(p, e) = RebuildUi(r, e)
  BY DEF OnScreenChanged
<1> HIDE DEF h
<1>3. Sound(r) /\ Follows(r, e.state)
  BY <1>1, ResetFacts
<1> HIDE DEF r
<1>4. QED  BY <1>2, <1>3, RebuildFacts

------------------------------------------------------------------------------
(* What the rows show: a second invariant of the same operators *)

Several(S) == \E m, n \in S : m # n

\* Several of the monitors are usable, and the compositor's state has them all off.
Dark(s, usable) == Several(usable) /\ Active(s.layout) \cap usable = {}

\* The monitors the panel works with are those of its copy.
Within(p) == /\ p.usable \subseteq p.current.layout.monitors
             /\ p.pickable \subseteq p.current.layout.monitors

\* ... and one of several usable ones is on, if one was in the manager's state s
Fits(p, s) == /\ Within(p)
              /\ s # NoConfig /\ Several(p.usable) /\ ~Dark(s, p.usable) => Useful(p) # {}

\* The rows are those of the copy, except in the two cases of RowsShowCurrent.
Shows(p, s) ==
    p.listed /\ p.rows = "dropped" =>
        /\ p.current # NoConfig /\ s # NoConfig
        /\ s.layout.monitors \notin Mirrorable \/ Dark(s, p.usable)

LEMMA ActiveOfOperations ==
    ASSUME NEW l, Laid(l), NEW m
    PROVE  /\ Active(l) \subseteq Active(Activate(l, m))
           /\ Active(Deactivate(l, m)) = Active(l) \ {m}
           /\ Active(Mirror(l)) = l.monitors
           /\ Active(SetPrimary(l, m)) = Active(l)
<1>1. \A g, q : [l EXCEPT !.groups = g, !.primary = q].groups = g
  BY DEF Laid
<1>2. \A q : [l EXCEPT !.primary = q].groups = l.groups
  BY DEF Laid
<1>3. Active(l) \subseteq Active(Activate(l, m))
  <2>1. \/ Activate(l, m).groups = l.groups
        \/ Activate(l, m).groups = l.groups \cup {{m}}
    BY <1>1 DEF Activate
  <2>2. QED  BY <2>1 DEF Active
<1>4. Active(Deactivate(l, m)) = Active(l) \ {m}
  <2>1. Deactivate(l, m).groups = {g \ {m} : g \in l.groups} \ {{}}
    BY <1>1 DEF Deactivate
  <2>2. UNION ({g \ {m} : g \in l.groups} \ {{}}) = UNION {g \ {m} : g \in l.groups}
    OBVIOUS
  <2>3. UNION {g \ {m} : g \in l.groups} = (UNION l.groups) \ {m}
    OBVIOUS
  <2>4. QED  BY <2>1, <2>2, <2>3 DEF Active
<1>5. Active(Mirror(l)) = l.monitors
  <2>1. Mirror(l).groups = {l.monitors} \ {{}}
    BY <1>1 DEF Mirror
  <2>2. QED  BY <2>1 DEF Active
<1>6. Active(SetPrimary(l, m)) = Active(l)
  BY <1>2 DEF SetPrimary, Active
<1>7. QED  BY <1>3, <1>4, <1>5, <1>6

\* The same rows, and the same monitors, of which no fewer are on
LEMMA GrowingFits ==
    ASSUME NEW p, NEW q, NEW s, Fits(p, s), SameRows(p, q),
           q.current.layout.monitors = p.current.layout.monitors,
           Useful(p) \subseteq Active(q.current.layout)
    PROVE  Fits(q, s)
<1>1. Within(q) /\ q.usable = p.usable /\ Useful(p) \subseteq Useful(q)
  BY DEF Fits, Within, SameRows, Useful
<1>2. QED  BY <1>1 DEF Fits

\* The same rows of the same copy
LEMMA SameFits ==
    ASSUME NEW p, NEW q, NEW s, Fits(p, s), SameRows(p, q), q.current = p.current
    PROVE  Fits(q, s) /\ (Shows(p, s) => Shows(q, s))
  BY DEF Fits, Within, SameRows, Useful, Shows

LEMMA UpdateFits ==
    ASSUME NEW p, NEW e, NEW s, Shaped(p), Fits(p, s)
    PROVE  LET q == UpdateApplyButton(p, e)
           IN  Fits(q, s) /\ SameRows(p, q) /\ (Shows(p, s) => Shows(q, s))
<1> DEFINE q == UpdateApplyButton(p, e)
<1>1. SameRows(p, q) /\ q.current = p.current
  BY UpdateFacts
<1> HIDE DEF q
<1>2. Fits(q, s) /\ (Shows(p, s) => Shows(q, s))
  BY <1>1, SameFits
<1>3. QED  BY <1>1, <1>2 DEF q

\* A fresh copy has on what the manager's state has on.
LEMMA ResetFits ==
    ASSUME NEW p, NEW e, Sound(p), States(e.state), Within(p)
    PROVE  LET q == ResetCurrentConfig(p, e)
           IN  /\ Fits(q, e.state) /\ q.listed = p.listed
               /\ Follows(p, e.state) /\ p.current # NoConfig => q.usable = p.usable
<1> DEFINE q == ResetCurrentConfig(p, e)
           usable == e.state.layout.monitors \ (IF p.lid THEN {Builtin} ELSE {})
           r == [p EXCEPT !.current  = e.state,
                          !.usable   = usable,
                          !.rows     = IF @ = "none" THEN "none" ELSE "dropped",
                          !.pickable = {},
                          !.selected = None]
<1>1. CASE e.state = NoConfig
  BY <1>1 DEF ResetCurrentConfig, Fits
<1>2. CASE e.state # NoConfig
  <2>1. q = UpdateApplyButton(r, e)
    BY <1>2 DEF ResetCurrentConfig
  <2>2. /\ Shaped(r) /\ r.current = e.state /\ r.usable = usable /\ r.pickable = {}
        /\ r.listed = p.listed
    BY DEF Sound, Shaped
  <2>3. usable \subseteq e.state.layout.monitors
    OBVIOUS
  <2>4. Follows(p, e.state) /\ p.current # NoConfig => usable = p.usable
    BY <1>2 DEF Follows
  <2> HIDE DEF r, q, usable
  <2>5. Fits(r, e.state)
    BY <2>2, <2>3 DEF Fits, Within, Useful, Dark
  <2>6. Fits(q, e.state) /\ SameRows(r, q)
    BY <2>1, <2>2, <2>5, UpdateFits
  <2>7. QED  BY <2>2, <2>4, <2>6 DEF q, SameRows
<1>3. QED  BY <1>1, <1>2

LEMMA MakeJoinFits ==
    ASSUME NEW p, NEW e, NEW s, Sound(p), p.current # NoConfig, Fits(p, s)
    PROVE  LET q == MakeJoin(p, e) IN Fits(q, s) /\ SameRows(p, q)
<1> DEFINE joined == SetCloning(p.current.layout, FALSE)
           on     == Active(joined) \cap p.usable
           off    == (joined.monitors \cap p.usable) \ on
           gs     == ({g \cap p.usable : g \in joined.groups} \ {{}}) \cup {{m} : m \in off}
           first  == IF joined.primary \in on THEN joined.primary
                     ELSE IF on # {} THEN First(on)
                     ELSE IF off # {} THEN UiFirst(off) ELSE None
           made   == [joined EXCEPT !.groups = gs, !.primary = first]
           q == Edited(p, made, e.look)
<1>1. Real(p.current)
  BY DEF Sound
<1>2. Laid(joined) /\ joined.monitors = p.current.layout.monitors
  BY <1>1, OperationFacts DEF Real
<1>3. MakeJoin(p, e) = q
  BY DEF MakeJoin, Edited
<1>4. Laid(made) /\ made.groups = gs /\ made.monitors = joined.monitors
  <2> HIDE DEF joined, gs, first
  <2>1. QED  BY <1>2 DEF Laid
<1>5. joined.monitors \cap p.usable \subseteq UNION gs
  <2>1. \A m \in on : \E g \in joined.groups : m \in g \cap p.usable
    BY DEF Active
  <2>2. \A g \in joined.groups : g \cap p.usable \subseteq UNION gs
    OBVIOUS
  <2>3. UNION {{m} : m \in off} \subseteq UNION gs
    OBVIOUS
  <2> HIDE DEF joined, on, gs
  <2>4. QED  BY <2>1, <2>2, <2>3
<1> HIDE DEF made, joined, gs
<1>6. Follows(p, NoConfig)
  BY DEF Follows
<1>7. SameRows(p, q) /\ q.current.layout = made
  BY <1>4, <1>6, EditedFacts
<1> HIDE DEF q
<1>8. Useful(p) \subseteq Active(q.current.layout)
  BY <1>2, <1>4, <1>5, <1>7 DEF Useful, Active, Fits, Within
<1>9. Fits(q, s)
  BY <1>2, <1>4, <1>7, <1>8, GrowingFits
<1>10. QED  BY <1>3, <1>7, <1>9

LEMMA MakeCloneFits ==
    ASSUME NEW p, NEW e, NEW s, Sound(p), p.current # NoConfig, Fits(p, s)
    PROVE  LET q == MakeClone(p, e) IN Fits(q, s) /\ SameRows(p, q)
<1> DEFINE l == SetCloning(p.current.layout, TRUE)
           k == IF p.current.layout.monitors \in Mirrorable THEN e.look
                ELSE p.current.look
           q == Edited(p, l, k)
<1>1. Shaped(p) /\ Real(p.current)
  BY DEF Sound
<1>2. MakeClone(p, e) = q
  BY <1>1 DEF MakeClone, Edited, Shaped, Real
<1>3. Laid(l) /\ l.monitors = p.current.layout.monitors
  BY <1>1, OperationFacts DEF Real
<1>4. Active(l) = Active(p.current.layout) \/ Active(l) = p.current.layout.monitors
  BY <1>1, ActiveOfOperations DEF SetCloning, Real
<1>5. Follows(p, NoConfig)
  BY DEF Follows
<1> HIDE DEF l, k
<1>6. SameRows(p, q) /\ q.current.layout = l
  BY <1>3, <1>5, EditedFacts
<1> HIDE DEF q
<1>7. Useful(p) \subseteq Active(q.current.layout)
  BY <1>4, <1>6 DEF Useful, Fits, Within
<1>8. Fits(q, s)
  BY <1>3, <1>6, <1>7, GrowingFits
<1>9. QED  BY <1>2, <1>6, <1>8

LEMMA EnsureFits ==
    ASSUME NEW p, NEW e, NEW type, Sound(p), p.current # NoConfig, Fits(p, e.state),
           States(e.state), Follows(p, e.state)
    PROVE  LET q == EnsureOfType(p, type, e)
           IN  /\ Fits(q, e.state) /\ q.listed = p.listed /\ q.usable = p.usable
               /\ type = TypeOf(p) => q = p
               /\ e.state = NoConfig => SameRows(p, q)
<1> DEFINE r == ResetCurrentConfig(p, e)
<1>1. /\ Sound(r) /\ Fits(r, e.state) /\ r.listed = p.listed /\ r.usable = p.usable
      /\ e.state = NoConfig => r = p
      /\ e.state # NoConfig => r.current = e.state
  BY ResetFacts, ResetFits DEF Fits
<1>2. r.current # NoConfig
  BY <1>1
<1>3. CASE type = TypeOf(p)
  BY <1>3 DEF EnsureOfType, SameRows
<1>4. CASE type # TypeOf(p)
  <2>1. EnsureOfType(p, type, e) \in {MakeJoin(r, e), MakeClone(r, e)}
    BY <1>4 DEF EnsureOfType
  <2> HIDE DEF r
  <2>2. /\ Fits(MakeJoin(r, e), e.state) /\ SameRows(r, MakeJoin(r, e))
        /\ Fits(MakeClone(r, e), e.state) /\ SameRows(r, MakeClone(r, e))
    BY <1>1, <1>2, MakeJoinFits, MakeCloneFits
  <2> DEFINE q == EnsureOfType(p, type, e)
  <2>3. Fits(q, e.state) /\ SameRows(r, q)
    BY <2>1, <2>2
  <2> HIDE DEF q
  <2>4. /\ Fits(q, e.state) /\ q.listed = p.listed /\ q.usable = p.usable
        /\ e.state = NoConfig => SameRows(p, q)
    BY <1>1, <2>3 DEF SameRows
  <2>5. QED  BY <1>4, <2>4 DEF q
<1>5. QED  BY <1>3, <1>4

LEMMA MultimonitorFits ==
    ASSUME NEW p, NEW e, NEW multi, NEW s, Sound(p), p.current # NoConfig, Fits(p, s)
    PROVE  LET q == SetMultimonitor(p, multi, e)
           IN  Fits(q, s) /\ SameRows(p, q) /\ q.lid = p.lid /\ (multi => q = p)
<1> DEFINE q == SetMultimonitor(p, multi, e)
           r == [p EXCEPT !.switch = TRUE]
           f == [p EXCEPT !.switch = TRUE, !.fault = "null monitor"]
           l == SetActive(p.current.layout, p.selected, TRUE)
           a == Edited(r, l, e.look)
<1>1. Shaped(p) /\ Real(p.current)
  BY DEF Sound
<1>2. /\ Shaped(r) /\ r.current = p.current /\ r.lid = p.lid /\ SameRows(p, r)
      /\ Shaped(f) /\ f.current = p.current /\ f.lid = p.lid /\ SameRows(p, f)
  BY <1>1 DEF Shaped, SameRows
<1>3. Laid(l) /\ l.monitors = p.current.layout.monitors
  BY <1>1, OperationFacts DEF Real
<1>4. Active(p.current.layout) \subseteq Active(l)
  BY <1>1, ActiveOfOperations DEF SetActive, Real
<1>5. q = p \/ q = f \/ q = a
  <2>1. q = p \/ q = f \/ q = [p EXCEPT !.switch = TRUE, !.current.layout = l,
                                        !.current.look = e.look]
    BY DEF SetMultimonitor
  <2>2. [p EXCEPT !.switch = TRUE, !.current.layout = l, !.current.look = e.look] = a
    BY <1>1 DEF Edited, Shaped, Real
  <2>3. QED  BY <2>1, <2>2
<1>6. multi => q = p
  BY DEF SetMultimonitor
<1> HIDE DEF l, r, f, q
<1>7. Follows(r, NoConfig) /\ Sound(r) /\ r.current # NoConfig
  BY <1>1, <1>2 DEF Follows, Sound
<1>8. SameRows(r, a) /\ a.current.layout = l /\ a.lid = r.lid
  BY <1>3, <1>7, EditedFacts
<1> HIDE DEF a
<1>9. SameRows(p, a) /\ a.lid = p.lid /\ SameRows(p, p)
  BY <1>2, <1>8 DEF SameRows
<1>10. Fits(a, s) /\ Fits(f, s)
  <2>1. Useful(p) \subseteq Active(a.current.layout)
    BY <1>4, <1>8 DEF Useful
  <2>2. Useful(p) \subseteq Active(f.current.layout)
    BY <1>2 DEF Useful
  <2>3. QED  BY <1>2, <1>3, <1>8, <1>9, <2>1, <2>2, GrowingFits
<1>11. Fits(q, s) /\ SameRows(p, q) /\ q.lid = p.lid
  BY <1>2, <1>5, <1>9, <1>10
<1>12. QED  BY <1>6, <1>11 DEF q

\* rebuild_ui lists the monitors only when its last call, which may drop the copy they
\* are of, finds the configuration to be joined already, or none of them on.
LEMMA RebuildFits ==
    ASSUME NEW p, NEW e, Sound(p), States(e.state), Follows(p, e.state),
           Fits(p, e.state)
    PROVE  LET q == RebuildUi(p, e) IN Fits(q, e.state) /\ Shows(q, e.state)
<1>1. CASE p.current = NoConfig
  <2> DEFINE q == [p EXCEPT !.pickable = {}, !.rows = "none"]
  <2>1. RebuildUi(p, e) = q
    BY <1>1 DEF RebuildUi
  <2>2. /\ q.current = p.current /\ q.usable = p.usable
        /\ q.pickable = {} /\ q.rows = "none"
    BY DEF Sound, Shaped
  <2> HIDE DEF q
  <2>3. QED  BY <2>1, <2>2 DEF Fits, Within, Shows, Useful
<1>2. CASE p.current # NoConfig
  <2> DEFINE multi   == \E m, n \in p.usable : m # n
             type    == IF multi /\ TypeOf(p) = "clone" THEN "clone" ELSE "join"
             rows    == IF p.usable = {} THEN "none" ELSE "current"
             listed  == multi /\ type = "join"
             useful  == Useful(p)
             listing == Relisted(p, rows, listed, multi, type, useful)
             showing == IF Useful(p) = {} THEN listing
                        ELSE SetCurrentOutput(listing, UiFirst(Useful(p)))
             single  == SetMultimonitor(showing, multi /\ type # "clone", e)
             ensured == EnsureOfType(single, type, e)
             q       == UpdateApplyButton(ensured, e)
  <2>1. RebuildUi(p, e) = q
    BY <1>2 DEF RebuildUi, Relisted
  <2>2. multi <=> Several(p.usable)
    BY DEF Several
  <2>3. /\ type = "join" => ~multi \/ TypeOf(p) # "clone"
        /\ listed <=> multi /\ type = "join"
        /\ rows # "dropped"
        /\ useful = Useful(p)
    OBVIOUS
  <2> HIDE DEF multi, type, rows, listed, useful
  <2>4. /\ listing.current = p.current /\ listing.usable = p.usable
        /\ listing.pickable = useful /\ listing.rows = rows /\ listing.listed = listed
    BY DEF Relisted, Sound, Shaped
  <2>5. Sound(listing) /\ Follows(listing, e.state)
    BY ListedFacts
  <2>6. Fits(listing, e.state)
    BY <2>3, <2>4 DEF Fits, Within, Useful
  <2> HIDE DEF listing
  <2>7. /\ Sound(showing) /\ Follows(showing, e.state) /\ showing.current = p.current
        /\ SameRows(listing, showing)
    BY <2>4, <2>5, SelectFacts DEF SameRows
  <2> HIDE DEF showing
  <2>8. Fits(showing, e.state)
    BY <2>4, <2>6, <2>7 DEF Fits, Within, SameRows, Useful
  <2>9. /\ Fits(single, e.state) /\ SameRows(showing, single)
        /\ multi /\ type # "clone" => single = showing
    BY <1>2, <2>7, <2>8, MultimonitorFits
  <2>10. Sound(single) /\ single.current # NoConfig /\ Follows(single, e.state)
    BY <1>2, <2>7, MultimonitorFacts
  <2> HIDE DEF single
  <2>11. /\ Fits(ensured, e.state) /\ ensured.listed = single.listed
         /\ ensured.usable = single.usable
         /\ type = TypeOf(single) => ensured = single
         /\ e.state = NoConfig => SameRows(single, ensured)
    BY <2>9, <2>10, EnsureFits
  <2>12. Sound(ensured) /\ ensured.current # NoConfig
    BY <2>10, EnsureFacts
  <2>13. Shows(ensured, e.state)
    <3>1. CASE ~listed
      BY <2>4, <2>7, <2>9, <2>11, <3>1 DEF Shows, SameRows
    <3>2. CASE e.state = NoConfig
      BY <2>3, <2>4, <2>7, <2>9, <2>11, <3>2 DEF Shows, SameRows
    <3>3. CASE e.state # NoConfig /\ Dark(e.state, p.usable)
      BY <2>4, <2>7, <2>9, <2>11, <2>12, <3>3 DEF Shows, SameRows
    <3>4. CASE listed /\ e.state # NoConfig /\ ~Dark(e.state, p.usable)
      <4>1. single = showing /\ type = "join" /\ TypeOf(p) # "clone" /\ Useful(p) # {}
        BY <2>2, <2>3, <2>9, <3>4 DEF Fits
      <4>2. TypeOf(single) = TypeOf(p)
        BY <2>4, <2>7, <4>1 DEF TypeOf, Useful, SameRows
      <4>3. TypeOf(p) = "join"
        BY <4>1 DEF TypeOf
      <4>4. ensured = showing
        BY <2>11, <4>1, <4>2, <4>3
      <4>5. QED  BY <2>3, <2>4, <2>7, <4>4 DEF Shows, SameRows
    <3>5. QED  BY <3>1, <3>2, <3>3, <3>4
  <2> HIDE DEF ensured
  <2>14. Fits(q, e.state) /\ Shows(q, e.state)
    BY <2>11, <2>12, <2>13, UpdateFits DEF Sound
  <2> HIDE DEF q
  <2>15. QED  BY <2>1, <2>14
<1>3. QED  BY <1>1, <1>2

LEMMA ScreenChangedFits ==
    ASSUME NEW p, NEW e, Sound(p), States(e.state), Within(p)
    PROVE  LET q == OnScreenChanged(p, e) IN Fits(q, e.state) /\ Shows(q, e.state)
<1> DEFINE h == [p EXCEPT !.shown = FALSE]
           r == ResetCurrentConfig(h, e)
<1>1. /\ Shaped(h) /\ h.current = p.current /\ h.usable = p.usable
      /\ h.pickable = p.pickable
  BY DEF Sound, Shaped
<1>2. OnScreenChanged(p, e) = RebuildUi(r, e)
  BY DEF OnScreenChanged
<1> HIDE DEF h
<1>3. Sound(h) /\ Within(h)
  BY <1>1 DEF Sound, Within
<1>4. Sound(r) /\ Fits(r, e.state) /\ Follows(r, e.state)
  BY <1>3, ResetFacts, ResetFits
<1> HIDE DEF r
<1>5. QED  BY <1>2, <1>4, RebuildFits

------------------------------------------------------------------------------
(* The invariant *)

\* Every state on its way to the manager is one.
MessagesAreStates ==
    \E S : inbox \in Seq(S) /\ \A m \in S : m.type = "state" => Real(m.state)

IInv ==
    /\ Real(compositor) /\ States(cached) /\ MessagesAreStates
    /\ Sound(panel) /\ Follows(panel, cached)

\* The monitors of the cached state, when they are mirrored, have a mode in common.
StateIsMirrorable ==
    cached # NoConfig => SetCloning(cached.layout, TRUE).monitors \in Mirrorable

LEMMA SeenFacts == ASSUME NEW s, NEW n, NEW e \in Seen(s, n) PROVE e.state = s
  BY DEF Seen

LEMMA AppendKeeps ==
    ASSUME MessagesAreStates, NEW m, m.type = "state" => Real(m.state),
           inbox' = Append(inbox, m)
    PROVE  MessagesAreStates'
<1>1. PICK S : inbox \in Seq(S) /\ \A n \in S : n.type = "state" => Real(n.state)
  BY DEF MessagesAreStates
<1> DEFINE T == S \cup {m}
<1>2. inbox \in Seq(T) /\ m \in T
  BY <1>1
<1>3. \A n \in T : n.type = "state" => Real(n.state)
  BY <1>1
<1> HIDE DEF T
<1>4. inbox' \in Seq(T)
  BY <1>2
<1>5. QED  BY <1>3, <1>4 DEF MessagesAreStates

LEMMA TailKeeps ==
    ASSUME MessagesAreStates, inbox # <<>>, inbox' = Tail(inbox)
    PROVE  MessagesAreStates' /\ (Head(inbox).type = "state" => Real(Head(inbox).state))
<1>1. PICK S : inbox \in Seq(S) /\ \A n \in S : n.type = "state" => Real(n.state)
  BY DEF MessagesAreStates
<1>2. Tail(inbox) \in Seq(S) /\ Head(inbox) \in S
  BY <1>1
<1>3. QED  BY <1>1, <1>2 DEF MessagesAreStates

LEMMA StartupsAreLaid == \A l \in Startups : Laid(l)
  BY StartupsAssumption DEF Layouts, Laid

LEMMA InitIInv == Init => IInv
<1> SUFFICES ASSUME Init PROVE IInv
  OBVIOUS
<1>1. Real(compositor)
  <2>1. PICK l \in Startups : compositor = [serial |-> 1, layout |-> l, look |-> 0]
    BY DEF Init
  <2>2. QED  BY <2>1, StartupsAreLaid DEF Real
<1>2. MessagesAreStates
  <2>1. inbox = <<>> /\ <<>> \in Seq({})
    BY DEF Init
  <2>2. QED  BY <2>1 DEF MessagesAreStates
<1>3. Sound(panel) /\ panel.current = NoConfig
  BY DEF Init, Sound, Shaped
<1>4. QED  BY <1>1, <1>2, <1>3 DEF Init, IInv, States, Follows

LEMMA InitTells == Init => Tells(panel, cached)
  BY DEF Init, Tells

\* Handlers that end in on_screen_changed
LEMMA ScreenChangedKeeps ==
    ASSUME NEW p, Sound(p), States(cached'), NEW n, NEW e \in Seen(cached', n),
           panel' = OnScreenChanged(p, e)
    PROVE  Sound(panel)' /\ Follows(panel, cached)' /\ Tells(panel, cached)'
<1>1. e.state = cached'
  BY SeenFacts
<1>2. QED  BY <1>1, ScreenChangedFacts

\* What the compositor, the lid and the manager do leaves the panel alone.
LEMMA OutsideKeeps ==
    ASSUME IInv, panel' = panel, cached' = cached, Real(compositor)', MessagesAreStates'
    PROVE  IInv' /\ (Tells(panel, cached) => Tells(panel, cached)')
  BY DEF IInv, Follows, Tells

\* Edits of the copy that go through update_apply_button
LEMMA EditKeeps ==
    ASSUME IInv, panel.current # NoConfig, NEW e \in Seen(cached, compositor.serial),
           cached' = cached, NEW q, Sound(q), Follows(q, cached),
           panel' = UpdateApplyButton(q, e)
    PROVE  Sound(panel)' /\ Follows(panel, cached)' /\ Tells(panel, cached)'
<1>1. e.state = cached
  BY SeenFacts
<1> DEFINE r == UpdateApplyButton(q, e)
<1>2. /\ Shaped(r) /\ Tells(r, cached)
      /\ r.current = q.current /\ r.usable = q.usable /\ r.lid = q.lid
  BY <1>1, UpdateFacts DEF Sound
<1> HIDE DEF r
<1>3. Sound(r) /\ Follows(r, cached)
  BY <1>2, SameFollows DEF Sound
<1>4. panel' = r
  BY DEF r
<1>5. QED  BY <1>2, <1>3, <1>4

LEMMA ToggleKeeps ==
    ASSUME IInv, ToggleType
    PROVE  /\ Sound(panel)' /\ Follows(panel, cached)'
           /\ Tells(panel, cached) /\ StateIsMirrorable => Tells(panel, cached)'
<1>1. PICK e \in Seen(cached, compositor.serial) :
        panel.current # NoConfig /\ panel' = Toggled(e) /\ cached' = cached
  BY DEF ToggleType, Uses
<1>2. e.state = cached /\ States(cached)
  BY SeenFacts DEF IInv
<1> DEFINE type == Other(panel.type)
           p == [panel EXCEPT !.type = type]
           q == EnsureOfType(p, type, e)
           stop == type = "clone" /\ q.current.layout.monitors \notin Mirrorable
<1>3. panel' = IF type = TypeOf(p) \/ stop THEN q ELSE RebuildUi(q, e)
  BY <1>1 DEF Toggled
<1>4. /\ Shaped(p) /\ p.current = panel.current /\ p.usable = panel.usable
      /\ p.lid = panel.lid /\ p.shown = panel.shown
  BY DEF IInv, Sound, Shaped
<1> HIDE DEF p, type
<1>5. Sound(p) /\ Follows(p, cached) /\ p.current # NoConfig
  BY <1>1, <1>4, SameFollows DEF IInv, Sound
<1>6. /\ Sound(q) /\ q.current # NoConfig /\ Follows(q, cached)
      /\ type = TypeOf(p) => q = p
      /\ type # TypeOf(p) /\ type = "clone" /\ cached # NoConfig
            => q.current.layout = SetCloning(cached.layout, TRUE)
  BY <1>2, <1>5, EnsureFacts
<1> HIDE DEF q
<1> DEFINE r == RebuildUi(q, e)
<1>7. Sound(r) /\ Follows(r, cached) /\ Tells(r, cached)
  BY <1>2, <1>6, RebuildFacts
<1> HIDE DEF r
<1>8. panel' = q \/ panel' = r
  BY <1>3 DEF r
<1>9. Sound(panel)' /\ Follows(panel, cached)'
  BY <1>1, <1>6, <1>7, <1>8
<1>10. ASSUME Tells(panel, cached), StateIsMirrorable
       PROVE  Tells(panel, cached)'
  <2>1. Tells(p, cached)
    BY <1>4, <1>10 DEF Tells
  <2>2. CASE cached = NoConfig
    BY <1>1, <2>2 DEF Tells
  <2>3. CASE type = TypeOf(p)
    BY <1>1, <1>3, <1>6, <2>1, <2>3
  <2>4. CASE cached # NoConfig /\ type # TypeOf(p)
    <3>1. ~stop
      BY <1>6, <1>10, <2>4 DEF StateIsMirrorable
    <3>2. panel' = r
      BY <1>3, <2>4, <3>1 DEF r
    <3>3. QED  BY <1>1, <1>7, <3>2
  <2>5. QED  BY <2>2, <2>3, <2>4
<1>11. QED  BY <1>9, <1>10

LEMMA SwitchKeeps ==
    ASSUME IInv, SwitchOutput
    PROVE  Sound(panel)' /\ Follows(panel, cached)' /\ Tells(panel, cached)'
<1>1. PICK e \in Seen(cached, compositor.serial) :
        panel.current # NoConfig /\ panel' = Switched(e) /\ cached' = cached
  BY DEF SwitchOutput, Uses
<1> DEFINE l == SetActive(panel.current.layout, panel.selected, ~panel.switch)
           h == [panel EXCEPT !.switch = ~@]
           q == Edited(h, l, e.look)
<1>2. Shaped(panel) /\ Real(panel.current)
  BY <1>1 DEF IInv, Sound
<1>3. /\ Shaped(h) /\ h.current = panel.current /\ h.usable = panel.usable
      /\ h.lid = panel.lid
  BY <1>2 DEF Shaped
<1>0. Laid(l)
  BY <1>2, OperationFacts DEF Real
<1> HIDE DEF l
<1>4. panel' = UpdateApplyButton(q, e)
  BY <1>1, <1>2 DEF Switched, Edited, Shaped, Real, l
<1> HIDE DEF h
<1>5. Sound(h) /\ Follows(h, cached)
  BY <1>2, <1>3, SameFollows DEF IInv, Sound
<1>6. Sound(q) /\ Follows(q, cached)
  BY <1>0, <1>1, <1>3, <1>5, EditedFacts
<1> HIDE DEF q
<1>7. QED  BY <1>1, <1>4, <1>6, EditKeeps

LEMMA SettingsKeep ==
    ASSUME IInv, EditSettings
    PROVE  Sound(panel)' /\ Follows(panel, cached)' /\ Tells(panel, cached)'
<1>1. PICK e \in Seen(cached, compositor.serial) :
        /\ panel.current # NoConfig /\ cached' = cached
        /\ panel' = UpdateApplyButton([panel EXCEPT !.current.look = e.look], e)
  BY DEF EditSettings, Uses
<1> DEFINE q == Edited(panel, panel.current.layout, e.look)
<1>2. Shaped(panel) /\ Real(panel.current)
  BY <1>1 DEF IInv, Sound
<1>3. [panel EXCEPT !.current.look = e.look] = q
  BY <1>2 DEF Edited, Shaped, Real
<1>4. Sound(q) /\ Follows(q, cached)
  BY <1>1, <1>2, EditedFacts DEF IInv, Real
<1> HIDE DEF q
<1>5. QED  BY <1>1, <1>3, <1>4, EditKeeps

LEMMA PrimaryKeeps ==
    ASSUME IInv, NEW m \in Monitors, PickPrimary(m)
    PROVE  Sound(panel)' /\ Follows(panel, cached)' /\ Tells(panel, cached)'
<1>1. PICK e \in Seen(cached, compositor.serial) :
        /\ panel.current # NoConfig /\ cached' = cached
        /\ panel' = UpdateApplyButton([panel EXCEPT !.current.layout = SetPrimary(@, m)], e)
  BY DEF PickPrimary, Uses
<1> DEFINE l == SetPrimary(panel.current.layout, m)
           q == Edited(panel, l, panel.current.look)
<1>2. Shaped(panel) /\ Real(panel.current)
  BY <1>1 DEF IInv, Sound
<1>0. Laid(l)
  BY <1>2, OperationFacts DEF Real
<1> HIDE DEF l
<1>3. [panel EXCEPT !.current.layout = SetPrimary(@, m)] = q
  BY <1>2 DEF Edited, Shaped, Real, l
<1>4. Sound(q) /\ Follows(q, cached)
  BY <1>0, <1>1, EditedFacts DEF IInv
<1> HIDE DEF q
<1>5. QED  BY <1>1, <1>3, <1>4, EditKeeps

LEMMA NextKeepsIInv ==
    ASSUME IInv, [Next]_vars
    PROVE  IInv' /\ (Tells(panel, cached) /\ StateIsMirrorable => Tells(panel, cached)')
<1> USE DEF IInv
<1>1. CASE CompositorChanges
  <2>1. Real(compositor)'
    <3>1. PICK l \in Startups :
            compositor' = [serial |-> compositor.serial + 1, layout |-> l, look |-> 0]
      BY <1>1 DEF CompositorChanges
    <3>2. QED  BY <3>1, StartupsAreLaid DEF Real
  <2>2. MessagesAreStates'
    BY <1>1, AppendKeeps DEF CompositorChanges
  <2>3. QED  BY <1>1, <2>1, <2>2, OutsideKeeps DEF CompositorChanges
<1>2. CASE Answer
  <2>1. MessagesAreStates'
    BY <1>2, AppendKeeps DEF Answer
  <2>2. QED  BY <1>2, <2>1, OutsideKeeps DEF Answer
<1>3. CASE LidMoves
  BY <1>3, OutsideKeeps DEF LidMoves, MessagesAreStates
<1>4. CASE MonitorsChanged
  <2>1. MessagesAreStates'
    BY <1>4, TailKeeps DEF MonitorsChanged
  <2>2. QED  BY <1>4, <2>1, OutsideKeeps DEF MonitorsChanged
<1>5. CASE GotCurrentState
  <2>1. MessagesAreStates' /\ (Head(inbox).type = "state" => Real(Head(inbox).state))
    BY <1>5, TailKeeps DEF GotCurrentState
  <2>2. States(cached')
    BY <1>5, <2>1 DEF GotCurrentState, States
  <2>3. Sound(panel)' /\ Follows(panel, cached)' /\ Tells(panel, cached)'
    BY <1>5, <2>2, ScreenChangedKeeps DEF GotCurrentState
  <2>4. QED  BY <1>5, <2>1, <2>2, <2>3 DEF GotCurrentState, States
<1>6. CASE LidChanged
  <2>1. PICK e \in Seen(cached, compositor.serial) :
            panel' = OnScreenChanged([panel EXCEPT !.lid = lid], e)
    BY <1>6 DEF LidChanged
  <2>2. cached' = cached /\ compositor' = compositor /\ inbox' = inbox
    BY <1>6 DEF LidChanged
  <2> DEFINE p == [panel EXCEPT !.lid = lid]
  <2>3. Sound(p)
    BY DEF Sound, Shaped
  <2> HIDE DEF p
  <2>4. panel' = OnScreenChanged(p, e)
    BY <2>1 DEF p
  <2>5. Sound(panel)' /\ Follows(panel, cached)' /\ Tells(panel, cached)'
    BY <2>2, <2>3, <2>4, ScreenChangedKeeps
  <2>6. QED  BY <2>2, <2>5 DEF MessagesAreStates
<1>7. CASE ToggleType
  <2>1. cached' = cached /\ compositor' = compositor /\ inbox' = inbox
    BY <1>7 DEF ToggleType, Uses
  <2>2. QED  BY <1>7, <2>1, ToggleKeeps DEF MessagesAreStates
<1>8. CASE SwitchOutput
  <2>1. cached' = cached /\ compositor' = compositor /\ inbox' = inbox
    BY <1>8 DEF SwitchOutput, Uses
  <2>2. QED  BY <1>8, <2>1, SwitchKeeps DEF MessagesAreStates
<1>9. CASE EditSettings
  <2>1. cached' = cached /\ compositor' = compositor /\ inbox' = inbox
    BY <1>9 DEF EditSettings, Uses
  <2>2. QED  BY <1>9, <2>1, SettingsKeep DEF MessagesAreStates
<1>10. CASE Apply
  <2>1. PICK e \in Seen(cached, compositor'.serial) : panel' = OnScreenChanged(panel, e)
    BY <1>10 DEF Apply
  <2>2. cached' = cached
    BY <1>10 DEF Apply
  <2>3. Sound(panel)' /\ Follows(panel, cached)' /\ Tells(panel, cached)'
    BY <2>1, <2>2, ScreenChangedKeeps
  <2>4. Real(compositor)' /\ MessagesAreStates'
    <3>1. CASE UNCHANGED <<compositor, inbox>>
      BY <3>1 DEF MessagesAreStates
    <3>2. CASE /\ panel.current.serial = compositor.serial
               /\ compositor' = [panel.current EXCEPT !.serial = @ + 1]
               /\ inbox' = Append(inbox, [type |-> "changed"])
      <4>1. panel.current # NoConfig
        BY <3>2 DEF Real, NoConfig
      <4>2. Real(compositor)'
        BY <3>2, <4>1 DEF Sound, Real
      <4>3. QED  BY <3>2, <4>2, AppendKeeps
    <3>3. QED  BY <1>10, <3>1, <3>2 DEF Apply, ApplyMonitorsConfig
  <2>5. QED  BY <2>2, <2>3, <2>4
<1>11. CASE Cancel
  <2>1. /\ cached' = cached /\ compositor' = compositor /\ inbox' = inbox
        /\ \E e \in Seen(cached, compositor.serial) : panel' = OnScreenChanged(panel, e)
    BY <1>11 DEF Cancel, Uses
  <2>2. Sound(panel)' /\ Follows(panel, cached)' /\ Tells(panel, cached)'
    BY <2>1, ScreenChangedKeeps
  <2>3. QED  BY <2>1, <2>2 DEF MessagesAreStates
<1>12. ASSUME NEW m \in Monitors, SelectOutput(m)
       PROVE  IInv' /\ (Tells(panel, cached) => Tells(panel, cached)')
  <2>1. /\ cached' = cached /\ compositor' = compositor /\ inbox' = inbox
        /\ panel' = SetCurrentOutput(panel, m)
    BY <1>12 DEF SelectOutput, Uses
  <2>2. QED  BY <2>1, SelectFacts DEF MessagesAreStates, Tells
<1>13. ASSUME NEW m \in Monitors, PickPrimary(m)
       PROVE  IInv' /\ Tells(panel, cached)'
  <2>1. cached' = cached /\ compositor' = compositor /\ inbox' = inbox
    BY <1>13 DEF PickPrimary, Uses
  <2>2. QED  BY <1>13, <2>1, PrimaryKeeps DEF MessagesAreStates
<1>14. CASE UNCHANGED vars
  BY <1>14, OutsideKeeps DEF vars, MessagesAreStates
<1>15. QED
  BY <1>1, <1>2, <1>3, <1>4, <1>5, <1>6, <1>7, <1>8, <1>9, <1>10, <1>11, <1>12, <1>13,
     <1>14 DEF Next

LEMMA IInvHolds == Spec => []IInv
  BY InitIInv, NextKeepsIInv, PTL DEF Spec

\* While the manager has a state, what is being edited started from it: an answer of the
\* compositor replaces the edits, in whatever order signals and answers come.
THEOREM EditsAreOfTheLatestState == Spec => []EditsLatestState
<1>1. IInv => EditsLatestState
  BY DEF IInv, Follows, EditsLatestState, Synchronised
<1>2. QED  BY <1>1, IInvHolds, PTL

\* The monitors that can be used follow the state and the lid, whichever changed last.
THEOREM UsableMonitorsFollowTheLid == Spec => []UsableFollowsLid
<1>1. IInv => UsableFollowsLid
  BY DEF IInv, Follows, UsableFollowsLid, Synchronised
<1>2. QED  BY <1>1, IInvHolds, PTL

\* As long as the monitors that are plugged in have a mode in common, "Apply Changes?"
\* shows exactly when there are edits.  (Without one, mirroring stops halfway.)
THEOREM TitlebarTells == Spec /\ []StateIsMirrorable => []TitlebarTellsEdits
<1>1. IInv /\ StateIsMirrorable /\ Tells(panel, cached) /\ [Next]_vars
        => Tells(panel, cached)'
  BY NextKeepsIInv
<1>2. Tells(panel, cached) => TitlebarTellsEdits
  BY DEF Tells, TitlebarTellsEdits, Synchronised
<1>3. QED  BY <1>1, <1>2, IInvHolds, InitTells, PTL DEF Spec

------------------------------------------------------------------------------
(* The rows show what is edited *)

Lists == Fits(panel, cached) /\ Shows(panel, cached)

\* Edits of the copy that go through update_apply_button
LEMMA EditLists ==
    ASSUME Lists, NEW q, Shaped(q), Fits(q, cached), SameRows(panel, q), NEW e,
           panel' = UpdateApplyButton(q, e), q.current # NoConfig, cached' = cached
    PROVE  Lists'
<1> DEFINE r == UpdateApplyButton(q, e)
<1>1. Shows(q, cached)
  BY DEF Lists, Shows, SameRows
<1>2. Fits(r, cached) /\ Shows(r, cached)
  BY <1>1, UpdateFits
<1> HIDE DEF r
<1>3. panel' = r
  BY DEF r
<1>4. QED  BY <1>2, <1>3 DEF Lists

LEMMA ScreenChangedLists ==
    ASSUME NEW p, Sound(p), Within(p), States(cached'),
           NEW n, NEW e \in Seen(cached', n), panel' = OnScreenChanged(p, e)
    PROVE  Lists'
<1>1. e.state = cached'
  BY SeenFacts
<1> DEFINE r == OnScreenChanged(p, e)
<1>2. Fits(r, cached') /\ Shows(r, cached')
  BY <1>1, ScreenChangedFits
<1> HIDE DEF r
<1>3. panel' = r
  BY DEF r
<1>4. QED  BY <1>2, <1>3 DEF Lists

\* A conversion that is not followed by rebuild_ui leaves the rows alone, unless it has
\* stopped for want of a common mode.
LEMMA ToggleLists ==
    ASSUME IInv, Lists, ToggleType
    PROVE  Lists'
<1>1. PICK e \in Seen(cached, compositor.serial) :
        panel.current # NoConfig /\ panel' = Toggled(e)
  BY DEF ToggleType, Uses
<1>2. e.state = cached /\ States(cached) /\ cached' = cached
  BY SeenFacts DEF IInv, ToggleType, Uses
<1> DEFINE type == Other(panel.type)
           p == [panel EXCEPT !.type = type]
           q == EnsureOfType(p, type, e)
           stop == type = "clone" /\ q.current.layout.monitors \notin Mirrorable
           r == RebuildUi(q, e)
<1>3. panel' = IF type = TypeOf(p) \/ stop THEN q ELSE r
  BY <1>1 DEF Toggled
<1>4. /\ Shaped(p) /\ p.current = panel.current /\ p.lid = panel.lid
      /\ SameRows(panel, p)
  BY DEF IInv, Sound, Shaped, SameRows
<1> HIDE DEF p, type
<1>5. /\ Sound(p) /\ Follows(p, cached) /\ p.current # NoConfig
      /\ Fits(p, cached) /\ Shows(p, cached)
  <2>1. Sound(p) /\ Follows(p, cached) /\ p.current # NoConfig
    BY <1>1, <1>4, SameFollows DEF IInv, Sound, SameRows
  <2>2. Fits(p, cached) /\ Shows(p, cached)
    BY <1>4, SameFits DEF Lists
  <2>3. QED  BY <2>1, <2>2
<1>6. /\ Sound(q) /\ q.current # NoConfig /\ Follows(q, cached)
      /\ type = TypeOf(p) => q = p
      /\ type # TypeOf(p) /\ type = "clone" /\ cached # NoConfig
            => q.current.layout = SetCloning(cached.layout, TRUE)
  BY <1>2, <1>5, EnsureFacts
<1>7. Fits(q, cached) /\ (cached = NoConfig => SameRows(p, q))
  BY <1>2, <1>5, EnsureFits
<1> HIDE DEF q
<1>8. Fits(r, cached) /\ Shows(r, cached)
  BY <1>2, <1>6, <1>7, RebuildFits
<1> HIDE DEF r
<1>9. panel' = r \/ (panel' = q /\ Shows(q, cached))
  <2>1. CASE type = TypeOf(p)
    BY <1>3, <1>5, <1>6, <2>1
  <2>2. CASE cached = NoConfig
    BY <1>3, <1>5, <1>7, <2>2 DEF Shows, SameRows
  <2>3. CASE cached # NoConfig /\ type # TypeOf(p)
    <3>1. CASE ~stop
      BY <1>3, <2>3, <3>1
    <3>2. CASE stop
      <4>1. Laid(cached.layout)
        BY <1>2, <2>3 DEF States, Real
      <4>2. SetCloning(cached.layout, TRUE).monitors = cached.layout.monitors
        BY <4>1, OperationFacts
      <4>3. cached.layout.monitors \notin Mirrorable
        BY <1>6, <2>3, <3>2, <4>2
      <4>4. Shows(q, cached)
        BY <1>6, <2>3, <4>3 DEF Shows
      <4>5. QED  BY <1>3, <3>2, <4>4
    <3>3. QED  BY <3>1, <3>2
  <2>4. QED  BY <2>1, <2>2, <2>3
<1>10. QED  BY <1>2, <1>7, <1>8, <1>9 DEF Lists

\* The switch is insensitive for the last monitor that is on.
LEMMA SwitchLists ==
    ASSUME IInv, Lists, SwitchOutput
    PROVE  Lists'
<1>1. PICK e \in Seen(cached, compositor.serial) :
        panel.current # NoConfig /\ panel' = Switched(e) /\ cached' = cached
  BY DEF SwitchOutput, Uses
<1> DEFINE l == SetActive(panel.current.layout, panel.selected, ~panel.switch)
           h == [panel EXCEPT !.switch = ~@]
           q == Edited(h, l, e.look)
<1>2. Shaped(panel) /\ Real(panel.current)
  BY <1>1 DEF IInv, Sound
<1>3. /\ Shaped(h) /\ h.current = panel.current /\ h.usable = panel.usable
      /\ h.lid = panel.lid /\ SameRows(panel, h)
  BY <1>2 DEF Shaped, SameRows
<1>4. Laid(l) /\ l.monitors = panel.current.layout.monitors
  BY <1>2, OperationFacts DEF Real
<1>5. Active(panel.current.layout) \ {panel.selected} \subseteq Active(l)
  BY <1>2, ActiveOfOperations DEF SetActive, Real
<1> HIDE DEF l
<1>6. panel' = UpdateApplyButton(q, e)
  BY <1>1, <1>2 DEF Switched, Edited, Shaped, Real, l
<1> HIDE DEF h
<1>7. Sound(h) /\ Follows(h, cached)
  BY <1>2, <1>3, SameFollows DEF IInv, Sound
<1>8. Shaped(q) /\ SameRows(h, q) /\ q.current.layout = l /\ q.current # NoConfig
  BY <1>1, <1>3, <1>4, <1>7, EditedFacts DEF Sound
<1> HIDE DEF q
<1>9. Useful(q) # {} \/ Useful(panel) = {}
  <2>1. Useful(panel) # {panel.selected}
    BY DEF SwitchOutput
  <2>2. Useful(panel) \ {panel.selected} \subseteq Useful(q)
    BY <1>3, <1>5, <1>8 DEF Useful, SameRows
  <2>3. QED  BY <2>1, <2>2
<1>10. SameRows(panel, q)
  BY <1>3, <1>8 DEF SameRows
<1>11. Fits(q, cached)
  BY <1>4, <1>8, <1>9, <1>10 DEF Lists, Fits, Within, SameRows
<1>12. QED  BY <1>1, <1>6, <1>8, <1>10, <1>11, EditLists

LEMMA SettingsLists ==
    ASSUME IInv, Lists, EditSettings
    PROVE  Lists'
<1>1. PICK e \in Seen(cached, compositor.serial) :
        /\ panel.current # NoConfig /\ cached' = cached
        /\ panel' = UpdateApplyButton([panel EXCEPT !.current.look = e.look], e)
  BY DEF EditSettings, Uses
<1> DEFINE l == panel.current.layout
           q == Edited(panel, l, e.look)
<1>2. Shaped(panel) /\ Real(panel.current)
  BY <1>1 DEF IInv, Sound
<1>3. [panel EXCEPT !.current.look = e.look] = q
  BY <1>2 DEF Edited, Shaped, Real
<1>4. Shaped(q) /\ SameRows(panel, q) /\ q.current.layout = l /\ q.current # NoConfig
  BY <1>1, <1>2, EditedFacts DEF IInv, Real, Sound
<1> HIDE DEF q
<1>5. Fits(q, cached)
  BY <1>4 DEF Lists, Fits, Within, SameRows, Useful
<1>6. QED  BY <1>1, <1>3, <1>4, <1>5, EditLists

LEMMA PrimaryLists ==
    ASSUME IInv, Lists, NEW m \in Monitors, PickPrimary(m)
    PROVE  Lists'
<1>1. PICK e \in Seen(cached, compositor.serial) :
        /\ panel.current # NoConfig /\ cached' = cached
        /\ panel' = UpdateApplyButton([panel EXCEPT !.current.layout = SetPrimary(@, m)], e)
  BY DEF PickPrimary, Uses
<1> DEFINE l == SetPrimary(panel.current.layout, m)
           q == Edited(panel, l, panel.current.look)
<1>2. Shaped(panel) /\ Real(panel.current)
  BY <1>1 DEF IInv, Sound
<1>3. /\ Laid(l) /\ l.monitors = panel.current.layout.monitors
      /\ Active(l) = Active(panel.current.layout)
  BY <1>2, OperationFacts, ActiveOfOperations DEF Real
<1> HIDE DEF l
<1>4. [panel EXCEPT !.current.layout = SetPrimary(@, m)] = q
  BY <1>2 DEF Edited, Shaped, Real, l
<1>5. Shaped(q) /\ SameRows(panel, q) /\ q.current.layout = l /\ q.current # NoConfig
  BY <1>1, <1>3, EditedFacts DEF IInv, Sound
<1> HIDE DEF q
<1>6. Fits(q, cached)
  BY <1>3, <1>5 DEF Lists, Fits, Within, SameRows, Useful
<1>7. QED  BY <1>1, <1>4, <1>5, <1>6, EditLists

LEMMA NextKeepsLists ==
    ASSUME IInv, IInv', Lists, [Next]_vars
    PROVE  Lists'
<1>1. CASE panel' = panel /\ cached' = cached
  BY <1>1 DEF Lists
<1>2. ASSUME NEW n, NEW e \in Seen(cached', n), panel' = OnScreenChanged(panel, e)
      PROVE  Lists'
  BY <1>2, ScreenChangedLists DEF IInv, Lists, Fits
<1>3. CASE GotCurrentState
  BY <1>2, <1>3 DEF GotCurrentState
<1>4. CASE LidChanged
  <2>1. PICK e \in Seen(cached, compositor.serial) :
            panel' = OnScreenChanged([panel EXCEPT !.lid = lid], e)
    BY <1>4 DEF LidChanged
  <2>2. cached' = cached
    BY <1>4 DEF LidChanged
  <2> DEFINE p == [panel EXCEPT !.lid = lid]
  <2>3. Shaped(p) /\ p.current = panel.current /\ SameRows(panel, p)
    BY DEF IInv, Sound, Shaped, SameRows
  <2> HIDE DEF p
  <2>4. Sound(p) /\ Within(p)
    BY <2>3 DEF IInv, Sound, Lists, Fits, Within, SameRows
  <2>5. panel' = OnScreenChanged(p, e)
    BY <2>1 DEF p
  <2>6. QED  BY <2>2, <2>4, <2>5, ScreenChangedLists DEF IInv
<1>5. CASE Apply
  <2>1. cached' = cached /\ \E e \in Seen(cached, compositor'.serial) :
            panel' = OnScreenChanged(panel, e)
    BY <1>5 DEF Apply
  <2>2. QED  BY <1>2, <2>1
<1>6. CASE Cancel
  <2>1. cached' = cached /\ \E e \in Seen(cached, compositor.serial) :
            panel' = OnScreenChanged(panel, e)
    BY <1>6 DEF Cancel, Uses
  <2>2. QED  BY <1>2, <2>1
<1>7. ASSUME NEW m \in Monitors, SelectOutput(m)
      PROVE  Lists'
  <2>1. panel' = SetCurrentOutput(panel, m) /\ cached' = cached
    BY <1>7 DEF SelectOutput, Uses
  <2> DEFINE q == SetCurrentOutput(panel, m)
  <2>2. SameRows(panel, q) /\ q.current = panel.current
    BY SelectFacts DEF IInv
  <2> HIDE DEF q
  <2>3. Fits(q, cached) /\ Shows(q, cached)
    BY <2>2, SameFits DEF Lists
  <2>4. QED  BY <2>1, <2>3 DEF Lists, q
<1>8. QED
  BY <1>1, <1>3, <1>4, <1>5, <1>6, <1>7, ToggleLists, SwitchLists, SettingsLists,
     PrimaryLists
  DEF Next, vars, CompositorChanges, Answer, LidMoves, MonitorsChanged

LEMMA InitLists == Init => Lists
  BY DEF Init, Lists, Fits, Within, Shows

\* The rows and the list of the primary show monitors of the configuration that is being
\* edited, except in the two cases in which the code drops it after the rows were made.
THEOREM RowsShowTheEditedMonitors == Spec => []RowsShowCurrent
<1>1. IInv /\ IInv' /\ Lists /\ [Next]_vars => Lists'
  BY NextKeepsLists
<1>2. Lists => RowsShowCurrent
  BY DEF Lists, Fits, Within, Shows, Dark, Several, RowsShowCurrent, Synchronised
<1>3. QED  BY <1>1, <1>2, IInvHolds, InitLists, PTL DEF Spec

------------------------------------------------------------------------------
(* Layouts stay layouts, that is the groups of monitors that mirror each other are *)
(* disjoint and not empty, and a monitor that is on is the primary if any is.      *)

\* Monitors are numbers, so that a set of them has a first one.
LEMMA FirstMonitor ==
    ASSUME NEW S \in SUBSET Monitors, S # {}
    PROVE  First(S) \in S
<1>1. S \subseteq Nat
  BY MonitorsAssumption
<1>2. \E m \in S : \A n \in S : m <= n
  <2>1. \E m \in S : \A n \in S : ~ (<<n, m>> \in OpToRel(<, Nat))
    BY <1>1, NatLessThanWellFounded, WFMin
  <2>2. \A m, n \in Nat : ~ (<<n, m>> \in OpToRel(<, Nat)) => m <= n
    BY DEF OpToRel
  <2> QED BY <1>1, <2>1, <2>2
<1> QED BY <1>2 DEF First

\* What a layout with the parts of another gives.
LEMMA LayoutParts ==
    ASSUME NEW M, NEW G, NEW p,
           M \subseteq Monitors, G \subseteq SUBSET Monitors, p \in Monitors \cup {None},
           UNION G \subseteq M, {} \notin G,
           \A g, h \in G : g = h \/ g \cap h = {},
           G = {} => p = None, G # {} => p \in UNION G
    PROVE  [monitors |-> M, groups |-> G, primary |-> p] \in Layouts
  BY DEF Layouts, Active

LEMMA AbstractRecord ==
    ASSUME NEW l \in Layouts
    PROVE  l = [monitors |-> l.monitors, groups |-> l.groups, primary |-> l.primary]
  BY DEF Layouts

LEMMA LayoutFields ==
    ASSUME NEW l \in Layouts
    PROVE  /\ l.monitors \subseteq Monitors
           /\ l.groups \subseteq SUBSET Monitors
           /\ l.primary \in Monitors \cup {None}
           /\ UNION l.groups \subseteq l.monitors
           /\ {} \notin l.groups
           /\ \A g, h \in l.groups : g = h \/ g \cap h = {}
           /\ l.groups = {} => l.primary = None
           /\ l.groups # {} => l.primary \in UNION l.groups
  BY DEF Layouts, Active

LEMMA NoneIsNoMonitor == None \notin Monitors
  BY MonitorsAssumption DEF None

\* Turning a monitor on keeps a layout a layout.
LEMMA ActivateIsLayout ==
    ASSUME NEW l \in Layouts, NEW m \in l.monitors
    PROVE  Activate(l, m) \in Layouts
<1>1. CASE m \in Active(l)
  BY <1>1 DEF Activate
<1>2. CASE m \notin Active(l)
  <2> DEFINE G == l.groups \cup {{m}}
             p == IF l.primary = None THEN m ELSE l.primary
  <2>1. Activate(l, m) = [monitors |-> l.monitors, groups |-> G, primary |-> p]
    <3>1. Activate(l, m) = [l EXCEPT !.groups = G, !.primary = p]
      BY <1>2 DEF Activate
    <3> QED BY <3>1, AbstractRecord
  <2>2. /\ l.monitors \subseteq Monitors /\ l.groups \subseteq SUBSET Monitors
        /\ l.primary \in Monitors \cup {None}
        /\ UNION l.groups \subseteq l.monitors /\ {} \notin l.groups
        /\ l.groups = {} => l.primary = None
        /\ l.groups # {} => l.primary \in UNION l.groups
    BY LayoutFields
  <2>3. m \in Monitors /\ m # None
    BY <2>2, NoneIsNoMonitor
  <2>4. G \subseteq SUBSET Monitors /\ UNION G \subseteq l.monitors /\ {} \notin G
    BY <2>2, <2>3
  <2>5. \A g, h \in G : g = h \/ g \cap h = {}
    <3>1. \A g, h \in l.groups : g = h \/ g \cap h = {}
      BY LayoutFields
    <3>2. \A g \in l.groups : m \notin g
      BY <1>2 DEF Active
    <3>3. \A g \in l.groups : g \cap {m} = {} /\ {m} \cap g = {}
      BY <3>2
    <3> QED BY <3>1, <3>3
  <2>6. p \in Monitors \cup {None} /\ G # {} /\ p \in UNION G
    <3>1. CASE l.primary = None
      BY <3>1, <2>3
    <3>2. CASE l.primary # None
      BY <3>2, <2>2
    <3> QED BY <3>1, <3>2
  <2> HIDE DEF G, p
  <2> QED BY <2>1, <2>2, <2>4, <2>5, <2>6, LayoutParts
<1> QED BY <1>1, <1>2

\* Turning a monitor off keeps a layout a layout: the primary passes to a monitor
\* that is still on.
LEMMA DeactivateIsLayout ==
    ASSUME NEW l \in Layouts, NEW m \in l.monitors
    PROVE  Deactivate(l, m) \in Layouts
<1> DEFINE on == Active(l) \ {m}
           G  == {g \ {m} : g \in l.groups} \ {{}}
           p  == IF l.primary # m THEN l.primary
                 ELSE IF on = {} THEN None ELSE First(on)
<1>1. Deactivate(l, m) = [monitors |-> l.monitors, groups |-> G, primary |-> p]
  <2>1. Deactivate(l, m) = [l EXCEPT !.groups = G, !.primary = p]
    BY DEF Deactivate
  <2> QED BY <2>1, AbstractRecord
<1>2. /\ l.monitors \subseteq Monitors /\ l.groups \subseteq SUBSET Monitors
      /\ l.primary \in Monitors \cup {None}
      /\ UNION l.groups \subseteq l.monitors /\ {} \notin l.groups
      /\ l.groups = {} => l.primary = None
      /\ l.groups # {} => l.primary \in UNION l.groups
  BY LayoutFields
<1>3. \A g, h \in G : g = h \/ g \cap h = {}
  <2>1. \A g, h \in l.groups : g = h \/ g \cap h = {}
    BY LayoutFields
  <2> SUFFICES ASSUME NEW g \in l.groups, NEW h \in l.groups
               PROVE  g \ {m} = h \ {m} \/ (g \ {m}) \cap (h \ {m}) = {}
    BY ZenonT(40)
  <2>2. CASE g = h
    BY <2>2
  <2>3. CASE g \cap h = {}
    BY <2>3
  <2> QED BY <2>1, <2>2, <2>3
<1>4. UNION G = on
  <2>1. ASSUME NEW n \in UNION G PROVE n \in on
    BY DEF Active
  <2>2. ASSUME NEW n \in on PROVE n \in UNION G
    <3>1. PICK g \in l.groups : n \in g /\ n # m
      BY DEF Active
    <3>2. g \ {m} \in G /\ n \in g \ {m}
      BY <3>1
    <3> QED BY <3>2
  <2> QED BY <2>1, <2>2
<1>5. G \subseteq SUBSET Monitors /\ {} \notin G
  BY <1>2
<1>6. on \subseteq l.monitors /\ on \subseteq Monitors
  BY <1>2 DEF Active
<1>7. on # {} => First(on) \in on
  BY <1>6, FirstMonitor
<1>8. l.primary # m /\ l.primary # None => l.primary \in on
  BY <1>2 DEF Active
<1>9. l.primary = None => on = {}
  BY <1>2, NoneIsNoMonitor DEF Active
<1> HIDE DEF G, on
<1>10. G = {} <=> on = {}
  <2>1. ASSUME G = {} PROVE on = {}
    BY <2>1, <1>4
  <2>2. ASSUME on = {}, NEW g \in G PROVE FALSE
    <3>1. PICK n \in g : TRUE
      BY <1>5
    <3> QED BY <3>1, <2>2, <1>4
  <2> QED BY <2>1, <2>2
<1>11. /\ p \in Monitors \cup {None}
       /\ G = {} => p = None
       /\ G # {} => p \in UNION G
  <2>1. CASE l.primary = m
    BY <2>1, <1>4, <1>6, <1>7, <1>10
  <2>2. CASE l.primary # m
    BY <2>2, <1>2, <1>4, <1>8, <1>9, <1>10
  <2> QED BY <2>1, <2>2
<1> HIDE DEF p
<1> QED BY <1>1, <1>2, <1>3, <1>4, <1>5, <1>6, <1>11, LayoutParts

\* The monitor that is primary after mirroring or joining is one of the monitors.
LEMMA SettledIsMonitor ==
    ASSUME NEW l \in Layouts
    PROVE  IF l.monitors = {} THEN Settled(l) = None ELSE Settled(l) \in l.monitors
<1>1. CASE l.monitors = {}
  BY <1>1 DEF Settled
<1>2. CASE l.monitors # {} /\ l.primary = None
  <2>1. l.monitors \subseteq Monitors
    BY LayoutFields
  <2> QED BY <1>2, <2>1, FirstMonitor DEF Settled
<1>3. CASE l.monitors # {} /\ l.primary # None
  <2>1. /\ l.primary \in UNION l.groups /\ UNION l.groups \subseteq l.monitors
        /\ l.monitors \subseteq Monitors
    BY <1>3, LayoutFields
  <2>2. l.primary \in GroupOf(l, l.primary) /\ GroupOf(l, l.primary) \subseteq l.monitors
    BY <2>1 DEF GroupOf
  <2>3. First(GroupOf(l, l.primary)) \in GroupOf(l, l.primary)
    BY <2>1, <2>2, FirstMonitor
  <2> QED BY <1>3, <2>2, <2>3 DEF Settled
<1> QED BY <1>1, <1>2, <1>3

LEMMA MirrorIsLayout ==
    ASSUME NEW l \in Layouts
    PROVE  Mirror(l) \in Layouts
<1> DEFINE G == {l.monitors} \ {{}}
<1>1. Mirror(l) = [monitors |-> l.monitors, groups |-> G, primary |-> Settled(l)]
  <2>1. Mirror(l) = [l EXCEPT !.groups = G, !.primary = Settled(l)]
    BY DEF Mirror
  <2> QED BY <2>1, AbstractRecord, ZenonT(40)
<1>2. l.monitors \subseteq Monitors
  BY LayoutFields
<1>3. /\ G \subseteq SUBSET Monitors /\ UNION G = l.monitors /\ {} \notin G
      /\ \A g, h \in G : g = h \/ g \cap h = {}
      /\ G = {} <=> l.monitors = {}
  BY <1>2
<1> HIDE DEF G
<1>4. /\ Settled(l) \in Monitors \cup {None}
      /\ G = {} => Settled(l) = None
      /\ G # {} => Settled(l) \in UNION G
  BY <1>2, <1>3, SettledIsMonitor
<1> QED BY <1>1, <1>2, <1>3, <1>4, LayoutParts

LEMMA JoinIsLayout ==
    ASSUME NEW l \in Layouts
    PROVE  Join(l) \in Layouts
<1> DEFINE G == {{m} : m \in l.monitors}
<1>1. Join(l) = [monitors |-> l.monitors, groups |-> G, primary |-> Settled(l)]
  <2>1. Join(l) = [l EXCEPT !.groups = G, !.primary = Settled(l)]
    BY DEF Join
  <2> QED BY <2>1, AbstractRecord, ZenonT(40)
<1>2. l.monitors \subseteq Monitors
  BY LayoutFields
<1>3. /\ G \subseteq SUBSET Monitors /\ UNION G = l.monitors /\ {} \notin G
      /\ \A g, h \in G : g = h \/ g \cap h = {}
      /\ G = {} <=> l.monitors = {}
  BY <1>2
<1> HIDE DEF G
<1>4. /\ Settled(l) \in Monitors \cup {None}
      /\ G = {} => Settled(l) = None
      /\ G # {} => Settled(l) \in UNION G
  BY <1>2, <1>3, SettledIsMonitor
<1> QED BY <1>1, <1>2, <1>3, <1>4, LayoutParts

LEMMA SetPrimaryIsLayout ==
    ASSUME NEW l \in Layouts, NEW m \in l.monitors
    PROVE  SetPrimary(l, m) \in Layouts
<1>1. CASE m \in Active(l)
  <2>1. SetPrimary(l, m) = [monitors |-> l.monitors, groups |-> l.groups, primary |-> m]
    <3>1. SetPrimary(l, m) = [l EXCEPT !.primary = m]
      BY <1>1 DEF SetPrimary
    <3> QED BY <3>1, AbstractRecord
  <2>2. m \in UNION l.groups /\ l.groups # {}
    BY <1>1 DEF Active
  <2>3. /\ l.monitors \subseteq Monitors /\ l.groups \subseteq SUBSET Monitors
        /\ UNION l.groups \subseteq l.monitors /\ {} \notin l.groups
        /\ \A g, h \in l.groups : g = h \/ g \cap h = {}
    BY LayoutFields
  <2> QED BY <2>1, <2>2, <2>3, LayoutParts
<1>2. CASE m \notin Active(l)
  BY <1>2 DEF SetPrimary
<1> QED BY <1>1, <1>2

------------------------------------------------------------------------------
(* Types: the panel keeps those of its variables.  The layouts that are edited    *)
(* stay layouts because what is selected, listed and usable are monitors of the   *)
(* copy, in every state.  No edit plugs a monitor in: the monitors are those of a *)
(* layout the compositor came up with.                                            *)

Plugged == {l.monitors : l \in Startups}

Copies == {c \in Configs : c.layout.monitors \in Plugged} \cup {NoConfig}

\* The states of the compositor.  It takes no configuration that turns everything off.
Announced ==
    {c \in Configs : /\ c.layout.monitors \in Plugged
                     /\ c.layout.groups = {} => \E l \in Startups : l.groups = {}}

Proper(p) ==
    /\ p \in PanelStates /\ p.current \in Copies
    /\ p.usable \subseteq p.current.layout.monitors
    /\ p.pickable \subseteq p.current.layout.monitors
    /\ p.selected \in p.current.layout.monitors \cup {None}

Outside(e) == e.state \in Announced \cup {NoConfig} /\ e.ok \in BOOLEAN /\ e.look \in Looks

LEMMA CopyFacts ==
    /\ NoConfig \notin Configs
    /\ \A c \in Configs : c.layout \in Layouts /\ Real(c)
    /\ Announced \subseteq Copies
    /\ \A c \in Copies : c.layout.monitors \subseteq Monitors
<1>1. \A c \in Configs : c.layout \in Layouts /\ c.serial \in 1..MaxSerial
  BY DEF Configs
<1>2. NoConfig \notin Configs
  BY BoundsAssumption DEF Configs, NoConfig
<1>3. \A l \in Layouts : Laid(l)
  BY DEF Layouts, Laid
<1>4. \A c \in Configs : Real(c)
  BY <1>1, <1>3, BoundsAssumption DEF Configs, Real
<1>5. \A c \in Copies : c.layout.monitors \subseteq Monitors
  BY <1>1 DEF Copies, NoConfig, Layouts
<1>6. Announced \subseteq Copies
  BY DEF Announced, Copies
<1> QED BY <1>1, <1>2, <1>4, <1>5, <1>6

LEMMA ProperIsSound == ASSUME NEW p, Proper(p) PROVE Sound(p) /\ p.current \in Copies
<1>1. p.current \in Copies /\ Shaped(p)
  BY DEF Proper, PanelStates, Shaped
<1> QED BY <1>1, CopyFacts DEF Sound, Copies

LEMMA SetCloningIsLayout ==
    ASSUME NEW l \in Layouts, NEW clone
    PROVE  SetCloning(l, clone) \in Layouts /\ SetCloning(l, clone).monitors = l.monitors
<1>1. SetCloning(l, clone) \in {l, Mirror(l), Join(l)}
  BY DEF SetCloning
<1>2. Mirror(l).monitors = l.monitors /\ Join(l).monitors = l.monitors
  BY DEF Mirror, Join, Layouts
<1> QED BY <1>1, <1>2, MirrorIsLayout, JoinIsLayout

LEMMA SetActiveIsLayout ==
    ASSUME NEW l \in Layouts, NEW m \in l.monitors, NEW on \in BOOLEAN
    PROVE  SetActive(l, m, on) \in Layouts /\ SetActive(l, m, on).monitors = l.monitors
<1>1. SetActive(l, m, on) \in Layouts
  BY ActivateIsLayout, DeactivateIsLayout DEF SetActive
<1>2. Laid(l)
  BY DEF Layouts, Laid
<1> QED BY <1>1, <1>2, OperationFacts

LEMMA UiFirstIsMember ==
    ASSUME NEW S \in SUBSET Monitors, S # {} PROVE UiFirst(S) \in S
  BY FirstMonitor DEF UiFirst

\* Turning on the usable monitors of a layout and turning off the others gives a layout.
LEMMA PartialJoinIsLayout ==
    ASSUME NEW j \in Layouts, NEW U \in SUBSET j.monitors
    PROVE  LET on  == Active(j) \cap U
               off == (j.monitors \cap U) \ on
               made == [j EXCEPT
                    !.groups  = ({g \cap U : g \in @} \ {{}}) \cup {{m} : m \in off},
                    !.primary = IF @ \in on THEN @
                                ELSE IF on # {} THEN First(on)
                                ELSE IF off # {} THEN UiFirst(off) ELSE None]
           IN  made \in Layouts /\ made.monitors = j.monitors
<1> DEFINE on  == Active(j) \cap U
           off == (j.monitors \cap U) \ on
           G   == ({g \cap U : g \in j.groups} \ {{}}) \cup {{m} : m \in off}
           q   == IF j.primary \in on THEN j.primary
                  ELSE IF on # {} THEN First(on)
                  ELSE IF off # {} THEN UiFirst(off) ELSE None
           made == [j EXCEPT !.groups = G, !.primary = q]
<1>1. /\ j.monitors \subseteq Monitors /\ j.groups \subseteq SUBSET Monitors
      /\ UNION j.groups \subseteq j.monitors
      /\ \A g, h \in j.groups : g = h \/ g \cap h = {}
  BY LayoutFields
<1>2. on \subseteq j.monitors /\ off \subseteq j.monitors
  BY <1>1
<1>3. \A g \in j.groups : g \cap U \subseteq on
  BY DEF Active
<1>4. UNION G = on \cup off
  <2>1. ASSUME NEW m \in UNION G PROVE m \in on \cup off
    BY <1>3
  <2>2. ASSUME NEW m \in on PROVE m \in UNION G
    <3>1. PICK g \in j.groups : m \in g /\ m \in U
      BY DEF Active
    <3>2. g \cap U \in G /\ m \in g \cap U
      BY <3>1
    <3> QED BY <3>2
  <2>3. ASSUME NEW m \in off PROVE m \in UNION G
    <3>1. {m} \in G /\ m \in {m}
      OBVIOUS
    <3> QED BY <3>1
  <2> QED BY <2>1, <2>2, <2>3
<1>5. {} \notin G
  OBVIOUS
<1>6. ASSUME NEW g \in G, NEW h \in G PROVE g = h \/ g \cap h = {}
  <2>1. CASE \E a, b \in j.groups : g = a \cap U /\ h = b \cap U
    BY <2>1, <1>1
  <2>2. CASE (\E a \in j.groups : g = a \cap U) /\ (\E m \in off : h = {m})
    BY <2>2, <1>3
  <2>3. CASE (\E m \in off : g = {m}) /\ (\E b \in j.groups : h = b \cap U)
    BY <2>3, <1>3
  <2>4. CASE \E m, n \in off : g = {m} /\ h = {n}
    BY <2>4
  <2> QED BY <2>1, <2>2, <2>3, <2>4
<1>7. G \subseteq SUBSET Monitors
  BY <1>1, <1>2, <1>4
<1>8. G = {} => on \cup off = {}
  BY <1>4
<1>9. G # {} => on \cup off # {}
  <2> HIDE DEF on, off, G
  <2>1. ASSUME NEW g \in G PROVE on \cup off # {}
    BY <1>4, <1>5
  <2> QED BY <2>1
<1>10. on # {} => First(on) \in on
  BY <1>1, <1>2, FirstMonitor
<1>11. off # {} => UiFirst(off) \in off
  BY <1>1, <1>2, UiFirstIsMember
<1> HIDE DEF G, on, off
<1>12. /\ q \in Monitors \cup {None}
       /\ G = {} => q = None
       /\ G # {} => q \in UNION G
  BY <1>1, <1>2, <1>4, <1>8, <1>9, <1>10, <1>11
<1> HIDE DEF q
<1>13. made = [monitors |-> j.monitors, groups |-> G, primary |-> q]
  <2> DEFINE k == [monitors |-> j.monitors, groups |-> j.groups, primary |-> j.primary]
  <2>1. j = k
    BY AbstractRecord
  <2>2. made = [k EXCEPT !.groups = G, !.primary = q]
    BY <2>1
  <2> HIDE DEF made
  <2> QED BY <2>2
<1>14. UNION G \subseteq j.monitors
  BY <1>2, <1>4
<1>15. [monitors |-> j.monitors, groups |-> G, primary |-> q] \in Layouts
  BY <1>1, <1>5, <1>6, <1>7, <1>12, <1>14, LayoutParts
<1>16. made \in Layouts /\ made.monitors = j.monitors
  BY <1>13, <1>15
<1> QED BY <1>16, Zenon DEF made, q, G, off, on

LEMMA UpdateIsProper ==
    ASSUME NEW p, Proper(p), NEW e, Outside(e)
    PROVE  /\ Proper(UpdateApplyButton(p, e))
           /\ UpdateApplyButton(p, e).current = p.current
<1> DEFINE ok == e.ok /\ p.current.serial = e.serial /\ p.current.layout.groups # {}
           hidden == [p EXCEPT !.shown = FALSE]
           asking == [p EXCEPT !.shown = TRUE, !.allowed = ok]
<1>1. UpdateApplyButton(p, e) = hidden \/ UpdateApplyButton(p, e) = asking
  BY DEF UpdateApplyButton
<1>2. ok \in BOOLEAN
  BY DEF Outside
<1> HIDE DEF ok
<1>3. Proper(hidden) /\ hidden.current = p.current
  BY DEF Proper, PanelStates
<1>4. Proper(asking) /\ asking.current = p.current
  BY <1>2 DEF Proper, PanelStates
<1> QED BY <1>1, <1>3, <1>4, Zenon

LEMMA ResetIsProper ==
    ASSUME NEW p, Proper(p), NEW e, Outside(e)
    PROVE  LET q == ResetCurrentConfig(p, e)
           IN  /\ Proper(q)
               /\ p.current # NoConfig => q.current # NoConfig
<1> DEFINE rows == IF p.rows = "none" THEN "none" ELSE "dropped"
           usable == e.state.layout.monitors \ (IF p.lid THEN {Builtin} ELSE {})
           r == [p EXCEPT !.current = e.state, !.usable = usable, !.rows = rows,
                          !.pickable = {}, !.selected = None]
           q == ResetCurrentConfig(p, e)
<1>1. CASE e.state = NoConfig
  BY <1>1 DEF ResetCurrentConfig
<1>2. CASE e.state # NoConfig
  <2>1. q = UpdateApplyButton(r, e)
    <3>1. r = [p EXCEPT !.current  = e.state,
                        !.usable   = e.state.layout.monitors \
                                          (IF p.lid THEN {Builtin} ELSE {}),
                        !.rows     = IF @ = "none" THEN "none" ELSE "dropped",
                        !.pickable = {},
                        !.selected = None]
      BY DEF Proper, PanelStates
    <3> QED BY <1>2, <3>1 DEF ResetCurrentConfig
  <2>2. /\ rows \in {"none", "current", "dropped"}
        /\ usable \in SUBSET Monitors /\ usable \subseteq e.state.layout.monitors
    BY <1>2, CopyFacts DEF Outside
  <2> HIDE DEF rows, usable
  <2>3. r \in PanelStates
    BY <2>2 DEF Proper, PanelStates, Outside, Announced
  <2>4. /\ r.current = e.state /\ r.usable = usable
        /\ r.pickable = {} /\ r.selected = None
    BY DEF Proper, PanelStates
  <2> HIDE DEF r, q
  <2>5. Proper(r)
    <3>1. r.current \in Copies
      BY <1>2, <2>4, CopyFacts DEF Outside
    <3> QED BY <2>2, <2>3, <2>4, <3>1 DEF Proper
  <2>6. Proper(q) /\ q.current = e.state
    BY <2>1, <2>4, <2>5, UpdateIsProper
  <2> QED BY <1>2, <2>6, Zenon DEF q
<1> QED BY <1>1, <1>2

LEMMA EditedIsProper ==
    ASSUME NEW p, Proper(p), p.current # NoConfig, NEW k \in Looks,
           NEW l \in Layouts, l.monitors = p.current.layout.monitors
    PROVE  LET q == Edited(p, l, k)
           IN  /\ Proper(q) /\ q.current # NoConfig
               /\ q.current.layout.monitors = p.current.layout.monitors
<1> DEFINE c == [p.current EXCEPT !.layout = l, !.look = k]
           q == Edited(p, l, k)
<1>1. p.current \in Configs /\ p.current.layout.monitors \in Plugged
  BY DEF Proper, Copies
<1>2. c \in Configs /\ c.layout = l
  BY <1>1 DEF Configs
<1>3. q = [p EXCEPT !.current = c]
  BY <1>1 DEF Edited, Proper, PanelStates, Configs
<1> HIDE DEF c, q
<1>4. /\ q \in PanelStates /\ q.current = c /\ q.usable = p.usable
      /\ q.pickable = p.pickable /\ q.selected = p.selected
  BY <1>2, <1>3 DEF Proper, PanelStates
<1>5. Proper(q) /\ q.current # NoConfig /\ q.current.layout = l
  <2>1. c \in Copies
    BY <1>1, <1>2 DEF Copies
  <2> QED BY <1>2, <1>4, <2>1, CopyFacts DEF Proper
<1> QED BY <1>5 DEF q

LEMMA LayoutOfCopy ==
    ASSUME NEW p, Proper(p), p.current # NoConfig
    PROVE  /\ p.current \in Configs /\ p.current.layout \in Layouts
           /\ p.current.look \in Looks /\ p.current.layout.monitors \in Plugged
  BY DEF Proper, Copies, Configs

LEMMA MakeJoinIsProper ==
    ASSUME NEW p, Proper(p), p.current # NoConfig, NEW e, Outside(e)
    PROVE  LET q == MakeJoin(p, e)
           IN  /\ Proper(q) /\ q.current # NoConfig
<1> DEFINE j   == SetCloning(p.current.layout, FALSE)
           on  == Active(j) \cap p.usable
           off == (j.monitors \cap p.usable) \ on
           made == [j EXCEPT
                    !.groups  = ({g \cap p.usable : g \in @} \ {{}}) \cup {{m} : m \in off},
                    !.primary = IF @ \in on THEN @
                                ELSE IF on # {} THEN First(on)
                                ELSE IF off # {} THEN UiFirst(off) ELSE None]
<1>1. j \in Layouts /\ j.monitors = p.current.layout.monitors
  BY LayoutOfCopy, SetCloningIsLayout
<1>2. MakeJoin(p, e) = Edited(p, made, e.look)
  BY DEF MakeJoin, Edited
<1> HIDE DEF j
<1>3. p.usable \in SUBSET j.monitors
  BY <1>1 DEF Proper
<1>4. made \in Layouts /\ made.monitors = j.monitors
  BY <1>1, <1>3, PartialJoinIsLayout
<1> HIDE DEF made
<1> QED BY <1>1, <1>2, <1>4, EditedIsProper DEF Outside

LEMMA MakeCloneIsProper ==
    ASSUME NEW p, Proper(p), p.current # NoConfig, NEW e, Outside(e)
    PROVE  LET q == MakeClone(p, e)
           IN  /\ Proper(q) /\ q.current # NoConfig
<1> DEFINE l == SetCloning(p.current.layout, TRUE)
           k == IF p.current.layout.monitors \in Mirrorable THEN e.look
                ELSE p.current.look
<1>1. l \in Layouts /\ l.monitors = p.current.layout.monitors
  BY LayoutOfCopy, SetCloningIsLayout
<1>2. k \in Looks
  BY LayoutOfCopy DEF Outside
<1>3. MakeClone(p, e) = Edited(p, l, k)
  BY LayoutOfCopy DEF MakeClone, Edited, Proper, PanelStates, Configs
<1> HIDE DEF l, k
<1> QED BY <1>1, <1>2, <1>3, EditedIsProper

LEMMA EnsureIsProper ==
    ASSUME NEW p, Proper(p), p.current # NoConfig, NEW type, NEW e, Outside(e)
    PROVE  LET q == EnsureOfType(p, type, e)
           IN  /\ Proper(q) /\ q.current # NoConfig
<1> DEFINE r == ResetCurrentConfig(p, e)
<1>1. Proper(r) /\ r.current # NoConfig
  BY ResetIsProper
<1>2. EnsureOfType(p, type, e) \in {p, MakeJoin(r, e), MakeClone(r, e)}
  BY DEF EnsureOfType
<1> HIDE DEF r
<1> QED BY <1>1, <1>2, MakeJoinIsProper, MakeCloneIsProper

LEMMA MultimonitorIsProper ==
    ASSUME NEW p, Proper(p), p.current # NoConfig, NEW multi, NEW e, Outside(e)
    PROVE  LET q == SetMultimonitor(p, multi, e)
           IN  /\ Proper(q) /\ q.current # NoConfig
<1> DEFINE q == SetMultimonitor(p, multi, e)
           r == [p EXCEPT !.switch = TRUE]
           f == [p EXCEPT !.switch = TRUE, !.fault = "null monitor"]
           l == SetActive(p.current.layout, p.selected, TRUE)
           a == Edited(r, l, e.look)
<1>1. /\ Proper(r) /\ r.current = p.current
      /\ Proper(f) /\ f.current = p.current
  BY DEF Proper, PanelStates
<1>2. CASE multi \/ p.switch
  BY <1>2 DEF SetMultimonitor
<1>3. CASE ~(multi \/ p.switch) /\ p.selected = None
  <2>1. q = f
    BY <1>3 DEF SetMultimonitor
  <2> HIDE DEF q, f
  <2>2. Proper(q) /\ q.current # NoConfig
    BY <1>1, <2>1
  <2> QED BY <2>2 DEF q
<1>4. CASE ~(multi \/ p.switch) /\ p.selected # None
  <2>1. [p EXCEPT !.switch = TRUE, !.current.layout = l, !.current.look = e.look] = a
    BY LayoutOfCopy DEF Edited, Proper, PanelStates, Configs
  <2>2. q = a
    BY <1>4, <2>1, LayoutOfCopy DEF SetMultimonitor, Proper, PanelStates, Configs
  <2>3. p.selected \in p.current.layout.monitors
    BY <1>4 DEF Proper
  <2>4. l \in Layouts /\ l.monitors = p.current.layout.monitors
    BY <2>3, LayoutOfCopy, SetActiveIsLayout
  <2> HIDE DEF l, r, q
  <2>5. Proper(a) /\ a.current # NoConfig
    BY <1>1, <2>4, EditedIsProper DEF Outside
  <2> HIDE DEF a
  <2>6. Proper(q) /\ q.current # NoConfig
    BY <2>2, <2>5
  <2> QED BY <2>6 DEF q
<1> QED BY <1>2, <1>3, <1>4

LEMMA SelectIsProper ==
    ASSUME NEW p, Proper(p), NEW m \in p.current.layout.monitors \cup {None}
    PROVE  LET q == SetCurrentOutput(p, m)
           IN  Proper(q) /\ q.current = p.current
<1> DEFINE on == m \in Active(p.current.layout)
           q == SetCurrentOutput(p, m)
<1>1. q = [p EXCEPT !.selected = m, !.switch = on]
  BY DEF SetCurrentOutput
<1>2. on \in BOOLEAN
  OBVIOUS
<1> HIDE DEF on, q
<1>3. m \in Monitors \cup {None}
  <2>1. p.current.layout.monitors \subseteq Monitors
    BY ProperIsSound, CopyFacts
  <2> QED BY <2>1
<1>4. Proper(q) /\ q.current = p.current
  BY <1>1, <1>2, <1>3 DEF Proper, PanelStates
<1> QED BY <1>4 DEF q

LEMMA ListedIsProper ==
    ASSUME NEW p, Proper(p), NEW r \in {"none", "current", "dropped"},
           NEW l \in BOOLEAN, NEW m \in BOOLEAN, NEW t \in {"join", "clone"},
           NEW k \in SUBSET p.usable
    PROVE  LET q == Relisted(p, r, l, m, t, k)
           IN  Proper(q) /\ q.current = p.current
<1>1. k \in SUBSET Monitors /\ k \subseteq p.current.layout.monitors
  BY DEF Proper, PanelStates
<1> QED BY <1>1, ZenonT(40) DEF Relisted, Proper, PanelStates

LEMMA RebuildIsProper ==
    ASSUME NEW p, Proper(p), NEW e, Outside(e)
    PROVE  LET q == RebuildUi(p, e)
           IN  Proper(q) /\ (p.current # NoConfig => q.current # NoConfig)
<1>1. CASE p.current = NoConfig
  <2> DEFINE q == [p EXCEPT !.pickable = {}, !.rows = "none"]
  <2>1. RebuildUi(p, e) = q
    BY <1>1 DEF RebuildUi
  <2>2. Proper(q)
    BY DEF Proper, PanelStates
  <2> HIDE DEF q
  <2> QED BY <1>1, <2>1, <2>2
<1>2. CASE p.current # NoConfig
  <2> DEFINE multi   == \E m, n \in p.usable : m # n
             type    == IF multi /\ TypeOf(p) = "clone" THEN "clone" ELSE "join"
             listing == [p EXCEPT !.rows     = IF p.usable = {} THEN "none" ELSE "current",
                                  !.listed   = multi /\ type = "join",
                                  !.multiple = multi,
                                  !.type     = type,
                                  !.pickable = Useful(p)]
             showing == IF Useful(p) = {} THEN listing
                        ELSE SetCurrentOutput(listing, UiFirst(Useful(p)))
             single  == SetMultimonitor(showing, multi /\ type # "clone", e)
             ensured == EnsureOfType(single, type, e)
  <2>1. RebuildUi(p, e) = UpdateApplyButton(ensured, e)
    BY <1>2 DEF RebuildUi
  <2>2. /\ Useful(p) \subseteq p.usable /\ Useful(p) \subseteq p.current.layout.monitors
        /\ Useful(p) \subseteq Monitors
    BY ProperIsSound, CopyFacts DEF Useful, Proper
  <2>3. Proper(listing) /\ listing.current = p.current
    <3> DEFINE rows == IF p.usable = {} THEN "none" ELSE "current"
               joined == multi /\ type = "join"
               useful == Useful(p)
    <3>1. rows \in {"none", "current", "dropped"} /\ type \in {"join", "clone"}
      OBVIOUS
    <3>2. joined \in BOOLEAN /\ multi \in BOOLEAN
      OBVIOUS
    <3>3. useful \in SUBSET p.usable
      BY <2>2
    <3> HIDE DEF multi, type, rows, joined, useful
    <3>4. listing = Relisted(p, rows, joined, multi, type, useful)
      BY DEF Relisted, rows, joined, useful
    <3> HIDE DEF listing
    <3> QED BY <3>1, <3>2, <3>3, <3>4, ListedIsProper
  <2> HIDE DEF multi, type, listing
  <2>4. Proper(showing) /\ showing.current = p.current
    <3>1. Useful(p) # {} => UiFirst(Useful(p)) \in p.current.layout.monitors
      BY <2>2, UiFirstIsMember
    <3> QED BY <2>3, <3>1, SelectIsProper
  <2> HIDE DEF showing
  <2>5. Proper(single) /\ single.current # NoConfig
    BY <1>2, <2>4, MultimonitorIsProper
  <2> HIDE DEF single
  <2>6. Proper(ensured) /\ ensured.current # NoConfig
    BY <2>5, EnsureIsProper
  <2> HIDE DEF ensured
  <2> QED BY <2>1, <2>6, UpdateIsProper
<1> QED BY <1>1, <1>2

LEMMA ScreenChangedIsProper ==
    ASSUME NEW p, Proper(p), NEW e, Outside(e)
    PROVE  Proper(OnScreenChanged(p, e))
<1> DEFINE h == [p EXCEPT !.shown = FALSE]
           r == ResetCurrentConfig(h, e)
<1>1. Proper(h)
  BY DEF Proper, PanelStates
<1>2. OnScreenChanged(p, e) = RebuildUi(r, e)
  BY DEF OnScreenChanged
<1> HIDE DEF h
<1>3. Proper(r)
  BY <1>1, ResetIsProper
<1> HIDE DEF r
<1> QED BY <1>2, <1>3, RebuildIsProper

(* Every call of GetCurrentState answers to a change of the compositor's state, as *)
(* does every signal that has not been handled.                                    *)
Changes(q) == {i \in 1..Len(q) : q[i].type = "changed"}

LEMMA ChangesAreFinite ==
    ASSUME NEW q \in Seq(Messages)
    PROVE  IsFiniteSet(Changes(q)) /\ Cardinality(Changes(q)) \in Nat
<1>1. IsFiniteSet(1..Len(q))
  BY FS_Interval
<1>2. Changes(q) \in SUBSET (1..Len(q))
  BY DEF Changes
<1>3. IsFiniteSet(Changes(q))
  BY <1>1, <1>2, FS_Subset
<1> QED BY <1>3, FS_CardinalityType

LEMMA AppendChanges ==
    ASSUME NEW q \in Seq(Messages), NEW m \in Messages
    PROVE  Cardinality(Changes(Append(q, m))) =
                Cardinality(Changes(q)) + (IF m.type = "changed" THEN 1 ELSE 0)
<1> DEFINE r == Append(q, m)
           n == Len(q) + 1
<1>1. /\ Len(q) \in Nat /\ Len(r) = n /\ r[n] = m
      /\ \A i \in 1..Len(q) : r[i] = q[i]
  OBVIOUS
<1>2. Changes(r) = Changes(q) \cup (IF m.type = "changed" THEN {n} ELSE {})
  <2>1. \A i : i \in 1..n <=> i \in 1..Len(q) \/ i = n
    BY <1>1
  <2>2. \A i \in 1..Len(q) : i # n
    BY <1>1
  <2> HIDE DEF r, n
  <2> QED BY <1>1, <2>1, <2>2 DEF Changes
<1>3. n \notin Changes(q)
  BY <1>1 DEF Changes
<1>4. Cardinality(Changes(q) \cup {n}) = Cardinality(Changes(q)) + 1
  BY <1>3, ChangesAreFinite, FS_AddElement
<1> HIDE DEF r, n
<1>5. Cardinality(Changes(r)) = Cardinality(Changes(q)) + (IF m.type = "changed" THEN 1 ELSE 0)
  <2>1. Cardinality(Changes(q)) \in Nat
    BY ChangesAreFinite
  <2>2. CASE m.type = "changed"
    <3>1. Changes(r) = Changes(q) \cup {n}
      BY <1>2, <2>2
    <3> QED BY <1>4, <2>2, <3>1
  <2>3. CASE m.type # "changed"
    <3>1. Changes(r) = Changes(q)
      BY <1>2, <2>3
    <3> QED BY <2>1, <2>3, <3>1
  <2> QED BY <2>2, <2>3
<1> QED BY <1>5 DEF r

LEMMA TailChanges ==
    ASSUME NEW q \in Seq(Messages), q # <<>>
    PROVE  Cardinality(Changes(Tail(q))) =
                Cardinality(Changes(q)) - (IF Head(q).type = "changed" THEN 1 ELSE 0)
<1> DEFINE S == Changes(q) \ {1}
           r == Tail(q)
<1>1. /\ Len(q) \in Nat \ {0} /\ Len(r) = Len(q) - 1 /\ Head(q) = q[1]
      /\ \A i \in 1..Len(r) : r[i] = q[i + 1]
      /\ r \in Seq(Messages)
  OBVIOUS
<1> HIDE DEF r
<1>2. 1 \in Changes(q) <=> Head(q).type = "changed"
  BY <1>1 DEF Changes
<1>3. \A i \in Changes(r) : i \in Nat /\ i + 1 \in S
  BY <1>1 DEF Changes
<1>4. \A j \in S : \E i \in Changes(r) : j = i + 1
  <2> SUFFICES ASSUME NEW j \in S PROVE \E i \in Changes(r) : j = i + 1
    OBVIOUS
  <2>1. j \in 2..Len(q) /\ q[j].type = "changed"
    BY <1>1 DEF Changes
  <2>2. j - 1 \in 1..Len(r) /\ j = (j - 1) + 1
    BY <1>1, <2>1
  <2>3. j - 1 \in Changes(r)
    BY <1>1, <2>1, <2>2 DEF Changes
  <2> QED BY <2>2, <2>3
<1> HIDE DEF S
<1> DEFINE f == [i \in Changes(r) |-> i + 1]
<1>5. f \in Bijection(Changes(r), S)
  <2>1. f \in [Changes(r) -> S]
    BY <1>3
  <2>2. \A i, j \in Changes(r) : f[i] = f[j] => i = j
    BY <1>3
  <2>3. \A j \in S : \E i \in Changes(r) : f[i] = j
    BY <1>4
  <2> HIDE DEF f
  <2> QED BY <2>1, <2>2, <2>3 DEF Bijection, Injection, IsInjective, Surjection
<1>6. Cardinality(S) = Cardinality(Changes(r))
  BY <1>1, <1>5, ChangesAreFinite, FS_Bijection DEF ExistsBijection
<1>7. Cardinality(S) = IF 1 \in Changes(q) THEN Cardinality(Changes(q)) - 1
                       ELSE Cardinality(Changes(q))
  BY ChangesAreFinite, FS_RemoveElement DEF S
<1>8. Cardinality(Changes(r)) = Cardinality(Changes(q)) - (IF Head(q).type = "changed" THEN 1 ELSE 0)
  BY <1>2, <1>6, <1>7, ChangesAreFinite
<1> QED BY <1>8 DEF r

\* The messages that carry a state of the compositor, or none
Signals == {m \in Messages : m.type = "state" => m.state \in Announced}

LEMMA SignalsAreMessages ==
    ASSUME NEW q \in Seq(Signals) PROVE q \in Seq(Messages)
<1>1. Signals \subseteq Messages
  BY DEF Signals
<1> QED BY <1>1

TInv ==
    /\ compositor \in Announced /\ inbox \in Seq(Signals) /\ asked \in Nat
    /\ asked + Cardinality(Changes(inbox)) <= compositor.serial
    /\ errors \in 0..MaxErrors /\ lid \in BOOLEAN
    /\ cached \in Announced \cup {NoConfig} /\ Proper(panel)

LEMMA SeenIsOutside ==
    ASSUME NEW s \in Announced \cup {NoConfig}, NEW n, NEW e \in Seen(s, n) PROVE Outside(e)
  BY DEF Seen, Outside

\* A handler that leaves a panel of its type and nothing else of another
LEMMA HandlerKeepsTypes ==
    ASSUME TInv, Proper(panel)',
           UNCHANGED <<compositor, inbox, asked, errors, lid, cached>>
    PROVE  TInv'
  BY DEF TInv

LEMMA ToggleKeepsTypes == ASSUME TInv, ToggleType PROVE TInv'
<1>1. PICK e \in Seen(cached, compositor.serial) :
        panel.current # NoConfig /\ panel' = Toggled(e)
  BY DEF ToggleType, Uses
<1>2. UNCHANGED <<compositor, inbox, asked, errors, lid, cached>>
  BY DEF ToggleType, Uses
<1>3. Outside(e)
  BY SeenIsOutside DEF TInv
<1> DEFINE type == Other(panel.type)
           p == [panel EXCEPT !.type = type]
           q == EnsureOfType(p, type, e)
<1>4. panel' = q \/ panel' = RebuildUi(q, e)
  BY <1>1 DEF Toggled
<1>5. type \in {"join", "clone"}
  BY DEF Other
<1> HIDE DEF type
<1>6. Proper(p) /\ p.current = panel.current
  BY <1>5 DEF TInv, Proper, PanelStates
<1> HIDE DEF p
<1>7. Proper(q)
  BY <1>1, <1>3, <1>6, EnsureIsProper
<1> HIDE DEF q
<1>8. Proper(RebuildUi(q, e))
  BY <1>3, <1>7, RebuildIsProper
<1>9. Proper(panel')
  BY <1>4, <1>7, <1>8
<1> QED BY <1>2, <1>9, HandlerKeepsTypes

LEMMA SwitchKeepsTypes == ASSUME TInv, SwitchOutput PROVE TInv'
<1>1. PICK e \in Seen(cached, compositor.serial) :
        panel.current # NoConfig /\ panel' = Switched(e)
  BY DEF SwitchOutput, Uses
<1>2. /\ UNCHANGED <<compositor, inbox, asked, errors, lid, cached>>
      /\ panel.selected # None
  BY DEF SwitchOutput, Uses
<1>3. Outside(e) /\ Proper(panel)
  BY SeenIsOutside DEF TInv
<1> DEFINE on == ~panel.switch
           l == SetActive(panel.current.layout, panel.selected, on)
           h == [panel EXCEPT !.switch = on]
           q == Edited(h, l, e.look)
<1>4. on \in BOOLEAN
  OBVIOUS
<1>5. panel.selected \in panel.current.layout.monitors
  BY <1>2, <1>3 DEF Proper
<1> HIDE DEF on
<1>6. l \in Layouts /\ l.monitors = panel.current.layout.monitors
  BY <1>1, <1>3, <1>4, <1>5, LayoutOfCopy, SetActiveIsLayout
<1>7. Proper(h) /\ h.current = panel.current
  BY <1>3, <1>4 DEF Proper, PanelStates
<1>8. panel' = UpdateApplyButton(q, e)
  <2>1. [panel EXCEPT !.switch = ~@, !.current.layout = SetActive(@, panel.selected, ~panel.switch),
                      !.current.look = e.look] = q
    BY <1>1, <1>3, LayoutOfCopy DEF Edited, Proper, PanelStates, Configs, on
  <2> QED BY <1>1, <2>1 DEF Switched
<1> HIDE DEF l, h
<1>9. Proper(q)
  BY <1>1, <1>3, <1>6, <1>7, EditedIsProper DEF Outside
<1> HIDE DEF q
<1>10. Proper(panel')
  BY <1>3, <1>8, <1>9, UpdateIsProper
<1> QED BY <1>2, <1>10, HandlerKeepsTypes

LEMMA SettingsKeepTypes == ASSUME TInv, EditSettings PROVE TInv'
<1>1. PICK e \in Seen(cached, compositor.serial) :
        /\ panel.current # NoConfig
        /\ panel' = UpdateApplyButton([panel EXCEPT !.current.look = e.look], e)
  BY DEF EditSettings, Uses
<1>2. UNCHANGED <<compositor, inbox, asked, errors, lid, cached>>
  BY DEF EditSettings, Uses
<1>3. Outside(e) /\ Proper(panel)
  BY SeenIsOutside DEF TInv
<1> DEFINE q == Edited(panel, panel.current.layout, e.look)
<1>4. [panel EXCEPT !.current.look = e.look] = q
  BY <1>1, <1>3, LayoutOfCopy DEF Edited, Proper, PanelStates, Configs
<1>5. Proper(q)
  BY <1>1, <1>3, LayoutOfCopy, EditedIsProper DEF Outside
<1> HIDE DEF q
<1>6. Proper(panel')
  BY <1>1, <1>3, <1>4, <1>5, UpdateIsProper
<1> QED BY <1>2, <1>6, HandlerKeepsTypes

LEMMA PrimaryKeepsTypes ==
    ASSUME TInv, NEW m \in Monitors, PickPrimary(m) PROVE TInv'
<1>1. PICK e \in Seen(cached, compositor.serial) :
        /\ panel.current # NoConfig
        /\ panel' = UpdateApplyButton([panel EXCEPT !.current.layout = SetPrimary(@, m)], e)
  BY DEF PickPrimary, Uses
<1>2. /\ UNCHANGED <<compositor, inbox, asked, errors, lid, cached>>
      /\ m \in panel.pickable
  BY DEF PickPrimary, Uses
<1>3. Outside(e) /\ Proper(panel)
  BY SeenIsOutside DEF TInv
<1> DEFINE l == SetPrimary(panel.current.layout, m)
           q == Edited(panel, l, panel.current.look)
<1>4. panel.current.layout \in Layouts /\ m \in panel.current.layout.monitors
  BY <1>1, <1>2, <1>3, LayoutOfCopy DEF Proper
<1>5. l \in Layouts /\ l.monitors = panel.current.layout.monitors
  <2>1. Laid(panel.current.layout)
    BY <1>4 DEF Layouts, Laid
  <2> QED BY <1>4, <2>1, SetPrimaryIsLayout, OperationFacts
<1>6. [panel EXCEPT !.current.layout = SetPrimary(@, m)] = q
  BY <1>1, <1>3, LayoutOfCopy DEF Edited, Proper, PanelStates, Configs
<1> HIDE DEF l
<1>7. Proper(q)
  BY <1>1, <1>3, <1>5, LayoutOfCopy, EditedIsProper
<1> HIDE DEF q
<1>8. Proper(panel')
  BY <1>1, <1>3, <1>6, <1>7, UpdateIsProper
<1> QED BY <1>2, <1>8, HandlerKeepsTypes

LEMMA SelectKeepsTypes ==
    ASSUME TInv, NEW m \in Monitors, SelectOutput(m) PROVE TInv'
<1>1. /\ panel' = SetCurrentOutput(panel, m)
      /\ UNCHANGED <<compositor, inbox, asked, errors, lid, cached>>
      /\ m \in panel.usable \/ m \in Useful(panel)
  BY DEF SelectOutput, Uses
<1>2. m \in panel.current.layout.monitors /\ Proper(panel)
  BY <1>1 DEF Useful, TInv, Proper
<1>3. Proper(panel')
  BY <1>1, <1>2, SelectIsProper
<1> QED BY <1>1, <1>3, HandlerKeepsTypes

LEMMA ApplyKeepsTypes == ASSUME TInv, Apply PROVE TInv'
<1>1. PICK e \in Seen(cached, compositor'.serial) : panel' = OnScreenChanged(panel, e)
  BY DEF Apply
<1>2. Proper(panel)'
  BY <1>1, SeenIsOutside, ScreenChangedIsProper DEF TInv
<1>3. UNCHANGED <<asked, errors, lid, cached>>
  BY DEF Apply
<1>4. CASE UNCHANGED <<compositor, inbox>>
  BY <1>2, <1>3, <1>4, HandlerKeepsTypes
<1>5. CASE /\ panel.current.serial = compositor.serial
           /\ compositor.serial < MaxSerial /\ panel.current.layout.groups # {}
           /\ compositor' = [panel.current EXCEPT !.serial = @ + 1]
           /\ inbox' = Append(inbox, [type |-> "changed"])
  <2>1. panel.current \in Configs /\ panel.current.layout.monitors \in Plugged
    <3>1. compositor.serial # 0
      BY BoundsAssumption DEF TInv, Announced, Configs
    <3>2. panel.current # NoConfig
      BY <1>5, <3>1 DEF NoConfig
    <3> QED BY <3>2, LayoutOfCopy DEF TInv
  <2>2. compositor' \in Announced /\ compositor'.serial = compositor.serial + 1
    <3>1. compositor.serial + 1 \in 1..MaxSerial
      BY <1>5, BoundsAssumption DEF TInv, Announced, Configs
    <3>2. /\ compositor' \in Configs /\ compositor'.serial = compositor.serial + 1
          /\ compositor'.layout = panel.current.layout
      BY <1>5, <2>1, <3>1 DEF Configs
    <3> QED BY <1>5, <2>1, <3>2 DEF Announced
  <2> DEFINE m == [type |-> "changed"]
  <2>3. m \in Messages /\ m \in Signals /\ m.type = "changed"
    BY DEF Messages, Signals
  <2> HIDE DEF m
  <2>4. inbox' = Append(inbox, m) /\ inbox \in Seq(Messages)
    BY <1>5, SignalsAreMessages DEF m, TInv
  <2>5. inbox' \in Seq(Signals)
    BY <2>3, <2>4 DEF TInv
  <2>6. Cardinality(Changes(inbox')) = Cardinality(Changes(inbox)) + 1
    BY <2>3, <2>4, AppendChanges
  <2>7. asked' + Cardinality(Changes(inbox')) <= compositor'.serial
    BY <1>3, <2>2, <2>4, <2>6, ChangesAreFinite, BoundsAssumption DEF TInv, Announced, Configs
  <2> QED BY <1>2, <1>3, <2>2, <2>5, <2>7 DEF TInv
<1> QED BY <1>4, <1>5 DEF Apply, ApplyMonitorsConfig

LEMMA InitTypes == Init => TInv
<1> SUFFICES ASSUME Init PROVE TInv
  OBVIOUS
<1>1. compositor \in Announced /\ compositor.serial = 1
  <2>1. PICK l \in Startups : compositor = [serial |-> 1, layout |-> l, look |-> 0]
    BY DEF Init
  <2> QED BY <2>1, StartupsAssumption, BoundsAssumption DEF Announced, Plugged, Configs, Looks
<1>2. inbox = <<>> /\ asked = 1 /\ errors = 0 /\ cached = NoConfig /\ lid \in BOOLEAN
  BY DEF Init
<1>3. inbox \in Seq(Signals) /\ Cardinality(Changes(inbox)) = 0
  <2>1. Changes(inbox) = {}
    BY <1>2 DEF Changes
  <2> QED BY <1>2, <2>1, FS_EmptySet
<1>4. Proper(panel)
  BY DEF Init, Proper, Copies, PanelStates, NoConfig
<1> QED BY <1>1, <1>2, <1>3, <1>4, BoundsAssumption DEF TInv

LEMMA NextKeepsTypes == TInv /\ [Next]_vars => TInv'
<1> SUFFICES ASSUME TInv, [Next]_vars PROVE TInv'
  OBVIOUS
<1>0. /\ Cardinality(Changes(inbox)) \in Nat /\ compositor.serial \in Nat
      /\ inbox \in Seq(Signals) /\ inbox \in Seq(Messages)
  BY ChangesAreFinite, SignalsAreMessages, BoundsAssumption DEF TInv, Announced, Configs
<1>1. CASE CompositorChanges
  <2> DEFINE m == [type |-> "changed"]
  <2>1. /\ m \in Messages /\ m \in Signals /\ m.type = "changed"
        /\ inbox' = Append(inbox, m)
    BY <1>1 DEF Messages, Signals, CompositorChanges
  <2> HIDE DEF m
  <2>2. inbox' \in Seq(Signals)
    BY <1>0, <2>1
  <2>3. Cardinality(Changes(inbox')) = Cardinality(Changes(inbox)) + 1
    BY <1>0, <2>1, AppendChanges
  <2>4. PICK l \in Startups :
          compositor' = [serial |-> compositor.serial + 1, layout |-> l, look |-> 0]
    BY <1>1 DEF CompositorChanges
  <2>5. compositor' \in Announced /\ compositor'.serial = compositor.serial + 1
    <3>1. compositor.serial + 1 \in 1..MaxSerial
      BY <1>0, <1>1, BoundsAssumption DEF CompositorChanges
    <3> QED BY <2>4, <3>1, StartupsAssumption DEF Announced, Plugged, Configs, Looks
  <2> QED BY <1>0, <1>1, <2>2, <2>3, <2>5 DEF TInv, CompositorChanges
<1>2. CASE Answer
  <2>1. PICK m \in Signals : m.type # "changed" /\ inbox' = Append(inbox, m)
    <3>1. [type |-> "state", state |-> compositor] \in Signals /\ [type |-> "error"] \in Signals
      BY DEF Messages, Signals, Announced, TInv
    <3> QED BY <1>2, <3>1 DEF Answer
  <2>2. inbox' \in Seq(Signals) /\ Cardinality(Changes(inbox')) = Cardinality(Changes(inbox))
    BY <1>0, <2>1, AppendChanges DEF Signals
  <2>3. asked' \in Nat /\ asked' <= asked
    BY <1>2 DEF Answer, TInv
  <2>4. errors' \in 0..MaxErrors
    BY <1>2, BoundsAssumption DEF Answer, TInv
  <2>5. UNCHANGED <<compositor, lid, cached, panel>>
    BY <1>2 DEF Answer
  <2> QED BY <1>0, <2>2, <2>3, <2>4, <2>5 DEF TInv
<1>3. CASE LidMoves
  BY <1>3 DEF LidMoves, TInv
<1>4. CASE MonitorsChanged
  <2>1. /\ inbox # <<>> /\ Head(inbox).type = "changed" /\ inbox' = Tail(inbox)
        /\ asked' = asked + 1 /\ UNCHANGED <<compositor, errors, lid, cached, panel>>
    BY <1>4 DEF MonitorsChanged
  <2>2. inbox' \in Seq(Signals)
    BY <1>0, <2>1
  <2>3. Cardinality(Changes(inbox')) = Cardinality(Changes(inbox)) - 1
    BY <1>0, <2>1, TailChanges
  <2> QED BY <1>0, <2>1, <2>2, <2>3 DEF TInv
<1>5. CASE GotCurrentState
  <2>1. /\ inbox # <<>> /\ Head(inbox).type \in {"state", "error"} /\ inbox' = Tail(inbox)
        /\ cached' = IF Head(inbox).type = "state" THEN Head(inbox).state ELSE NoConfig
        /\ UNCHANGED <<compositor, asked, errors, lid>>
    BY <1>5 DEF GotCurrentState
  <2>2. inbox' \in Seq(Signals) /\ Head(inbox) \in Signals
    BY <1>0, <2>1
  <2>3. cached' \in Announced \cup {NoConfig}
    BY <2>1, <2>2 DEF Signals
  <2>4. Cardinality(Changes(inbox')) = Cardinality(Changes(inbox))
    BY <1>0, <2>1, TailChanges
  <2>5. PICK e \in Seen(cached', compositor.serial) : panel' = OnScreenChanged(panel, e)
    BY <1>5 DEF GotCurrentState
  <2>6. Proper(panel')
    BY <2>3, <2>5, SeenIsOutside, ScreenChangedIsProper DEF TInv
  <2> QED BY <1>0, <2>1, <2>2, <2>3, <2>4, <2>6 DEF TInv
<1>6. CASE LidChanged
  <2> DEFINE p == [panel EXCEPT !.lid = lid]
  <2>1. Proper(p)
    BY DEF TInv, Proper, PanelStates
  <2>2. PICK e \in Seen(cached, compositor.serial) : panel' = OnScreenChanged(p, e)
    BY <1>6 DEF LidChanged
  <2> HIDE DEF p
  <2>3. Proper(panel')
    BY <2>1, <2>2, SeenIsOutside, ScreenChangedIsProper DEF TInv
  <2> QED BY <1>6, <2>3, HandlerKeepsTypes DEF LidChanged
<1>7. CASE Cancel
  <2>1. /\ UNCHANGED <<compositor, inbox, asked, errors, lid, cached>>
        /\ \E e \in Seen(cached, compositor.serial) : panel' = OnScreenChanged(panel, e)
    BY <1>7 DEF Cancel, Uses
  <2>2. Proper(panel')
    BY <2>1, SeenIsOutside, ScreenChangedIsProper DEF TInv
  <2> QED BY <2>1, <2>2, HandlerKeepsTypes
<1>8. CASE UNCHANGED vars
  BY <1>8 DEF vars, TInv
<1> QED
  BY <1>1, <1>2, <1>3, <1>4, <1>5, <1>6, <1>7, <1>8, ToggleKeepsTypes, SwitchKeepsTypes,
     SettingsKeepTypes, ApplyKeepsTypes, SelectKeepsTypes, PrimaryKeepsTypes DEF Next

LEMMA TypesHold == Spec => []TInv
  BY InitTypes, NextKeepsTypes, PTL DEF Spec

\* Every variable keeps its type, for any monitors, layouts the compositor may come up
\* with and orders of events: in particular every configuration that is cached, edited or
\* sent has disjoint groups of plugged-in monitors and a primary among those that are on,
\* and no more calls wait for an answer than the state has changed.
THEOREM PanelTypes == Spec => []TypeOK
<1>1. TInv => TypeOK
  <2> SUFFICES ASSUME TInv PROVE TypeOK
    OBVIOUS
  <2>1. asked <= compositor.serial /\ compositor.serial <= MaxSerial
    BY ChangesAreFinite, SignalsAreMessages, BoundsAssumption DEF TInv, Announced, Configs
  <2>2. asked \in 0..MaxSerial
    BY <2>1, BoundsAssumption DEF TInv, Announced, Configs
  <2>3. compositor \in Configs /\ cached \in Configs \cup {NoConfig}
    BY DEF TInv, Announced
  <2>4. inbox \in Seq(Messages) /\ panel \in PanelStates
    BY SignalsAreMessages DEF TInv, Proper
  <2> QED BY <2>2, <2>3, <2>4 DEF TInv, TypeOK
<1> QED BY <1>1, TypesHold, PTL

(* The hypothesis of TitlebarTells, from what may be plugged in. *)

LEMMA PluggedIsMirrorable ==
    ASSUME Plugged \subseteq Mirrorable, TInv PROVE StateIsMirrorable
<1>1. cached # NoConfig => /\ cached.layout \in Layouts
                           /\ cached.layout.monitors \in Plugged
  BY CopyFacts DEF TInv, Announced
<1>2. cached # NoConfig => SetCloning(cached.layout, TRUE).monitors = cached.layout.monitors
  BY <1>1, SetCloningIsLayout
<1> QED BY <1>1, <1>2 DEF StateIsMirrorable

\* When the monitors that may be plugged in together have a mode in common, "Apply
\* Changes?" always tells whether there is something to apply.
THEOREM TitlebarTellsOfMirrorable ==
    ASSUME Plugged \subseteq Mirrorable PROVE Spec => []TitlebarTellsEdits
<1>1. TInv => StateIsMirrorable
  BY PluggedIsMirrorable
<1> QED BY <1>1, TypesHold, TitlebarTells, PTL

------------------------------------------------------------------------------
(* What DisplayLayout says, of itself *)

VARIABLE layout
Abstract == INSTANCE DisplayLayoutSpec

StaysLayout == layout \in Abstract!Layouts

\* The specification of layouts has the operators the panel is written with, and
\* mirrors or joins or does neither.
LEMMA SameOperations ==
    /\ Abstract!Layouts = Layouts
    /\ \A l, m : \A on : Abstract!SetActive(l, m, on) = SetActive(l, m, on)
    /\ \A l, m : Abstract!SetPrimary(l, m) = SetPrimary(l, m)
    /\ \A l : \A on : Abstract!SetCloning(l, on) \in {l, Mirror(l), Join(l)}
<1>1. Abstract!None = None /\ \A l : Abstract!Active(l) = Active(l)
  BY DEF Abstract!None, None, Abstract!Active, Active
<1>2. \A S : Abstract!First(S) = First(S)
  BY Zenon DEF Abstract!First, First
<1>3. \A l : Abstract!Settled(l) = Settled(l)
  <2>1. \A l, m : Abstract!GroupOf(l, m) = GroupOf(l, m)
    BY Zenon DEF Abstract!GroupOf, GroupOf
  <2> QED BY <1>1, <1>2, <2>1, Zenon DEF Abstract!Settled, Settled
<1>4. Abstract!Layouts = Layouts
  BY <1>1, Zenon DEF Abstract!Layouts, Layouts
<1>5. \A l, m : \A on : Abstract!SetActive(l, m, on) = SetActive(l, m, on)
  <2>1. \A l, m : Abstract!Activate(l, m) = Activate(l, m)
    BY <1>1, Zenon DEF Abstract!Activate, Activate
  <2>2. \A l, m : Abstract!Deactivate(l, m) = Deactivate(l, m)
    BY <1>1, <1>2, Zenon DEF Abstract!Deactivate, Deactivate
  <2> QED BY <2>1, <2>2, Zenon DEF Abstract!SetActive, SetActive
<1>6. \A l, m : Abstract!SetPrimary(l, m) = SetPrimary(l, m)
  BY <1>1, Zenon DEF Abstract!SetPrimary, SetPrimary
<1>7. \A l : \A on : Abstract!SetCloning(l, on) \in {l, Mirror(l), Join(l)}
  <2>1. \A l : Abstract!Mirror(l) = Mirror(l) /\ Abstract!Join(l) = Join(l)
    BY <1>3, Zenon DEF Abstract!Mirror, Mirror, Abstract!Join, Join
  <2> QED BY <2>1 DEF Abstract!SetCloning
<1> QED BY <1>4, <1>5, <1>6, <1>7

\* Whatever is turned on and off, mirrored, joined and made the primary, mirrored
\* groups stay disjoint and not empty, and there is a primary, one of the monitors
\* that are on, whenever one is.
THEOREM LayoutsStayLayouts == Abstract!Spec => []StaysLayout
<1>1. Abstract!Init => StaysLayout
  BY DEF Abstract!Init, StaysLayout
<1>2. StaysLayout /\ [Abstract!Next]_layout => StaysLayout'
  <2> SUFFICES ASSUME layout \in Abstract!Layouts, [Abstract!Next]_layout
               PROVE  layout' \in Abstract!Layouts
    BY DEF StaysLayout
  <2>1. ASSUME NEW m \in layout.monitors, NEW active \in BOOLEAN,
               layout' = Abstract!SetActive(layout, m, active)
        PROVE  layout' \in Abstract!Layouts
    BY <2>1, SameOperations, ActivateIsLayout, DeactivateIsLayout DEF SetActive
  <2>2. ASSUME NEW m \in layout.monitors, layout' = Abstract!SetPrimary(layout, m)
        PROVE  layout' \in Abstract!Layouts
    BY <2>2, SameOperations, SetPrimaryIsLayout
  <2>3. ASSUME NEW clone \in BOOLEAN, layout' = Abstract!SetCloning(layout, clone)
        PROVE  layout' \in Abstract!Layouts
    BY <2>3, SameOperations, MirrorIsLayout, JoinIsLayout
  <2>4. CASE UNCHANGED layout
    BY <2>4
  <2>5. CASE Abstract!Next
    <3>1. CASE \E m \in layout.monitors :
                    \E active \in BOOLEAN : layout' = Abstract!SetActive(layout, m, active)
      BY <3>1, <2>1
    <3>2. CASE \E m \in layout.monitors : layout' = Abstract!SetPrimary(layout, m)
      BY <3>2, <2>2
    <3>3. CASE \E clone \in BOOLEAN : layout' = Abstract!SetCloning(layout, clone)
      BY <3>3, <2>3
    <3> QED BY <2>5, <3>1, <3>2, <3>3, Zenon DEF Abstract!Next
  <2> QED BY <2>4, <2>5
<1> QED BY <1>1, <1>2, PTL DEF Abstract!Spec
==============================================================================
