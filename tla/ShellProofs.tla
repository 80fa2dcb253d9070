------------------------------ MODULE ShellProofs ------------------------------
(***************************************************************************)
(* Proofs about the shell: the window with its sidebar, and at the end the *)
(* storage of the proxies that its panels share.                           *)
(*                                                                         *)
(* The window is proved correct for every number of panels and histories   *)
(* of any length.  What holds of the types, the rows, the views, the saved *)
(* configuration and a panel that hides holds for every table of panels;   *)
(* the rest as long as no panel is ever hidden altogether.  Of the panels  *)
(* of the control center only wifi and wacom change their visibility, and  *)
(* they stay visible in search.                                            *)
(*                                                                         *)
(* The operators of CcWindow call each other as the functions do, so that  *)
(* the proof has one lemma per function, which states what holds when it   *)
(* is called and what holds when it returns.                               *)
(***************************************************************************)
EXTENDS CcWindow, CcObjectStorage, WellFoundedInduction, TLAPS

NeverHidden == \A p \in Panels : "hidden" \notin VisibilityOf[p]

(* What holds of a shell state s at every call; the visibilities are vis, and
   the row of the panel x may have been shown or left behind meanwhile. *)
Apart(h) == \A i \in 1..Len(h) - 1 : h[i] # h[i + 1]
HeadDiffers(s) == ~s.single /\ s.history # <<>> => Head(s.history) # s.current
FirstIsFirst(s) == s.current = NoPanel => s.history = <<>>
Saved(s) == s.config /\ s.current # NoPanel => s.last = s.current
FromMain(s) == s.view = "search" => s.previous = "main"
Listed(s) == ~s.single => s.listed = s.current
Unselected(s) == s.collapsed => s.selected = NoPanel
Rows(s, vis, x) ==
    \A q \in Panels :
        /\ vis[q] = "visible" => s.row[q]
        /\ s.row[q] /\ vis[q] # "visible" => q \in {s.listed, x}

\* All of it but for what the history has to do with the panel on display
Calling(s, vis, x) ==
    /\ s \in ShellState
    /\ Apart(s.history) /\ FirstIsFirst(s)
    /\ Saved(s) /\ ~s.cancelled /\ FromMain(s)
    /\ Listed(s) /\ Unselected(s) /\ Rows(s, vis, x)

Consistent(s, vis, x) == Calling(s, vis, x) /\ HeadDiffers(s)

LEMMA PanelsAreNumbers ==
    /\ NoPanel \notin Panels /\ Unknown \notin Panels
    /\ \A p \in Panels : RowBelow(p) \in Panels \cup {NoPanel} /\ RowBelow(p) # p
  BY NPanelsAssumption DEF NoPanel, Unknown, Panels, RowBelow

------------------------------------------------------------------------------
(* The functions that change the record *)

\* The fields the invariants speak of, those of the window and of the sidebar
SameWindow(t, s) ==
    /\ t.current = s.current /\ t.cancelled = s.cancelled /\ t.history = s.history
    /\ t.single = s.single /\ t.config = s.config /\ t.last = s.last
SameViews(t, s) == t.view = s.view /\ t.previous = s.previous
SameRows(t, s) == t.listed = s.listed /\ t.collapsed = s.collapsed /\ t.row = s.row

\* Single panel mode is kept, and in it the sidebar's own panel is.
SameMode(t, s) == t.single = s.single /\ (s.single => t.listed = s.listed)

\* The selected row after Select, the rows after Reveal, the queue and the
\* configuration after Load
Chosen(s, p) == IF s.collapsed THEN s.selected ELSE p
Written(s, p) == IF s.config THEN p ELSE s.last
Revealed(s, vis, p) ==
    [q \in Panels |-> \/ q = p
                      \/ IF q = s.listed THEN vis[q] = "visible" ELSE s.row[q]]
Pushed(s, remember) ==
    IF remember /\ ~s.single /\ s.current # NoPanel
    THEN <<s.current>> \o s.history ELSE s.history

\* The queue when the window is to display p
HistoryAt(s, p, remember) ==
    IF p = s.current THEN s.history ELSE Pushed(s, remember)

\* How a call navigates: it stays, it goes to p, or it goes to p by way of another
\* panel.
Stayed(t, s) == t.current = s.current /\ t.history = s.history /\ t.single = s.single
Went(t, s, p) ==
    /\ t.current = p /\ t.single = s.single
    /\ t.history = HistoryAt(s, p, TRUE)
Walked(t, s, p) ==
    \/ Went(t, s, p)
    \/ \E f \in Panels : \E u : Went(u, s, f) /\ Went(t, u, p)

LEMMA SelectFields ==
    ASSUME NEW s \in ShellState, NEW p \in Panels
    PROVE  LET t == Select(s, p) IN
           /\ t \in ShellState
           /\ SameWindow(t, s) /\ SameViews(t, s) /\ SameRows(t, s)
           /\ t.selected = Chosen(s, p)
           /\ t.autoselect = s.autoselect
  BY DEF Select, ShellState, SameWindow, SameViews, SameRows, Chosen

LEMMA ShowSameFields ==
    ASSUME NEW s \in ShellState, NEW force \in BOOLEAN
    PROVE  LET t == ShowSame(s, force) IN
           /\ t \in ShellState
           /\ SameWindow(t, s) /\ SameViews(t, s) /\ SameRows(t, s)
           /\ t.selected = s.selected /\ t.autoselect = s.autoselect
  BY DEF ShowSame, ShellState, SameWindow, SameViews, SameRows

LEMMA LoadFields ==
    ASSUME NEW s \in ShellState, NEW p \in Panels,
           NEW remember \in BOOLEAN, NEW force \in BOOLEAN
    PROVE  LET t == Load(s, p, remember, force) IN
           /\ t \in ShellState
           /\ t.current = p /\ ~t.cancelled
           /\ t.history = Pushed(s, remember)
           /\ t.last = Written(s, p)
           /\ t.single = s.single /\ t.config = s.config
           /\ SameViews(t, s) /\ SameRows(t, s)
           /\ t.selected = s.selected /\ t.autoselect = s.autoselect
  <1> DEFINE h == Pushed(s, remember)
  <1>1. s.current \in Panels \cup {NoPanel} /\ s.history \in Seq(Panels)
    BY DEF ShellState
  <1>2. h \in Seq(Panels)
    BY <1>1 DEF Pushed
  <1> HIDE DEF h
  <1>3. Load(s, p, remember, force) =
            [s EXCEPT !.current = p, !.cancelled = FALSE, !.history = h,
                      !.content = @ \/ force, !.last = IF s.config THEN p ELSE @]
    BY DEF Load, Pushed, h, ShellState
  <1>4. /\ [s EXCEPT !.current = p, !.cancelled = FALSE, !.history = h,
                     !.content = @ \/ force, !.last = IF s.config THEN p ELSE @]
           \in ShellState
    BY <1>2, ZenonT(40) DEF ShellState
  <1>5. Load(s, p, remember, force).history = h
    BY <1>3 DEF ShellState
  <1> QED
    BY <1>3, <1>4, <1>5 DEF ShellState, SameViews, SameRows, h, Written

LEMMA RevealFields ==
    ASSUME NEW s \in ShellState, NEW vis, NEW p \in Panels
    PROVE  LET t == Reveal(s, vis, p) IN
           /\ t \in ShellState
           /\ SameWindow(t, s) /\ SameViews(t, s)
           /\ t.listed = s.listed /\ t.collapsed = s.collapsed
           /\ t.row = Revealed(s, vis, p)
           /\ t.selected = Chosen(s, p)
           /\ ~t.autoselect
  <1> DEFINE r == Revealed(s, vis, p)
             u == [s EXCEPT !.row = r, !.autoselect = FALSE]
  <1>1. r \in [Panels -> BOOLEAN]
    BY DEF ShellState, Revealed
  <1> HIDE DEF r
  <1>2. /\ u \in ShellState /\ u.row = r /\ u.autoselect = FALSE
        /\ SameWindow(u, s) /\ SameViews(u, s)
        /\ u.listed = s.listed /\ u.collapsed = s.collapsed /\ u.selected = s.selected
    BY <1>1 DEF ShellState, SameWindow, SameViews
  <1>3. Reveal(s, vis, p) = Select(u, p)
    BY DEF Reveal, Revealed, r
  <1> HIDE DEF u
  <1>4. LET t == Select(u, p) IN
           /\ t \in ShellState
           /\ SameWindow(t, u) /\ SameViews(t, u) /\ SameRows(t, u)
           /\ t.selected = Chosen(u, p)
           /\ t.autoselect = u.autoselect
    BY <1>2, SelectFields
  <1> QED
    BY <1>2, <1>3, <1>4 DEF SameWindow, SameViews, SameRows, Chosen, r

LEMMA SwitchViewFields ==
    ASSUME NEW s \in ShellState, NEW view \in {"main", "search"}
    PROVE  LET t == SwitchView(s, view) IN
           /\ t \in ShellState
           /\ SameWindow(t, s) /\ SameRows(t, s)
           /\ t.view = view
           /\ t.previous = IF s.view = view THEN s.previous ELSE s.view
           /\ t.selected = s.selected /\ t.autoselect = s.autoselect
  <1>1. CASE s.view = view
    BY <1>1 DEF SwitchView, SameWindow, SameRows
  <1>2. CASE s.view # view
    BY <1>2 DEF SwitchView, ShellState, SameWindow, SameRows
  <1> QED
    BY <1>1, <1>2

LEMMA SetSelectionModeFields ==
    ASSUME NEW s \in ShellState, NEW none \in BOOLEAN
    PROVE  LET t == SetSelectionMode(s, none) IN
           /\ t \in ShellState
           /\ SameWindow(t, s) /\ SameViews(t, s)
           /\ t.listed = s.listed /\ t.row = s.row
           /\ t.collapsed = none
           /\ t.selected = IF none THEN NoPanel ELSE s.listed
  BY DEF SetSelectionMode, ShellState, SameWindow, SameViews

\* The assignments that follow a nested call
LEMMA FlagFields ==
    ASSUME NEW s \in ShellState, NEW b \in BOOLEAN
    PROVE  LET t == [s EXCEPT !.autoselect = b] IN
           /\ t \in ShellState /\ t.autoselect = b
           /\ SameWindow(t, s) /\ SameViews(t, s) /\ SameRows(t, s)
           /\ t.selected = s.selected
  BY DEF ShellState, SameWindow, SameViews, SameRows

LEMMA ListedFields ==
    ASSUME NEW s \in ShellState, NEW p \in Panels
    PROVE  LET t == [s EXCEPT !.listed = p] IN
           /\ t \in ShellState /\ t.listed = p
           /\ SameWindow(t, s) /\ SameViews(t, s)
           /\ t.collapsed = s.collapsed /\ t.row = s.row
           /\ t.selected = s.selected
  BY DEF ShellState, SameWindow, SameViews

LEMMA RowFields ==
    ASSUME NEW s \in ShellState, NEW p \in Panels, NEW b \in BOOLEAN
    PROVE  LET t == [s EXCEPT !.row[p] = b] IN
           /\ t \in ShellState
           /\ SameWindow(t, s) /\ SameViews(t, s)
           /\ t.listed = s.listed /\ t.collapsed = s.collapsed
           /\ t.selected = s.selected
           /\ t.row[p] = b
           /\ \A q \in Panels \ {p} : t.row[q] = s.row[q]
  <1> DEFINE r == [s.row EXCEPT ![p] = b]
             v == [s EXCEPT !.row = r]
  <1>1. s.row \in [Panels -> BOOLEAN] /\ [s EXCEPT !.row[p] = b] = v
    BY DEF ShellState
  <1>2. /\ r \in [Panels -> BOOLEAN] /\ r[p] = b
        /\ \A q \in Panels \ {p} : r[q] = s.row[q]
    BY <1>1
  <1> HIDE DEF r
  <1>3. /\ v \in ShellState
        /\ SameWindow(v, s) /\ SameViews(v, s)
        /\ v.listed = s.listed /\ v.collapsed = s.collapsed
        /\ v.selected = s.selected /\ v.row = r
    BY <1>2 DEF ShellState, SameWindow, SameViews
  <1> HIDE DEF v
  <1> QED
    BY <1>1, <1>2, <1>3

------------------------------------------------------------------------------
(* Switching panels *)

\* Showing the sidebar's rows for p, then switching to the main view and coming
\* back to the window: the end of the sidebar's answer to a loaded panel.
LEMMA SyncListFields ==
    ASSUME NEW s \in ShellState, NEW vis, NEW p \in Panels
    PROVE  LET t == SyncList(s, vis, p) IN
           /\ t \in ShellState
           /\ SameWindow(t, s)
           /\ t.view = "main"
           /\ t.listed = p /\ t.collapsed = s.collapsed
           /\ t.selected = Chosen(s, p)
           /\ t.row = Revealed(s, vis, p)
  <1> DEFINE a == Reveal(s, vis, p)
             b == SwitchView(a, "main")
             c == ShowSame(b, FALSE)
             d == [c EXCEPT !.autoselect = TRUE]
             e == [d EXCEPT !.listed = p]
  <1>1. SyncList(s, vis, p) = e
    BY DEF SyncList, ShellState
  <1>2. /\ a \in ShellState /\ SameWindow(a, s)
        /\ a.collapsed = s.collapsed
        /\ a.row = Revealed(s, vis, p)
        /\ a.selected = Chosen(s, p)
    BY RevealFields
  <1> HIDE DEF a
  <1>3. /\ b \in ShellState /\ SameWindow(b, a) /\ SameRows(b, a)
        /\ b.view = "main" /\ b.selected = a.selected
    BY <1>2, SwitchViewFields
  <1> HIDE DEF b
  <1>4. /\ c \in ShellState /\ SameWindow(c, b) /\ SameViews(c, b) /\ SameRows(c, b)
        /\ c.selected = b.selected
    BY <1>3, ShowSameFields
  <1> HIDE DEF c
  <1>5. /\ d \in ShellState /\ SameWindow(d, c) /\ SameViews(d, c) /\ SameRows(d, c)
        /\ d.selected = c.selected
    BY <1>4, FlagFields
  <1> HIDE DEF d
  <1>6. /\ e \in ShellState /\ e.listed = p /\ SameWindow(e, d) /\ SameViews(e, d)
        /\ e.collapsed = d.collapsed /\ e.row = d.row /\ e.selected = d.selected
    BY <1>5, ListedFields
  <1> HIDE DEF e
  <1> QED
    BY <1>1, <1>2, <1>3, <1>4, <1>5, <1>6 DEF SameWindow, SameViews, SameRows

\* The queue grows at its head by a panel that differs from the old head.
LEMMA ApartAfterPush ==
    ASSUME NEW h \in Seq(Panels), NEW c \in Panels,
           Apart(h), h # <<>> => Head(h) # c
    PROVE  Apart(<<c>> \o h)
  <1> DEFINE g == <<c>> \o h
  <1>1. /\ g \in Seq(Panels) /\ Len(g) = Len(h) + 1
        /\ \A i \in 1..Len(g) : g[i] = IF i = 1 THEN c ELSE h[i - 1]
    OBVIOUS
  <1>2. Len(h) \in Nat /\ (Len(h) > 0 => h # <<>> /\ Head(h) = h[1])
    OBVIOUS
  <1> HIDE DEF g
  <1>3. SUFFICES ASSUME NEW i \in 1..Len(g) - 1 PROVE g[i] # g[i + 1]
    BY DEF Apart, g
  <1>4. g[i + 1] = h[i]
    BY <1>1, <1>2
  <1>5. CASE i = 1
    BY <1>1, <1>2, <1>4, <1>5
  <1>6. CASE i # 1
    <2>1. g[i] = h[i - 1] /\ i - 1 \in 1..Len(h) - 1
      BY <1>1, <1>2, <1>6
    <2> QED
      BY <2>1, <1>4 DEF Apart
  <1> QED
    BY <1>5, <1>6

LEMMA ApartAfterPop ==
    ASSUME NEW h \in Seq(Panels), h # <<>>, Apart(h)
    PROVE  /\ Tail(h) \in Seq(Panels) /\ Head(h) \in Panels
           /\ Apart(Tail(h))
           /\ Tail(h) # <<>> => Head(Tail(h)) # Head(h)
  <1>1. /\ Tail(h) \in Seq(Panels) /\ Head(h) = h[1] /\ Len(h) \in Nat \ {0}
        /\ Len(Tail(h)) = Len(h) - 1
        /\ \A i \in 1..Len(Tail(h)) : Tail(h)[i] = h[i + 1]
    OBVIOUS
  <1>2. h[1] \in Panels
    BY <1>1
  <1>3. Apart(Tail(h))
    BY <1>1 DEF Apart
  <1>4. ASSUME Tail(h) # <<>> PROVE Head(Tail(h)) # Head(h)
    <2>1. Len(Tail(h)) > 0 /\ Head(Tail(h)) = Tail(h)[1]
      BY <1>1, <1>4
    <2>2. Head(Tail(h)) = h[2] /\ 1 \in 1..Len(h) - 1
      BY <2>1, <1>1
    <2> QED
      BY <2>2, <1>1 DEF Apart
  <1> QED
    BY <1>1, <1>2, <1>3, <1>4

\* A new panel object has replaced the old one.
LEMMA LoadHolds ==
    ASSUME NEW s, NEW vis, NEW x, NEW p \in Panels,
           NEW remember \in BOOLEAN, NEW force \in BOOLEAN,
           Calling(s, vis, x), p # s.current,
           remember => HeadDiffers(s),
           ~remember /\ ~s.single /\ s.history # <<>> => Head(s.history) # p
    PROVE  LET t == Load(s, p, remember, force) IN
           /\ t \in ShellState /\ t.current = p /\ ~t.cancelled
           /\ Apart(t.history) /\ HeadDiffers(t) /\ Saved(t)
           /\ t.history = Pushed(s, remember)
           /\ t.single = s.single /\ SameViews(t, s) /\ SameRows(t, s)
           /\ t.selected = s.selected
  <1> DEFINE t == Load(s, p, remember, force)
  <1>1. s \in ShellState
    BY DEF Calling
  <1>2. /\ t \in ShellState
        /\ t.current = p /\ ~t.cancelled
        /\ t.history = Pushed(s, remember)
        /\ t.last = Written(s, p)
        /\ t.single = s.single /\ t.config = s.config
        /\ SameViews(t, s) /\ SameRows(t, s)
        /\ t.selected = s.selected
    BY <1>1, LoadFields
  <1> HIDE DEF t
  <1>3. Saved(t)
    BY <1>2 DEF Saved, Written
  <1>4. CASE remember /\ ~s.single /\ s.current # NoPanel
    <2>1. s.current \in Panels /\ s.history \in Seq(Panels)
      BY <1>1, <1>4 DEF ShellState
    <2>2. Apart(t.history)
      BY <2>1, <1>2, <1>4, ApartAfterPush DEF Calling, HeadDiffers, Pushed
    <2>3. Head(t.history) = s.current
      BY <2>1, <1>2, <1>4 DEF Pushed
    <2> QED
      BY <1>2, <1>3, <2>2, <2>3 DEF t, HeadDiffers
  <1>5. CASE ~(remember /\ ~s.single /\ s.current # NoPanel)
    <2>1. t.history = s.history
      BY <1>2, <1>5 DEF Pushed
    <2>2. HeadDiffers(t)
      BY <2>1, <1>2, <1>5 DEF HeadDiffers, Calling, FirstIsFirst
    <2> QED
      BY <1>2, <1>3, <2>1, <2>2 DEF t, Calling
  <1> QED
    BY <1>4, <1>5

\* The sidebar has answered: its row, its view and its own id are the panel's.
LEMMA SyncListHolds ==
    ASSUME NEW s, NEW vis, NEW x, NEW p \in Panels,
           s \in ShellState, s.current = p, ~s.cancelled, ~s.single,
           Apart(s.history), HeadDiffers(s), Saved(s),
           Unselected(s), Rows(s, vis, x)
    PROVE  LET t == SyncList(s, vis, p) IN
           /\ Consistent(t, vis, x) /\ t.current = p /\ ~t.single
           /\ t.history = s.history
  <1> DEFINE t == SyncList(s, vis, p)
  <1>1. /\ t \in ShellState /\ SameWindow(t, s)
        /\ t.view = "main"
        /\ t.listed = p /\ t.collapsed = s.collapsed
        /\ t.selected = Chosen(s, p)
        /\ t.row = Revealed(s, vis, p)
    BY SyncListFields
  <1> HIDE DEF t
  <1>2. t.current = p /\ ~t.single /\ ~t.cancelled /\ Apart(t.history)
    BY <1>1 DEF SameWindow
  <1>3. HeadDiffers(t) /\ Saved(t) /\ FirstIsFirst(t) /\ FromMain(t) /\ Listed(t)
    BY <1>1, <1>2, PanelsAreNumbers
    DEF SameWindow, HeadDiffers, Saved, FirstIsFirst, FromMain, Listed
  <1>4. Unselected(t)
    BY <1>1 DEF Unselected, Chosen
  <1>5. Rows(t, vis, x)
    <2>1. \A q \in Panels : s.row[q] \in BOOLEAN
      BY DEF ShellState
    <2> QED
      BY <2>1, <1>1 DEF Rows, Revealed
  <1> QED
    BY <1>1, <1>2, <1>3, <1>4, <1>5 DEF t, Consistent, Calling, SameWindow

\* Only what the window displays has changed.
LEMMA SameHolds ==
    ASSUME NEW s, NEW t \in ShellState, NEW vis, NEW x,
           SameWindow(t, s), SameViews(t, s), SameRows(t, s), t.selected = s.selected
    PROVE  /\ Calling(s, vis, x) => Calling(t, vis, x)
           /\ HeadDiffers(s) => HeadDiffers(t)
           /\ Consistent(s, vis, x) => Consistent(t, vis, x)
  BY DEF SameWindow, SameViews, SameRows, Calling, HeadDiffers, Consistent,
         FirstIsFirst, Saved, FromMain, Listed, Unselected, Rows

\* set_active_panel_from_id for a panel of the model
LEMMA SetActiveHolds ==
    ASSUME NEW s, NEW vis, NEW x, NEW p \in Panels,
           NEW remember \in BOOLEAN, NEW force \in BOOLEAN,
           Calling(s, vis, x), vis[p] # "hidden",
           \/ HeadDiffers(s) /\ (remember \/ p = s.current)
           \/ ~remember /\ (s.history # <<>> => Head(s.history) # p)
    PROVE  LET t == SetActive(s, vis, p, remember, force) IN
           /\ Consistent(t, vis, x) /\ t.current = p /\ SameMode(t, s)
           /\ t.history = HistoryAt(s, p, remember)
  <1> DEFINE t == SetActive(s, vis, p, remember, force)
  <1>1. s \in ShellState
    BY DEF Calling
  <1>2. CASE p = s.current
    <2>1. t = ShowSame(s, force)
      BY <1>2 DEF SetActive
    <2>2. /\ t \in ShellState
          /\ SameWindow(t, s) /\ SameViews(t, s) /\ SameRows(t, s)
          /\ t.selected = s.selected
      BY <2>1, <1>1, ShowSameFields
    <2> HIDE DEF t
    <2>3. Consistent(s, vis, x)
      BY <1>2 DEF Consistent, HeadDiffers
    <2>4. Consistent(t, vis, x)
      BY <2>2, <2>3, SameHolds
    <2> QED
      BY <2>2, <2>4, <1>2 DEF SameWindow, SameRows, SameMode, HistoryAt, t
  <1>3. CASE p # s.current
    <2> DEFINE u == Load(s, p, remember, force)
    <2>1. t = IF u.single THEN u ELSE SyncList(u, vis, p)
      BY <1>3 DEF SetActive
    <2>2. /\ u \in ShellState /\ u.current = p /\ ~u.cancelled
          /\ Apart(u.history) /\ HeadDiffers(u) /\ Saved(u)
          /\ u.history = Pushed(s, remember)
          /\ u.single = s.single /\ SameViews(u, s) /\ SameRows(u, s)
          /\ u.selected = s.selected
      BY <1>3, LoadHolds
    <2> HIDE DEF u, t
    <2>3. Unselected(u) /\ Rows(u, vis, x) /\ FromMain(u)
      BY <2>2 DEF SameRows, SameViews, Unselected, Rows, FromMain, Calling
    <2>4. CASE u.single
      <3>1. Consistent(u, vis, x)
        BY <2>2, <2>3, <2>4, PanelsAreNumbers
        DEF Consistent, Calling, FirstIsFirst, Listed
      <3> QED
        BY <3>1, <2>1, <2>2, <2>4, <1>3 DEF SameRows, SameMode, HistoryAt, t
    <2>5. CASE ~u.single
      <3>1. LET v == SyncList(u, vis, p) IN
            /\ Consistent(v, vis, x) /\ v.current = p /\ ~v.single
            /\ v.history = u.history
        BY <2>2, <2>3, <2>5, SyncListHolds
      <3>2. s.single \in BOOLEAN /\ t.single = FALSE
        BY <3>1, <2>1, <2>5, <1>1 DEF ShellState, Consistent, Calling
      <3> QED
        BY <3>1, <3>2, <2>1, <2>2, <2>5, <1>3 DEF SameMode, HistoryAt, t
    <2> QED
      BY <2>4, <2>5
  <1> QED
    BY <1>2, <1>3

------------------------------------------------------------------------------
(* Activating rows *)

Reachable(vis) == \A p \in Panels : vis[p] # "hidden"

LEMMA SelectHolds ==
    ASSUME NEW s, NEW vis, NEW x, NEW p \in Panels, Consistent(s, vis, x)
    PROVE  LET t == Select(s, p) IN
           /\ Consistent(t, vis, x)
           /\ SameMode(t, s) /\ Stayed(t, s) /\ t.autoselect = s.autoselect
  <1> DEFINE t == Select(s, p)
  <1>1. s \in ShellState
    BY DEF Consistent, Calling
  <1>2. /\ t \in ShellState
        /\ SameWindow(t, s) /\ SameViews(t, s) /\ SameRows(t, s)
        /\ t.selected = Chosen(s, p)
        /\ t.autoselect = s.autoselect
    BY <1>1, SelectFields
  <1> HIDE DEF t
  <1>3. Unselected(t)
    BY <1>2 DEF Consistent, Calling, Unselected, Chosen, SameRows
  <1>4. Rows(t, vis, x) /\ Listed(t) /\ FromMain(t)
    BY <1>2 DEF Consistent, Calling, Rows, Listed, FromMain, SameRows, SameViews, SameWindow
  <1>5. /\ Apart(t.history) /\ FirstIsFirst(t) /\ Saved(t) /\ ~t.cancelled
        /\ HeadDiffers(t)
    BY <1>2 DEF Consistent, Calling, FirstIsFirst, Saved, HeadDiffers, SameWindow
  <1> QED
    BY <1>2, <1>3, <1>4, <1>5 DEF t, Consistent, Calling, SameWindow, SameRows, SameMode, Stayed

\* The arrow keys select any row that shows, or none.
LEMMA CursorHolds ==
    ASSUME NEW s, NEW vis, NEW x, NEW p \in Panels \cup {NoPanel}, Consistent(s, vis, x)
    PROVE  LET t == Select(s, p) IN Consistent(t, vis, x) /\ SameWindow(t, s)
  <1> DEFINE t == Select(s, p)
  <1>1. /\ t \in ShellState
        /\ SameWindow(t, s) /\ SameViews(t, s) /\ SameRows(t, s)
        /\ t.selected = Chosen(s, p)
    BY DEF Select, Consistent, Calling, ShellState, SameWindow, SameViews, SameRows, Chosen
  <1> HIDE DEF t
  <1>2. Unselected(t) /\ Rows(t, vis, x) /\ Listed(t) /\ FromMain(t)
    BY <1>1 DEF Consistent, Calling, Unselected, Chosen, Rows, Listed, FromMain, SameRows,
                SameViews, SameWindow
  <1>3. /\ Apart(t.history) /\ FirstIsFirst(t) /\ Saved(t) /\ ~t.cancelled
        /\ HeadDiffers(t)
    BY <1>1 DEF Consistent, Calling, FirstIsFirst, Saved, HeadDiffers, SameWindow
  <1> QED
    BY <1>1, <1>2, <1>3 DEF t, Consistent, Calling

LEMMA FlagHolds ==
    ASSUME NEW s, NEW vis, NEW x, NEW b \in BOOLEAN, s \in ShellState
    PROVE  LET t == [s EXCEPT !.autoselect = b] IN
           /\ t \in ShellState /\ t.autoselect = b
           /\ Consistent(s, vis, x) => Consistent(t, vis, x)
           /\ SameMode(t, s) /\ Stayed(t, s) /\ t.selected = s.selected
  <1> DEFINE t == [s EXCEPT !.autoselect = b]
  <1>1. /\ t \in ShellState /\ t.autoselect = b
        /\ SameWindow(t, s) /\ SameViews(t, s) /\ SameRows(t, s)
        /\ t.selected = s.selected
    BY FlagFields
  <1> HIDE DEF t
  <1>2. /\ Calling(s, vis, x) => Calling(t, vis, x)
        /\ HeadDiffers(s) => HeadDiffers(t)
    BY <1>1, SameHolds
  <1> QED
    BY <1>1, <1>2 DEF t, Consistent, SameWindow, SameRows, SameMode, Stayed

LEMMA ShowPanelHolds ==
    ASSUME NEW s, NEW vis, NEW x, NEW p \in Panels,
           Consistent(s, vis, x), Reachable(vis)
    PROVE  LET t == ShowPanel(s, vis, p) IN
           Consistent(t, vis, x) /\ SameMode(t, s) /\ Went(t, s, p)
  <1> DEFINE u == SetActive(s, vis, p, TRUE, FALSE)
  <1>1. /\ Consistent(u, vis, x) /\ u.current = p /\ SameMode(u, s)
        /\ u.history = HistoryAt(s, p, TRUE)
    <2>1. Calling(s, vis, x) /\ HeadDiffers(s) /\ vis[p] # "hidden"
      BY DEF Consistent, Reachable
    <2> QED
      BY <2>1, SetActiveHolds, ZenonT(40)
  <1> HIDE DEF u
  <1>2. ShowPanel(s, vis, p) = [u EXCEPT !.autoselect = TRUE]
    BY DEF ShowPanel, u
  <1>3. u \in ShellState
    BY <1>1 DEF Consistent, Calling
  <1> DEFINE t == [u EXCEPT !.autoselect = TRUE]
  <1>4. /\ Consistent(u, vis, x) => Consistent(t, vis, x)
        /\ SameMode(t, u) /\ Stayed(t, u)
    BY <1>3, FlagHolds
  <1> QED
    BY <1>1, <1>2, <1>4 DEF SameMode, Stayed, Went

\* Panels are numbers, so that the rows shown have a first one.
LEMMA FirstRowIsPanel ==
    ASSUME NEW s
    PROVE  FirstRow(s) \in Panels \cup {NoPanel}
  <1> DEFINE S == {p \in Panels : s.row[p]}
  <1>1. CASE \E p \in Panels : s.row[p]
    <2>1. S \subseteq Nat /\ S # {}
      BY <1>1, NPanelsAssumption DEF Panels
    <2>2. \E p \in S : \A q \in S : ~ (<<q, p>> \in OpToRel(<, Nat))
      BY <2>1, NatLessThanWellFounded, WFMin
    <2>3. \A p, q \in Nat : ~ (<<q, p>> \in OpToRel(<, Nat)) => p <= q
      BY DEF OpToRel
    <2>4. \E p \in S : \A q \in S : p <= q
      BY <2>1, <2>2, <2>3
    <2>5. \E p \in Panels : s.row[p] /\ \A q \in Panels : s.row[q] => p <= q
      BY <2>4
    <2> QED
      BY <1>1, <2>5 DEF FirstRow
  <1>2. CASE ~ \E p \in Panels : s.row[p]
    BY <1>2 DEF FirstRow
  <1> QED
    BY <1>1, <1>2

LEMMA ActivateFirstHolds ==
    ASSUME NEW s, NEW vis, NEW x, Consistent(s, vis, x), Reachable(vis)
    PROVE  LET t == ActivateFirst(s, vis) IN
           /\ \/ t = s
              \/ Consistent(t, vis, x) /\ \E f \in Panels : Went(t, s, f)
           /\ SameMode(t, s)
  <1> DEFINE p == FirstRow(s)
             u == Select(s, p)
             t == ShowPanel(u, vis, p)
  <1>1. p \in Panels \cup {NoPanel}
    BY FirstRowIsPanel
  <1>2. CASE p = NoPanel
    BY <1>2 DEF ActivateFirst, SameMode
  <1>3. CASE p # NoPanel
    <2>1. p \in Panels /\ ActivateFirst(s, vis) = t
      BY <1>1, <1>3 DEF ActivateFirst
    <2> HIDE DEF p
    <2>2. Consistent(u, vis, x) /\ SameMode(u, s) /\ Stayed(u, s)
      BY <2>1, SelectHolds
    <2> HIDE DEF u
    <2>3. Consistent(t, vis, x) /\ SameMode(t, u) /\ Went(t, u, p)
      BY <2>1, <2>2, ShowPanelHolds
    <2>4. Went(t, s, p)
      BY <2>2, <2>3 DEF Went, Stayed, Pushed, HistoryAt
    <2> QED
      BY <2>1, <2>2, <2>3, <2>4 DEF SameMode
  <1> QED
    BY <1>2, <1>3

LEMMA SwitchViewHolds ==
    ASSUME NEW s, NEW vis, NEW x, NEW view \in {"main", "search"},
           s \in ShellState, view = "search" => s.view = "main"
    PROVE  LET t == SwitchView(s, view) IN
           /\ Consistent(s, vis, x) => Consistent(t, vis, x)
           /\ SameMode(t, s) /\ Stayed(t, s)
  <1> DEFINE t == SwitchView(s, view)
  <1>1. /\ t \in ShellState
        /\ SameWindow(t, s) /\ SameRows(t, s)
        /\ t.view = view
        /\ t.previous = IF s.view = view THEN s.previous ELSE s.view
        /\ t.selected = s.selected
    BY SwitchViewFields
  <1> HIDE DEF t
  <1>2. FromMain(t)
    BY <1>1 DEF FromMain
  <1>3. ASSUME Consistent(s, vis, x) PROVE Consistent(t, vis, x)
    <2>1. Unselected(t) /\ Rows(t, vis, x) /\ Listed(t)
      BY <1>1, <1>3 DEF Consistent, Calling, Unselected, Rows, Listed, SameRows, SameWindow
    <2>2. /\ Apart(t.history) /\ FirstIsFirst(t) /\ Saved(t) /\ ~t.cancelled
          /\ HeadDiffers(t)
      BY <1>1, <1>3 DEF Consistent, Calling, FirstIsFirst, Saved, HeadDiffers, SameWindow
    <2> QED
      BY <1>1, <1>2, <2>1, <2>2 DEF Consistent, Calling
  <1> QED
    BY <1>1, <1>3 DEF SameWindow, SameRows, SameMode, Stayed, t

LEMMA GoToMainHolds ==
    ASSUME NEW s, NEW vis, NEW x, Consistent(s, vis, x), Reachable(vis)
    PROVE  LET t == GoToMain(s, vis) IN
           /\ Consistent(t, vis, x) /\ SameMode(t, s)
           /\ Stayed(t, s) \/ \E f \in Panels : Went(t, s, f)
  <1> DEFINE u == SwitchView(s, "main")
             t == ActivateFirst(u, vis)
  <1>1. s \in ShellState
    BY DEF Consistent, Calling
  <1>2. /\ Consistent(u, vis, x)
        /\ SameMode(u, s) /\ Stayed(u, s)
    BY <1>1, SwitchViewHolds
  <1> HIDE DEF u
  <1>3. CASE s.view = "search" /\ s.autoselect
    <2>1. GoToMain(s, vis) = t
      BY <1>3 DEF GoToMain, u
    <2>2. /\ \/ t = u
             \/ Consistent(t, vis, x) /\ \E f \in Panels : Went(t, u, f)
          /\ SameMode(t, u)
      BY <1>2, ActivateFirstHolds
    <2> HIDE DEF t
    <2>3. \A f \in Panels : Went(t, u, f) => Went(t, s, f)
      BY <1>2 DEF Went, Stayed, Pushed, HistoryAt
    <2> QED
      BY <2>1, <2>2, <2>3, <1>2 DEF Consistent, SameMode
  <1>4. CASE ~(s.view = "search" /\ s.autoselect)
    <2>1. GoToMain(s, vis) = u
      BY <1>4 DEF GoToMain, u
    <2> QED
      BY <2>1, <1>2
  <1> QED
    BY <1>3, <1>4

\* What matters is where the walk starts and ends.
LEMMA WalkedFrom ==
    ASSUME NEW s, NEW v, NEW t, NEW p, Stayed(v, s), Walked(t, v, p)
    PROVE  Walked(t, s, p)
  <1>1. \A u, f : Went(u, v, f) => Went(u, s, f)
    BY DEF Went, Stayed, Pushed, HistoryAt
  <1> QED
    BY <1>1 DEF Walked

LEMMA ActivateRowHolds ==
    ASSUME NEW s, NEW vis, NEW x, NEW p \in Panels,
           Consistent(s, vis, x), Reachable(vis)
    PROVE  LET t == ActivateRow(s, vis, p) IN
           Consistent(t, vis, x) /\ SameMode(t, s) /\ Walked(t, s, p)
  <1> DEFINE u == Select(s, p)
             v == GoToMain(u, vis)
             t == ShowPanel(v, vis, p)
  <1>1. Consistent(u, vis, x) /\ SameMode(u, s) /\ Stayed(u, s)
    BY SelectHolds
  <1> HIDE DEF u
  <1>2. /\ Consistent(v, vis, x) /\ SameMode(v, u)
        /\ Stayed(v, u) \/ \E f \in Panels : Went(v, u, f)
    BY <1>1, GoToMainHolds
  <1> HIDE DEF v
  <1>4. Consistent(t, vis, x) /\ SameMode(t, v) /\ Went(t, v, p)
    BY <1>2, ShowPanelHolds
  <1> HIDE DEF t
  <1>5. Walked(t, s, p)
    <2>1. CASE Stayed(v, u)
      BY <2>1, <1>1, <1>4 DEF Walked, Went, Stayed, Pushed, HistoryAt
    <2>2. ASSUME NEW f \in Panels, Went(v, u, f) PROVE Walked(t, s, p)
      <3>1. Went(v, s, f)
        BY <2>2, <1>1 DEF Went, Stayed, Pushed, HistoryAt
      <3> QED
        BY <3>1, <1>4 DEF Walked
    <2> QED
      BY <2>1, <2>2, <1>2
  <1> QED
    BY <1>1, <1>2, <1>4, <1>5 DEF ActivateRow, SameMode, t, u, v

LEMMA ActivateResultHolds ==
    ASSUME NEW s, NEW vis, NEW x, NEW p \in Panels,
           Consistent(s, vis, x), Reachable(vis)
    PROVE  LET t == ActivateResult(s, vis, p) IN
           Consistent(t, vis, x) /\ SameMode(t, s) /\ Walked(t, s, p)
  <1> DEFINE u == Select(s, p)
             v == [u EXCEPT !.autoselect = FALSE]
             t == ActivateRow(v, vis, p)
  <1>1. Consistent(u, vis, x) /\ SameMode(u, s) /\ Stayed(u, s)
    BY SelectHolds
  <1> HIDE DEF u
  <1>2. u \in ShellState
    BY <1>1 DEF Consistent, Calling
  <1>3. Consistent(v, vis, x) /\ SameMode(v, u) /\ Stayed(v, u)
    BY <1>1, <1>2, FlagHolds
  <1> HIDE DEF v
  <1>4. Consistent(t, vis, x) /\ SameMode(t, v) /\ Walked(t, v, p)
    BY <1>3, ActivateRowHolds
  <1> HIDE DEF t
  <1>5. Stayed(v, s)
    BY <1>1, <1>3 DEF Stayed
  <1>6. Walked(t, s, p)
    BY <1>4, <1>5, WalkedFrom
  <1> QED
    BY <1>1, <1>3, <1>4, <1>6 DEF ActivateResult, SameMode, t, u, v

LEMMA ActivateAnyHolds ==
    ASSUME NEW s, NEW vis, NEW x, NEW t \in ActivateAny(s, vis),
           Consistent(s, vis, x), Reachable(vis)
    PROVE  /\ Consistent(t, vis, x)
           /\ t = s \/ \E p \in Panels : Walked(t, s, p)
  <1>2. CASE t = s
    BY <1>2
  <1>3. CASE t = ActivateFirst(s, vis)
    BY <1>3, ActivateFirstHolds DEF Walked
  <1>4. ASSUME NEW p \in Panels, t = ActivateResult(s, vis, p)
        PROVE  Consistent(t, vis, x) /\ Walked(t, s, p)
    BY <1>4, ActivateResultHolds
  <1> QED
    BY <1>2, <1>3, <1>4 DEF ActivateAny

\* cc_panel_list_set_active_panel, called by the idle callback
LEMMA ListSetActiveHolds ==
    ASSUME NEW s, NEW vis, NEW p \in Panels, NEW t \in ListSetActive(s, vis, p),
           Consistent(s, vis, NoPanel), Reachable(vis), s.listed = NoPanel
    PROVE  Consistent(t, vis, NoPanel) /\ Walked(t, s, p)
  <1> DEFINE u == Reveal(s, vis, p)
             v == ActivateRow(u, vis, p)
             w == [v EXCEPT !.listed = p]
  <1>1. s \in ShellState /\ t = w
    BY DEF Consistent, Calling, ListSetActive, Reachable
  <1>2. /\ u \in ShellState
        /\ SameWindow(u, s) /\ SameViews(u, s)
        /\ u.listed = s.listed /\ u.collapsed = s.collapsed
        /\ u.row = Revealed(s, vis, p)
        /\ u.selected = Chosen(s, p)
    BY <1>1, RevealFields
  <1> HIDE DEF u
  <1>3. Consistent(u, vis, p)
    <2>1. Rows(u, vis, p)
      <3>1. \A q \in Panels : s.row[q] \in BOOLEAN
        BY <1>1 DEF ShellState
      <3> QED
        BY <3>1, <1>2, PanelsAreNumbers DEF Consistent, Calling, Rows, Revealed
    <2>2. Unselected(u) /\ Listed(u) /\ FromMain(u)
      BY <1>2 DEF Consistent, Calling, Unselected, Listed, FromMain, Chosen,
                  SameWindow, SameViews
    <2>3. /\ Apart(u.history) /\ FirstIsFirst(u) /\ Saved(u) /\ ~u.cancelled
          /\ HeadDiffers(u)
      BY <1>2 DEF Consistent, Calling, FirstIsFirst, Saved, HeadDiffers, SameWindow
    <2> QED
      BY <1>2, <2>1, <2>2, <2>3 DEF Consistent, Calling
  <1>4. Consistent(v, vis, p) /\ Walked(v, u, p) /\ SameMode(v, u)
    BY <1>3, ActivateRowHolds
  <1> HIDE DEF v
  <1>5. v \in ShellState
    BY <1>4 DEF Consistent, Calling
  <1>6. /\ w \in ShellState /\ w.listed = p
        /\ SameWindow(w, v) /\ SameViews(w, v)
        /\ w.collapsed = v.collapsed /\ w.row = v.row
        /\ w.selected = v.selected
    BY <1>5, ListedFields
  <1> HIDE DEF w
  <1>7. Consistent(w, vis, NoPanel)
    <2>1. Rows(w, vis, NoPanel)
      <3>1. CASE v.single
        BY <3>1, <1>2, <1>4, <1>6, PanelsAreNumbers
        DEF Consistent, Calling, Rows, SameMode
      <3>2. CASE ~v.single
        BY <3>2, <1>4, <1>6 DEF Consistent, Calling, Rows, Listed, Walked, Went
      <3> QED
        BY <3>1, <3>2
    <2>2. Unselected(w) /\ Listed(w) /\ FromMain(w)
      BY <1>4, <1>6 DEF Consistent, Calling, Unselected, Listed, FromMain,
                        SameWindow, SameViews, Walked, Went
    <2>3. /\ Apart(w.history) /\ FirstIsFirst(w) /\ Saved(w) /\ ~w.cancelled
          /\ HeadDiffers(w)
      BY <1>4, <1>6 DEF Consistent, Calling, FirstIsFirst, Saved, HeadDiffers,
                        SameWindow
    <2> QED
      BY <1>6, <2>1, <2>2, <2>3 DEF Consistent, Calling
  <1>9. Stayed(u, s) /\ Stayed(w, v)
    BY <1>2, <1>6 DEF SameWindow, Stayed
  <1>10. Walked(v, s, p)
    BY <1>4, <1>9, WalkedFrom
  <1>11. Walked(w, s, p)
    BY <1>9, <1>10 DEF Walked, Went, Stayed
  <1> QED
    BY <1>1, <1>7, <1>11

\* cc_panel_list_set_panel_visibility: only p's visibility has changed.
LEMMA ListSetVisibilityHolds ==
    ASSUME NEW s, NEW old, NEW vis, NEW p \in Panels,
           Consistent(s, old, NoPanel), Reachable(vis),
           \A q \in Panels \ {p} : vis[q] = old[q]
    PROVE  LET t == ListSetVisibility(s, vis, p) IN
           /\ Consistent(t, vis, NoPanel)
           /\ Stayed(t, s) \/ \E b \in Panels : Walked(t, s, b)
  <1> DEFINE b == RowBelow(p)
             away == s.selected = p /\ vis[p] # "visible" /\ b # NoPanel
             u == ActivateRow(s, vis, b)
             t == IF away THEN u ELSE s
             shown == vis[p] = "visible"
             w == [t EXCEPT !.row[p] = shown]
  <1>1. ListSetVisibility(s, vis, p) = w /\ shown \in BOOLEAN
    BY DEF ListSetVisibility
  <1>2. Consistent(s, old, NoPanel) /\ s \in ShellState
    BY DEF Consistent, Calling
  <1>3. b \in Panels \cup {NoPanel}
    BY PanelsAreNumbers
  <1> HIDE DEF b
  <1> DEFINE Others(r) ==
                \A q \in Panels \ {p} :
                    /\ vis[q] = "visible" => r.row[q]
                    /\ r.row[q] /\ vis[q] # "visible" => q = r.listed
  <1>4. /\ t \in ShellState /\ Others(t)
        /\ Apart(t.history) /\ FirstIsFirst(t) /\ Saved(t) /\ ~t.cancelled
        /\ FromMain(t) /\ Listed(t) /\ Unselected(t) /\ HeadDiffers(t)
        /\ t = s \/ \E c \in Panels : Walked(t, s, c)
    <2>1. CASE away
      <3>1. Consistent(s, vis, p)
        BY <1>2, <2>1, PanelsAreNumbers DEF Consistent, Calling, Rows
      <3>2. Consistent(u, vis, p) /\ b \in Panels /\ Walked(u, s, b)
        BY <1>3, <2>1, <3>1, ActivateRowHolds
      <3> HIDE DEF u
      <3>3. u \in ShellState /\ Others(u)
        BY <3>2 DEF Consistent, Calling, Rows
      <3>4. t = u
        BY <2>1
      <3> QED
        BY <3>2, <3>3, <3>4 DEF Consistent, Calling
    <2>2. CASE ~away
      <3>1. t = s
        BY <2>2
      <3>2. Others(s)
        BY PanelsAreNumbers DEF Consistent, Calling, Rows
      <3> QED
        BY <3>1, <3>2, <1>2 DEF Consistent, Calling
    <2> QED
      BY <2>1, <2>2
  <1> HIDE DEF t, shown
  <1>5. /\ w \in ShellState
        /\ SameWindow(w, t) /\ SameViews(w, t)
        /\ w.listed = t.listed /\ w.collapsed = t.collapsed
        /\ w.selected = t.selected
        /\ w.row[p] = shown
        /\ \A q \in Panels \ {p} : w.row[q] = t.row[q]
    BY <1>1, <1>4, RowFields
  <1> HIDE DEF w
  <1>6. Rows(w, vis, NoPanel)
    BY <1>4, <1>5 DEF Rows, shown
  <1>7. Unselected(w) /\ Listed(w) /\ FromMain(w)
    BY <1>4, <1>5 DEF Unselected, Listed, FromMain, SameWindow, SameViews
  <1>8. /\ Apart(w.history) /\ FirstIsFirst(w) /\ Saved(w) /\ ~w.cancelled
        /\ HeadDiffers(w)
    BY <1>4, <1>5 DEF FirstIsFirst, Saved, HeadDiffers, SameWindow
  <1>10. Stayed(w, s) \/ \E c \in Panels : Walked(w, s, c)
    <2>1. Stayed(w, t)
      BY <1>5 DEF SameWindow, Stayed
    <2>2. \A c : Walked(t, s, c) => Walked(w, s, c)
      BY <2>1 DEF Walked, Went, Stayed
    <2> QED
      BY <2>1, <2>2, <1>4
  <1> QED
    BY <1>1, <1>5, <1>6, <1>7, <1>8, <1>10 DEF Consistent, Calling

\* set_active_panel_from_id for any id, known or not
LEMMA LaunchHolds ==
    ASSUME NEW s, NEW vis, NEW p \in Panels \cup {Unknown},
           Consistent(s, vis, NoPanel), Reachable(vis)
    PROVE  LET t == SetActive(s, vis, p, TRUE, TRUE) IN
           /\ Consistent(t, vis, NoPanel)
           /\ t = s \/ (p \in Panels /\ Went(t, s, p))
  <1>1. Calling(s, vis, NoPanel) /\ HeadDiffers(s) /\ s.current \in Panels \cup {NoPanel}
    BY DEF Consistent, Calling, ShellState
  <1>2. CASE p \in Panels
    <2>1. vis[p] # "hidden"
      BY <1>2 DEF Reachable
    <2> DEFINE t == SetActive(s, vis, p, TRUE, TRUE)
    <2>2. /\ Consistent(t, vis, NoPanel) /\ t.current = p /\ SameMode(t, s)
          /\ t.history = HistoryAt(s, p, TRUE)
      BY <1>1, <1>2, <2>1, SetActiveHolds, ZenonT(40)
    <2> QED
      BY <1>2, <2>2 DEF Went, SameMode
  <1>3. CASE p = Unknown
    <2>1. p \notin Panels /\ p # s.current
      BY <1>1, <1>3, NPanelsAssumption DEF Panels, Unknown, NoPanel
    <2>2. SetActive(s, vis, p, TRUE, TRUE) = s
      BY <2>1 DEF SetActive
    <2> QED
      BY <2>2
  <1> QED
    BY <1>2, <1>3

\* switch_to_previous_panel
LEMMA GoBackHolds ==
    ASSUME NEW s, NEW vis, Consistent(s, vis, NoPanel), Reachable(vis), s.history # <<>>
    PROVE  LET t == SetActive([s EXCEPT !.history = Tail(@)], vis, Head(s.history),
                              FALSE, FALSE) IN
           /\ Consistent(t, vis, NoPanel)
           /\ t.current = Head(s.history) /\ t.history = Tail(s.history)
           /\ t.single = s.single
  <1> DEFINE h == Tail(s.history)
             p == Head(s.history)
             u == [s EXCEPT !.history = h]
  <1>1. s \in ShellState /\ s.history \in Seq(Panels) /\ Apart(s.history)
    BY DEF Consistent, Calling, ShellState
  <1>2. h \in Seq(Panels) /\ p \in Panels /\ Apart(h) /\ (h # <<>> => Head(h) # p)
    BY <1>1, ApartAfterPop
  <1>3. [s EXCEPT !.history = Tail(@)] = u
    OBVIOUS
  <1>4. ~s.single => p # s.current
    BY DEF Consistent, HeadDiffers
  <1> HIDE DEF h, p
  <1>5. /\ u \in ShellState /\ u.history = h
        /\ u.current = s.current /\ u.cancelled = s.cancelled
        /\ u.single = s.single /\ u.config = s.config /\ u.last = s.last
        /\ SameViews(u, s) /\ SameRows(u, s) /\ u.selected = s.selected
    BY <1>1, <1>2 DEF ShellState, SameViews, SameRows
  <1> HIDE DEF u
  <1>6. Calling(u, vis, NoPanel)
    <2>1. Rows(u, vis, NoPanel) /\ Unselected(u) /\ Listed(u) /\ FromMain(u)
      BY <1>5 DEF Consistent, Calling, Rows, Unselected, Listed, FromMain,
                  SameViews, SameRows
    <2>2. FirstIsFirst(u) /\ Saved(u) /\ ~u.cancelled /\ Apart(u.history)
      BY <1>2, <1>5 DEF Consistent, Calling, FirstIsFirst, Saved
    <2> QED
      BY <1>5, <2>1, <2>2 DEF Calling
  <1>7. vis[p] # "hidden" /\ (u.history # <<>> => Head(u.history) # p)
    BY <1>2, <1>5 DEF Reachable
  <1> DEFINE t == SetActive(u, vis, p, FALSE, FALSE)
  <1>8. /\ Consistent(t, vis, NoPanel) /\ t.current = p /\ SameMode(t, u)
        /\ t.history = HistoryAt(u, p, FALSE)
    BY <1>2, <1>6, <1>7, SetActiveHolds
  <1> HIDE DEF t
  <1> QED
    BY <1>3, <1>5, <1>8 DEF SameMode, Pushed, HistoryAt, h, p, t

LEMMA SetSelectionModeHolds ==
    ASSUME NEW s, NEW vis, NEW none \in BOOLEAN, Consistent(s, vis, NoPanel)
    PROVE  Consistent(SetSelectionMode(s, none), vis, NoPanel)
  <1> DEFINE t == SetSelectionMode(s, none)
  <1>1. s \in ShellState
    BY DEF Consistent, Calling
  <1>2. /\ t \in ShellState
        /\ SameWindow(t, s) /\ SameViews(t, s)
        /\ t.listed = s.listed /\ t.row = s.row
        /\ t.collapsed = none
        /\ t.selected = IF none THEN NoPanel ELSE s.listed
    BY <1>1, SetSelectionModeFields
  <1> HIDE DEF t
  <1>3. Unselected(t)
    BY <1>2 DEF Unselected
  <1>4. Rows(t, vis, NoPanel) /\ Listed(t) /\ FromMain(t)
    BY <1>2 DEF Consistent, Calling, Rows, Listed, FromMain, SameWindow, SameViews
  <1>5. /\ Apart(t.history) /\ FirstIsFirst(t) /\ Saved(t) /\ ~t.cancelled
        /\ HeadDiffers(t)
    BY <1>2 DEF Consistent, Calling, FirstIsFirst, Saved, HeadDiffers, SameWindow
  <1> QED
    BY <1>2, <1>3, <1>4, <1>5 DEF Consistent, Calling, t

\* The window gives up its sidebar.
LEMMA SingleHolds ==
    ASSUME NEW s, NEW vis, Consistent(s, vis, NoPanel)
    PROVE  Consistent([s EXCEPT !.single = TRUE], vis, NoPanel)
  <1> DEFINE t == [s EXCEPT !.single = TRUE]
  <1>1. /\ t \in ShellState /\ t.single
        /\ t.current = s.current /\ t.cancelled = s.cancelled /\ t.history = s.history
        /\ t.config = s.config /\ t.last = s.last
        /\ SameViews(t, s) /\ SameRows(t, s) /\ t.selected = s.selected
    BY DEF Consistent, Calling, ShellState, SameViews, SameRows
  <1> HIDE DEF t
  <1>2. Rows(t, vis, NoPanel) /\ Listed(t) /\ FromMain(t) /\ Unselected(t)
    BY <1>1 DEF Consistent, Calling, Rows, Listed, FromMain, Unselected,
                SameViews, SameRows
  <1>3. /\ Apart(t.history) /\ FirstIsFirst(t) /\ Saved(t) /\ ~t.cancelled
        /\ HeadDiffers(t)
    BY <1>1 DEF Consistent, Calling, FirstIsFirst, Saved, HeadDiffers
  <1> QED
    BY <1>1, <1>2, <1>3 DEF Consistent, Calling, t

\* The window shows another of its two pages.
LEMMA ContentHolds ==
    ASSUME NEW s, NEW vis, NEW b \in BOOLEAN, Consistent(s, vis, NoPanel)
    PROVE  Consistent([s EXCEPT !.content = b], vis, NoPanel)
  <1> DEFINE t == [s EXCEPT !.content = b]
  <1>1. /\ t \in ShellState
        /\ SameWindow(t, s) /\ SameViews(t, s) /\ SameRows(t, s)
        /\ t.selected = s.selected
    BY DEF Consistent, Calling, ShellState, SameWindow, SameViews, SameRows
  <1> HIDE DEF t
  <1> QED
    BY <1>1, SameHolds DEF t

LEMMA StartedHolds ==
    ASSUME NEW vis, NEW config \in BOOLEAN, NEW last \in Panels \cup {NoPanel, Unknown}
    PROVE  Consistent(Started(vis, config, last), vis, NoPanel)
  <1> DEFINE t == Started(vis, config, last)
  <1>1. t \in ShellState
    BY DEF Started, ShellState
  <1>2. /\ t.current = NoPanel /\ t.history = <<>> /\ ~t.cancelled /\ ~t.single
        /\ t.view = "main" /\ t.listed = NoPanel /\ t.selected = NoPanel
        /\ t.row = [p \in Panels |-> vis[p] = "visible"]
    BY DEF Started
  <1> HIDE DEF t
  <1>3. Rows(t, vis, NoPanel) /\ Listed(t) /\ FromMain(t) /\ Unselected(t)
    BY <1>2 DEF Rows, Listed, FromMain, Unselected
  <1>4. Apart(t.history) /\ FirstIsFirst(t) /\ Saved(t) /\ HeadDiffers(t)
    BY <1>2 DEF Apart, FirstIsFirst, Saved, HeadDiffers
  <1> QED
    BY <1>1, <1>2, <1>3, <1>4 DEF Consistent, Calling, t

------------------------------------------------------------------------------
(* The inductive invariant: what holds when a handler returns holds between   *)
(* two events, and every panel can be reached.                                *)
IInv ==
    /\ Consistent(shell, visibility, NoPanel)
    /\ visibility \in VisibilitiesNow
    /\ idle \in BOOLEAN

LEMMA AllReachable ==
    ASSUME NeverHidden, NEW vis \in VisibilitiesNow
    PROVE  Reachable(vis)
  BY DEF NeverHidden, VisibilitiesNow, Reachable

LEMMA InitHolds == Init => IInv
  <1> SUFFICES ASSUME Init PROVE IInv
    OBVIOUS
  <1>1. PICK config \in BOOLEAN, last \in Panels \cup {NoPanel, Unknown} :
            shell = Started(visibility, config, last)
    BY DEF Init
  <1> QED
    BY <1>1, StartedHolds DEF Init, IInv

\* What a step does to current panel, history and mode is a step of PanelHistory.
Navigates == [History!Next]_History!vars

LEMMA StayedNavigates ==
    ASSUME Stayed(shell', shell)
    PROVE  Navigates
  BY DEF Stayed, Navigates, History!vars

LEMMA WentNavigates ==
    ASSUME shell.single \in BOOLEAN, NEW p \in Panels, Went(shell', shell, p)
    PROVE  Navigates
  <1>1. CASE p = shell.current
    BY <1>1, StayedNavigates DEF Went, HistoryAt, Stayed
  <1>2. CASE p # shell.current /\ shell.single
    <2>1. History!Replace(p)
      BY <1>2 DEF Went, HistoryAt, Pushed, History!Replace
    <2> QED
      BY <2>1 DEF Navigates, History!Next
  <1>3. CASE p # shell.current /\ ~shell.single
    <2>1. History!Visit(p)
      BY <1>3 DEF Went, HistoryAt, Pushed, History!Visit, History!Leaving,
                  NoPanel, History!NoPanel
    <2> QED
      BY <2>1 DEF Navigates, History!Next
  <1> QED
    BY <1>1, <1>2, <1>3

LEMMA WalkedNavigates ==
    ASSUME shell.single \in BOOLEAN, NEW p \in Panels, Walked(shell', shell, p)
    PROVE  Navigates
  <1>1. CASE Went(shell', shell, p)
    BY <1>1, WentNavigates
  <1>2. ASSUME NEW f \in Panels, NEW u, Went(u, shell, f), Went(shell', u, p)
        PROVE  Navigates
    <2>1. CASE f = shell.current
      <3>1. Went(shell', shell, p)
        BY <1>2, <2>1 DEF Went, HistoryAt, Pushed
      <3> QED
        BY <3>1, WentNavigates
    <2>2. CASE p = f
      <3>1. Went(shell', shell, p)
        BY <1>2, <2>2 DEF Went, HistoryAt
      <3> QED
        BY <3>1, WentNavigates
    <2>3. CASE f # shell.current /\ p # f /\ shell.single
      <3>1. History!Replace(p)
        BY <1>2, <2>3 DEF Went, HistoryAt, Pushed, History!Replace
      <3> QED
        BY <3>1 DEF Navigates, History!Next
    <2>4. CASE f # shell.current /\ p # f /\ ~shell.single
      <3>1. u.current = f /\ ~u.single /\ f # NoPanel
        BY <1>2, <2>4, PanelsAreNumbers DEF Went
      <3>2. u.history = History!Leaving(shell.current, shell.history)
        BY <1>2, <2>4 DEF Went, HistoryAt, Pushed, History!Leaving,
                          NoPanel, History!NoPanel
      <3>3. shell'.history = <<f>> \o u.history
        BY <1>2, <2>4, <3>1 DEF Went, HistoryAt, Pushed
      <3>4. History!Detour(f, p)
        BY <1>2, <2>4, <3>1, <3>2, <3>3 DEF Went, History!Detour
      <3> QED
        BY <3>4 DEF Navigates, History!Next
    <2> QED
      BY <2>1, <2>2, <2>3, <2>4
  <1> QED
    BY <1>1, <1>2 DEF Walked

LEMMA NextHolds ==
    ASSUME NeverHidden, IInv, [Next]_vars
    PROVE  IInv' /\ Navigates
  <1>1. /\ Consistent(shell, visibility, NoPanel) /\ visibility \in VisibilitiesNow
        /\ Reachable(visibility) /\ shell \in ShellState /\ shell.single \in BOOLEAN
    BY AllReachable DEF IInv, Consistent, Calling, ShellState
  \* It suffices to look at the shell when the visibilities stay as they are.
  <1>2. ASSUME Consistent(shell', visibility, NoPanel), UNCHANGED visibility,
               idle' \in BOOLEAN
        PROVE  IInv'
    BY <1>1, <1>2 DEF IInv
  <1>3. CASE LoadLastPanel
    <2>1. CASE shell' = shell
      BY <1>1, <1>2, <1>3, <2>1, StayedNavigates DEF LoadLastPanel, Stayed
    <2>2. CASE /\ shell.listed = NoPanel /\ shell.last \in Panels
               /\ shell' \in ListSetActive(shell, visibility, shell.last)
      <3>1. /\ Consistent(shell', visibility, NoPanel)
            /\ Walked(shell', shell, shell.last)
        BY <1>1, <2>2, ListSetActiveHolds
      <3>2. Navigates
        BY <1>1, <2>2, <3>1, WalkedNavigates
      <3> QED
        BY <1>2, <1>3, <3>1, <3>2 DEF LoadLastPanel
    <2>3. CASE shell' \in ActivateAny(shell, visibility)
      <3>1. /\ Consistent(shell', visibility, NoPanel)
            /\ shell' = shell \/ \E p \in Panels : Walked(shell', shell, p)
        BY <1>1, <2>3, ActivateAnyHolds
      <3>2. Navigates
        BY <1>1, <3>1, WalkedNavigates, StayedNavigates DEF Stayed
      <3> QED
        BY <1>2, <1>3, <3>1, <3>2 DEF LoadLastPanel
    <2> QED
      BY <1>3, <2>1, <2>2, <2>3 DEF LoadLastPanel
  <1>4. ASSUME NEW p \in Panels \cup {Unknown}, LaunchPanel(p)
        PROVE  IInv' /\ Navigates
    <2>1. /\ Consistent(shell', visibility, NoPanel)
          /\ shell' = shell \/ (p \in Panels /\ Went(shell', shell, p))
      BY <1>1, <1>4, LaunchHolds DEF LaunchPanel
    <2>2. Navigates
      BY <1>1, <2>1, WentNavigates, StayedNavigates DEF Stayed
    <2> QED
      BY <1>2, <1>4, <2>1, <2>2 DEF LaunchPanel, IInv
  <1>5. ASSUME NEW p \in Panels \cup {Unknown}, LaunchSinglePanelMode(p)
        PROVE  IInv' /\ Navigates
    <2> DEFINE u == [shell EXCEPT !.single = TRUE]
    <2>1. PICK none \in {TRUE, shell.single \/ ~shell.collapsed} :
              shell' = SetActive(SetSelectionMode(u, none), visibility, p, TRUE, TRUE)
      BY <1>5 DEF LaunchSinglePanelMode
    <2>2. /\ Consistent(u, visibility, NoPanel) /\ none \in BOOLEAN
          /\ u.current = shell.current /\ u.history = shell.history /\ u.single
          /\ u \in ShellState
      BY <1>1, SingleHolds DEF ShellState
    <2> HIDE DEF u
    <2> DEFINE v == SetSelectionMode(u, none)
    <2>3. Consistent(v, visibility, NoPanel) /\ SameWindow(v, u)
      BY <2>2, SetSelectionModeHolds, SetSelectionModeFields
    <2> HIDE DEF v
    <2>4. /\ Consistent(shell', visibility, NoPanel)
          /\ shell' = v \/ (p \in Panels /\ Went(shell', v, p))
      BY <1>1, <2>1, <2>3, LaunchHolds DEF v
    <2>5. v.single /\ v.current = shell.current /\ v.history = shell.history
      BY <2>2, <2>3 DEF SameWindow
    <2>6. v.single \in BOOLEAN
      BY <2>3 DEF Consistent, Calling, ShellState
    <2>7. History!BecomeKiosk
      <3>1. CASE shell' = v
        BY <3>1, <2>5, <2>6 DEF History!BecomeKiosk
      <3>2. CASE p \in Panels /\ Went(shell', v, p)
        BY <3>2, <2>5, <2>6 DEF Went, HistoryAt, Pushed, History!BecomeKiosk
      <3> QED
        BY <3>1, <3>2, <2>4
    <2> QED
      BY <1>2, <1>5, <2>4, <2>7 DEF LaunchSinglePanelMode, IInv, Navigates, History!Next
  <1>6. ASSUME NEW p \in Panels, ClickRow(p) PROVE IInv' /\ Navigates
    <2>1. Consistent(shell', visibility, NoPanel) /\ Walked(shell', shell, p)
      BY <1>1, <1>6, ActivateRowHolds DEF ClickRow
    <2> QED
      BY <1>1, <1>2, <1>6, <2>1, WalkedNavigates DEF ClickRow, IInv
  <1>7. CASE ClickResult
    <2>1. /\ Consistent(shell', visibility, NoPanel)
          /\ shell' = shell \/ \E p \in Panels : Walked(shell', shell, p)
      BY <1>1, <1>7, ActivateAnyHolds DEF ClickResult
    <2>2. Navigates
      BY <1>1, <2>1, WalkedNavigates, StayedNavigates DEF Stayed
    <2> QED
      BY <1>2, <1>7, <2>1, <2>2 DEF ClickResult, IInv
  <1>8. CASE Search
    <2>1. Consistent(shell', visibility, NoPanel) /\ Stayed(shell', shell)
      BY <1>1, <1>8, SwitchViewHolds DEF Search
    <2> QED
      BY <1>2, <1>8, <2>1, StayedNavigates DEF Search, IInv
  <1>9. CASE ClearSearch
    <2> DEFINE u == [shell EXCEPT !.autoselect = FALSE]
    <2>1. Consistent(u, visibility, NoPanel) /\ u \in ShellState /\ Stayed(u, shell)
      BY <1>1, FlagHolds
    <2>2. shell.previous = "main"
      BY <1>1, <1>9 DEF ClearSearch, Consistent, Calling, FromMain
    <2> HIDE DEF u
    <2>3. /\ Consistent(SwitchView(u, "main"), visibility, NoPanel)
          /\ Stayed(SwitchView(u, "main"), u)
      BY <2>1, SwitchViewHolds
    <2>4. shell' = SwitchView(u, "main")
      BY <1>9, <2>2 DEF ClearSearch, u
    <2>5. Navigates
      BY <2>1, <2>3, <2>4, StayedNavigates DEF Stayed
    <2> QED
      BY <1>2, <1>9, <2>3, <2>4, <2>5 DEF ClearSearch, IInv
  <1>10. CASE GoBack
    <2>1. /\ Consistent(shell', visibility, NoPanel)
          /\ shell'.current = Head(shell.history) /\ shell'.history = Tail(shell.history)
          /\ shell'.single = shell.single
      BY <1>1, <1>10, GoBackHolds DEF GoBack
    <2>2. History!Back
      BY <1>10, <2>1 DEF GoBack, History!Back
    <2> QED
      BY <1>2, <1>10, <2>1, <2>2 DEF GoBack, IInv, Navigates, History!Next
  <1>11. ASSUME NEW p \in Panels, NEW v \in Visibilities, SetPanelVisibility(p, v)
         PROVE  IInv' /\ Navigates
    <2>1. /\ visibility' = [visibility EXCEPT ![p] = v] /\ v \in VisibilityOf[p]
          /\ shell' = ListSetVisibility(shell, visibility', p) /\ idle' = idle
      BY <1>11 DEF SetPanelVisibility
    <2>2. /\ visibility' \in VisibilitiesNow
          /\ \A q \in Panels \ {p} : visibility'[q] = visibility[q]
      BY <1>1, <2>1 DEF VisibilitiesNow
    <2>3. Reachable(visibility')
      BY <2>2, AllReachable
    <2>4. /\ Consistent(shell', visibility', NoPanel)
          /\ Stayed(shell', shell) \/ \E q \in Panels : Walked(shell', shell, q)
      BY <1>1, <2>1, <2>2, <2>3, ListSetVisibilityHolds
    <2>5. Navigates
      BY <1>1, <2>4, WalkedNavigates, StayedNavigates
    <2> QED
      BY <2>1, <2>2, <2>4, <2>5 DEF IInv
  <1>12. CASE Resize
    <2>1. Consistent(shell', visibility, NoPanel) /\ Stayed(shell', shell)
      <3>1. shell.collapsed \in BOOLEAN
        BY <1>1 DEF ShellState
      <3> QED
        BY <1>1, <3>1, <1>12, SetSelectionModeHolds, SetSelectionModeFields
        DEF Resize, Stayed, SameWindow
    <2> QED
      BY <1>2, <1>12, <2>1, StayedNavigates DEF Resize, IInv
  <1>13. CASE BackToSidebar
    <2>1. Consistent(shell', visibility, NoPanel)
      BY <1>1, <1>13, ContentHolds DEF BackToSidebar
    <2>2. Stayed(shell', shell)
      BY <1>1, <1>13 DEF BackToSidebar, ShellState, Stayed
    <2> QED
      BY <1>2, <1>13, <2>1, <2>2, StayedNavigates DEF BackToSidebar, IInv
  <1>14. CASE Restart
    <2>1. shell.config \in BOOLEAN /\ shell.last \in Panels \cup {NoPanel, Unknown}
      BY <1>1 DEF ShellState
    <2>2. Consistent(shell', visibility, NoPanel)
      BY <1>14, <2>1, StartedHolds DEF Restart
    <2>3. History!Quit
      BY <1>14 DEF Restart, Started, History!Quit, NoPanel, History!NoPanel
    <2> QED
      BY <1>2, <1>14, <2>2, <2>3 DEF Restart, Navigates, History!Next
  <1>15. CASE MoveCursor
    <2>1. PICK p \in Panels \cup {NoPanel} : shell' = Select(shell, p)
      BY <1>15 DEF MoveCursor
    <2>2. Consistent(shell', visibility, NoPanel) /\ Stayed(shell', shell)
      BY <1>1, <2>1, CursorHolds DEF Stayed, SameWindow
    <2> QED
      BY <1>2, <1>15, <2>2, StayedNavigates DEF MoveCursor, IInv
  <1>16. CASE UNCHANGED vars
    BY <1>16, StayedNavigates DEF IInv, vars, Stayed
  <1> QED
    BY <1>3, <1>4, <1>5, <1>6, <1>7, <1>8, <1>9, <1>10, <1>11, <1>12, <1>13, <1>14,
       <1>15, <1>16 DEF Next

\* Window, sidebar, visibilities and configuration agree after every event
\* (IInv), when no panel hides itself altogether.
THEOREM ShellIsConsistent ==
    ASSUME NeverHidden PROVE Spec => []IInv
  <1>1. Init => IInv
    BY InitHolds
  <1>2. IInv /\ [Next]_vars => IInv'
    BY NextHolds
  <1> QED
    BY <1>1, <1>2, PTL DEF Spec

\* Going back always changes the panel, however the panels were visited.
THEOREM HistoryNeverRepeatsHolds ==
    ASSUME NeverHidden PROVE Spec => []HistoryNeverRepeats
  <1>1. IInv => HistoryNeverRepeats
    BY DEF IInv, Consistent, Calling, HeadDiffers, Apart, HistoryNeverRepeats
  <1> QED
    BY <1>1, ShellIsConsistent, PTL

\* The idle callback leaves the panel that was activated before it ran, as long as
\* the configuration can be read: the panel it loads again is the one displayed,
\* because that is the one the configuration names.
THEOREM IdleKeepsPanelHolds ==
    ASSUME NeverHidden PROVE Spec => IdleKeepsPanel
  <1>1. ASSUME IInv, [Next]_vars
        PROVE  [idle /\ ~idle' /\ shell.config /\ shell.current # NoPanel
                   => shell'.current = shell.current]_vars
    <2> SUFFICES ASSUME Next, idle, ~idle', shell.config, shell.current # NoPanel
                 PROVE  shell'.current = shell.current
      BY <1>1
    <2>1. LoadLastPanel
      BY DEF Next, LaunchPanel, LaunchSinglePanelMode, ClickRow, MoveCursor, ClickResult,
             Search, ClearSearch, GoBack, SetPanelVisibility, Resize, BackToSidebar, Restart
    <2>2. /\ Consistent(shell, visibility, NoPanel) /\ Reachable(visibility)
          /\ shell.last = shell.current /\ shell.current \in Panels
      BY <1>1, AllReachable DEF IInv, Consistent, Calling, Saved, ShellState
    <2>3. CASE shell' \in ListSetActive(shell, visibility, shell.last)
               /\ shell.listed = NoPanel
      <3>1. Walked(shell', shell, shell.last)
        BY <2>2, <2>3, ListSetActiveHolds
      <3> QED
        BY <2>2, <3>1 DEF Walked, Went
    <2> QED
      BY <2>1, <2>2, <2>3 DEF LoadLastPanel
  <1> QED
    BY <1>1, ShellIsConsistent, PTL DEF Spec, IdleKeepsPanel

\* Window, sidebar, search, devices and restarts together navigate as the abstract
\* history does: every step of the shell is a step of PanelHistory or leaves the
\* panel, the queue and the mode alone.
THEOREM ImplementsHistory ==
    ASSUME NeverHidden PROVE Spec => NavigatesAsHistory
  <1>1. Init => History!Init
    BY DEF Init, Started, History!Init, NoPanel, History!NoPanel
  <1>2. IInv /\ [Next]_vars => [History!Next]_History!vars
    BY NextHolds DEF Navigates
  <1> QED
    BY <1>1, <1>2, ShellIsConsistent, PTL DEF Spec, NavigatesAsHistory, History!Spec

------------------------------------------------------------------------------
(* Panels that hide altogether: activating one leaves the old panel on display *)
(* with its cancellable cancelled, and another row may be selected.  What      *)
(* follows holds even so, for every table of panels.                           *)

Steady(s, vis, x) ==
    /\ s \in ShellState
    /\ FirstIsFirst(s) /\ Saved(s) /\ FromMain(s)
    /\ Listed(s) /\ Unselected(s) /\ Rows(s, vis, x)

\* Only what the invariant does not speak of has changed.
LEMMA SameStays ==
    ASSUME NEW s, NEW t \in ShellState, NEW vis, NEW x, Steady(s, vis, x),
           SameWindow(t, s), SameViews(t, s), SameRows(t, s), Unselected(t)
    PROVE  Steady(t, vis, x)
  BY DEF Steady, SameWindow, SameViews, SameRows, FirstIsFirst, Saved, FromMain, Listed,
         Rows

LEMMA SelectStays ==
    ASSUME NEW s, NEW vis, NEW x, NEW p \in Panels, Steady(s, vis, x)
    PROVE  LET t == Select(s, p) IN
           /\ Steady(t, vis, x)
           /\ SameWindow(t, s) /\ SameRows(t, s) /\ t.autoselect = s.autoselect
  <1> DEFINE t == Select(s, p)
  <1>1. /\ t \in ShellState
        /\ SameWindow(t, s) /\ SameViews(t, s) /\ SameRows(t, s)
        /\ t.selected = Chosen(s, p) /\ t.autoselect = s.autoselect
    BY SelectFields DEF Steady
  <1> HIDE DEF t
  <1>2. Unselected(t)
    BY <1>1 DEF Steady, Unselected, Chosen, SameRows
  <1> QED
    BY <1>1, <1>2, SameStays DEF t

LEMMA CursorStays ==
    ASSUME NEW s, NEW vis, NEW x, NEW p \in Panels \cup {NoPanel}, Steady(s, vis, x)
    PROVE  LET t == Select(s, p) IN Steady(t, vis, x) /\ SameWindow(t, s)
  <1> DEFINE t == Select(s, p)
  <1>1. /\ t \in ShellState
        /\ SameWindow(t, s) /\ SameViews(t, s) /\ SameRows(t, s)
        /\ t.selected = Chosen(s, p)
    BY DEF Select, Steady, ShellState, SameWindow, SameViews, SameRows, Chosen
  <1> HIDE DEF t
  <1>2. Unselected(t)
    BY <1>1 DEF Steady, Unselected, Chosen, SameRows
  <1> QED
    BY <1>1, <1>2, SameStays DEF t

LEMMA FlagStays ==
    ASSUME NEW s, NEW vis, NEW x, NEW b \in BOOLEAN, Steady(s, vis, x)
    PROVE  LET t == [s EXCEPT !.autoselect = b] IN
           /\ Steady(t, vis, x)
           /\ SameWindow(t, s) /\ SameRows(t, s) /\ t.autoselect = b
  <1> DEFINE t == [s EXCEPT !.autoselect = b]
  <1>1. /\ t \in ShellState /\ t.autoselect = b
        /\ SameWindow(t, s) /\ SameViews(t, s) /\ SameRows(t, s)
        /\ t.selected = s.selected
    BY FlagFields DEF Steady
  <1> HIDE DEF t
  <1>2. Unselected(t)
    BY <1>1 DEF Steady, Unselected, SameRows
  <1> QED
    BY <1>1, <1>2, SameStays DEF t

LEMMA SwitchViewStays ==
    ASSUME NEW s, NEW vis, NEW x, NEW view \in {"main", "search"},
           Steady(s, vis, x), view = "search" => s.view = "main"
    PROVE  LET t == SwitchView(s, view) IN
           /\ Steady(t, vis, x)
           /\ SameWindow(t, s) /\ SameRows(t, s) /\ t.autoselect = s.autoselect
  <1> DEFINE t == SwitchView(s, view)
  <1>1. /\ t \in ShellState /\ SameWindow(t, s) /\ SameRows(t, s)
        /\ t.view = view
        /\ t.previous = IF s.view = view THEN s.previous ELSE s.view
        /\ t.selected = s.selected /\ t.autoselect = s.autoselect
    BY SwitchViewFields DEF Steady
  <1> HIDE DEF t
  <1>2. FromMain(t)
    BY <1>1 DEF FromMain
  <1>3. FirstIsFirst(t) /\ Saved(t) /\ Listed(t) /\ Unselected(t) /\ Rows(t, vis, x)
    BY <1>1 DEF Steady, FirstIsFirst, Saved, Listed, Unselected, Rows, SameWindow, SameRows
  <1> QED
    BY <1>1, <1>2, <1>3 DEF Steady, t

\* A panel that cannot be activated changes nothing but the cancellable.
LEMMA KeepOldStays ==
    ASSUME NEW s, NEW vis, NEW x, Steady(s, vis, x)
    PROVE  LET t == KeepOld(s) IN
           Steady(t, vis, x) /\ t.single = s.single /\ t.listed = s.listed
  <1> DEFINE t == KeepOld(s)
  <1>1. /\ t \in ShellState
        /\ t.current = s.current /\ t.history = s.history /\ t.single = s.single
        /\ t.config = s.config /\ t.last = s.last /\ t.selected = s.selected
        /\ SameViews(t, s) /\ SameRows(t, s)
    BY DEF KeepOld, Steady, ShellState, SameViews, SameRows
  <1> HIDE DEF t
  <1>2. /\ FirstIsFirst(t) /\ Saved(t) /\ FromMain(t) /\ Listed(t) /\ Unselected(t)
        /\ Rows(t, vis, x)
    BY <1>1 DEF Steady, FirstIsFirst, Saved, FromMain, Listed, Unselected, Rows,
                SameViews, SameRows
  <1> QED
    BY <1>1, <1>2 DEF Steady, SameRows, t

\* A new panel object, with the sidebar's answer if there is a sidebar
LEMMA LoadStays ==
    ASSUME NEW s, NEW vis, NEW x, NEW p \in Panels,
           NEW remember \in BOOLEAN, NEW force \in BOOLEAN, Steady(s, vis, x)
    PROVE  LET u == Load(s, p, remember, force)
               t == IF u.single THEN u ELSE SyncList(u, vis, p) IN
           /\ Steady(t, vis, x) /\ t.single = s.single
           /\ t.current = p /\ t.listed \in {s.listed, p}
  <1> DEFINE u == Load(s, p, remember, force)
             v == SyncList(u, vis, p)
  <1>1. /\ u \in ShellState /\ u.current = p
        /\ u.last = Written(s, p)
        /\ u.single = s.single /\ u.config = s.config
        /\ SameViews(u, s) /\ SameRows(u, s) /\ u.selected = s.selected
    BY LoadFields DEF Steady
  <1> HIDE DEF u
  <1>2. FirstIsFirst(u) /\ Saved(u) /\ FromMain(u) /\ Unselected(u) /\ Rows(u, vis, x)
    BY <1>1, PanelsAreNumbers
    DEF Steady, FirstIsFirst, Saved, FromMain, Unselected, Rows, Written, SameViews,
        SameRows
  <1>3. CASE u.single
    BY <1>1, <1>2, <1>3 DEF Steady, Listed, SameRows, u
  <1>4. CASE ~u.single
    <2>1. /\ v \in ShellState /\ SameWindow(v, u) /\ v.view = "main"
          /\ v.listed = p /\ v.collapsed = u.collapsed
          /\ v.selected = Chosen(u, p) /\ v.row = Revealed(u, vis, p)
      BY <1>1, SyncListFields
    <2> HIDE DEF v
    <2>2. Rows(v, vis, x)
      <3>1. \A q \in Panels : u.row[q] \in BOOLEAN
        BY <1>1 DEF ShellState
      <3> QED
        BY <3>1, <2>1, <1>2 DEF Rows, Revealed
    <2>3. FirstIsFirst(v) /\ Saved(v) /\ FromMain(v) /\ Listed(v) /\ Unselected(v)
      BY <1>1, <1>2, <2>1
      DEF FirstIsFirst, Saved, FromMain, Listed, Unselected, Chosen, SameWindow
    <2> QED
      BY <1>1, <1>4, <2>1, <2>2, <2>3 DEF Steady, SameWindow, u, v
  <1> QED
    BY <1>3, <1>4

\* What the window and the sidebar have made of a request to show p
Answered(t, s, vis, p) ==
    /\ t.single = s.single
    /\ t.listed \in {s.listed, p}
    /\ p \in Panels /\ vis[p] # "hidden" => t.current = p

\* set_active_panel_from_id, for any panel or none of the model
LEMMA SetActiveStays ==
    ASSUME NEW s, NEW vis, NEW x, NEW p \in Panels \cup {Unknown},
           NEW remember \in BOOLEAN, NEW force \in BOOLEAN, Steady(s, vis, x)
    PROVE  LET t == SetActive(s, vis, p, remember, force) IN
           Steady(t, vis, x) /\ Answered(t, s, vis, p)
  <1> USE DEF Answered
  <1>1. s \in ShellState /\ s.current # Unknown
    BY NPanelsAssumption DEF Steady, ShellState, NoPanel, Unknown, Panels
  <1>2. CASE p = s.current
    <2> DEFINE t == ShowSame(s, force)
    <2>1. SetActive(s, vis, p, remember, force) = t
      BY <1>1, <1>2 DEF SetActive
    <2>2. /\ t \in ShellState
          /\ SameWindow(t, s) /\ SameViews(t, s) /\ SameRows(t, s)
          /\ t.selected = s.selected
      BY <1>1, ShowSameFields
    <2> HIDE DEF t
    <2>3. Unselected(t)
      BY <2>2 DEF Steady, Unselected, SameRows
    <2>4. Steady(t, vis, x)
      BY <2>2, <2>3, SameStays
    <2> QED
      BY <1>2, <2>1, <2>2, <2>4 DEF SameWindow, SameRows
  <1>3. CASE p # s.current /\ p \notin Panels
    BY <1>3 DEF SetActive
  <1>4. CASE p # s.current /\ p \in Panels /\ vis[p] = "hidden"
    BY <1>4, KeepOldStays DEF SetActive
  <1>5. CASE p # s.current /\ p \in Panels /\ vis[p] # "hidden"
    BY <1>5, LoadStays DEF SetActive
  <1> QED
    BY <1>2, <1>3, <1>4, <1>5

LEMMA ShowPanelStays ==
    ASSUME NEW s, NEW vis, NEW x, NEW p \in Panels, Steady(s, vis, x)
    PROVE  LET t == ShowPanel(s, vis, p) IN
           /\ Steady(t, vis, x) /\ t.single = s.single
           /\ t.listed \in {s.listed, p}
           /\ vis[p] # "hidden" => t.current = p
  <1> DEFINE u == SetActive(s, vis, p, TRUE, FALSE)
             t == [u EXCEPT !.autoselect = TRUE]
  <1>1. /\ Steady(u, vis, x) /\ u.single = s.single
        /\ u.listed \in {s.listed, p}
        /\ vis[p] # "hidden" => u.current = p
    <2>1. p \in Panels \cup {Unknown}
      OBVIOUS
    <2>2. Steady(u, vis, x) /\ Answered(u, s, vis, p)
      BY <2>1, SetActiveStays
    <2> QED
      BY <2>2 DEF Answered
  <1> HIDE DEF u
  <1>2. Steady(t, vis, x) /\ SameWindow(t, u) /\ SameRows(t, u)
    BY <1>1, FlagStays
  <1> HIDE DEF t
  <1>3. ShowPanel(s, vis, p) = t
    BY DEF ShowPanel, t, u
  <1> QED
    BY <1>1, <1>2, <1>3 DEF SameWindow, SameRows

LEMMA ActivateFirstStays ==
    ASSUME NEW s, NEW vis, NEW x, Steady(s, vis, x)
    PROVE  LET t == ActivateFirst(s, vis) IN
           Steady(t, vis, x) /\ t.single = s.single
  <1> DEFINE f == FirstRow(s)
             u == Select(s, f)
             t == ShowPanel(u, vis, f)
  <1>1. CASE f = NoPanel
    BY <1>1 DEF ActivateFirst
  <1>2. CASE f # NoPanel
    <2>1. f \in Panels /\ ActivateFirst(s, vis) = t
      BY <1>2, FirstRowIsPanel DEF ActivateFirst
    <2> HIDE DEF f
    <2>2. Steady(u, vis, x) /\ u.single = s.single
      BY <2>1, SelectStays DEF SameWindow
    <2> HIDE DEF u
    <2>3. Steady(t, vis, x) /\ t.single = u.single
      BY <2>1, <2>2, ShowPanelStays
    <2> QED
      BY <2>1, <2>2, <2>3
  <1> QED
    BY <1>1, <1>2

LEMMA GoToMainStays ==
    ASSUME NEW s, NEW vis, NEW x, Steady(s, vis, x)
    PROVE  LET t == GoToMain(s, vis) IN
           /\ Steady(t, vis, x) /\ t.single = s.single
           /\ ~s.autoselect => t.listed = s.listed
  <1> DEFINE u == SwitchView(s, "main")
  <1>1. Steady(u, vis, x) /\ SameWindow(u, s) /\ SameRows(u, s)
    BY SwitchViewStays
  <1>2. GoToMain(s, vis) = IF s.view = "search" /\ s.autoselect
                           THEN ActivateFirst(u, vis) ELSE u
    BY DEF GoToMain
  <1> HIDE DEF u
  <1>3. /\ Steady(ActivateFirst(u, vis), vis, x)
        /\ ActivateFirst(u, vis).single = u.single
    BY <1>1, ActivateFirstStays
  <1> QED
    BY <1>1, <1>2, <1>3 DEF SameWindow, SameRows

LEMMA ActivateRowStays ==
    ASSUME NEW s, NEW vis, NEW x, NEW p \in Panels, Steady(s, vis, x)
    PROVE  LET t == ActivateRow(s, vis, p) IN
           /\ Steady(t, vis, x) /\ t.single = s.single
           /\ ~s.autoselect => t.listed \in {s.listed, p}
           /\ vis[p] # "hidden" => t.current = p
  <1> DEFINE u == Select(s, p)
             v == GoToMain(u, vis)
             t == ShowPanel(v, vis, p)
  <1>1. /\ Steady(u, vis, x) /\ SameWindow(u, s) /\ SameRows(u, s)
        /\ u.autoselect = s.autoselect
    BY SelectStays
  <1> HIDE DEF u
  <1>2. /\ Steady(v, vis, x) /\ v.single = u.single
        /\ ~u.autoselect => v.listed = u.listed
    BY <1>1, GoToMainStays
  <1> HIDE DEF v
  <1>3. /\ Steady(t, vis, x) /\ t.single = v.single
        /\ t.listed \in {v.listed, p}
        /\ vis[p] # "hidden" => t.current = p
    BY <1>2, ShowPanelStays
  <1> HIDE DEF t
  <1>4. ActivateRow(s, vis, p) = t
    BY DEF ActivateRow, t, u, v
  <1> QED
    BY <1>1, <1>2, <1>3, <1>4 DEF SameWindow, SameRows

LEMMA ActivateAnyStays ==
    ASSUME NEW s, NEW vis, NEW x, NEW t \in ActivateAny(s, vis), Steady(s, vis, x)
    PROVE  Steady(t, vis, x)
  <1>1. ASSUME NEW p \in Panels PROVE Steady(ActivateResult(s, vis, p), vis, x)
    <2> DEFINE u == Select(s, p)
               v == [u EXCEPT !.autoselect = FALSE]
               w == ActivateRow(v, vis, p)
    <2>1. Steady(u, vis, x)
      BY SelectStays
    <2> HIDE DEF u
    <2>2. Steady(v, vis, x)
      BY <2>1, FlagStays
    <2> HIDE DEF v
    <2>3. Steady(w, vis, x)
      BY <2>2, ActivateRowStays
    <2> QED
      BY <2>3 DEF ActivateResult, u, v
  <1>2. Steady(ActivateFirst(s, vis), vis, x)
    BY ActivateFirstStays
  <1> QED
    BY <1>1, <1>2 DEF ActivateAny

\* cc_panel_list_set_active_panel for the panel the configuration names, which may
\* have hidden since
LEMMA ListSetActiveStays ==
    ASSUME NEW s, NEW vis, NEW p \in Panels, NEW t \in ListSetActive(s, vis, p),
           Steady(s, vis, NoPanel), s.listed = NoPanel
    PROVE  Steady(t, vis, NoPanel)
  <1> DEFINE u == Reveal(s, vis, p)
             v == ActivateRow(u, vis, p)
             w == [v EXCEPT !.listed = p]
  <1>1. CASE vis[p] = "hidden"
    BY <1>1, ActivateAnyStays DEF ListSetActive
  <1>2. CASE vis[p] # "hidden"
    <2>1. t = w
      BY <1>2 DEF ListSetActive
    <2>2. /\ u \in ShellState
          /\ SameWindow(u, s) /\ SameViews(u, s)
          /\ u.listed = s.listed /\ u.collapsed = s.collapsed
          /\ u.row = Revealed(s, vis, p)
          /\ u.selected = Chosen(s, p) /\ ~u.autoselect
      BY RevealFields DEF Steady
    <2> HIDE DEF u
    <2>3. Rows(u, vis, p)
      <3>1. \A q \in Panels : s.row[q] \in BOOLEAN
        BY DEF Steady, ShellState
      <3> QED
        BY <3>1, <2>2, PanelsAreNumbers DEF Steady, Rows, Revealed
    <2>4. FirstIsFirst(u) /\ Saved(u) /\ FromMain(u) /\ Listed(u) /\ Unselected(u)
      BY <2>2 DEF Steady, FirstIsFirst, Saved, FromMain, Listed, Unselected, Chosen,
                  SameWindow, SameViews
    <2>5. Steady(u, vis, p)
      BY <2>2, <2>3, <2>4 DEF Steady
    <2>6. Steady(v, vis, p) /\ v.listed \in {NoPanel, p} /\ v.current = p
      BY <1>2, <2>2, <2>5, ActivateRowStays
    <2> HIDE DEF v
    <2>7. /\ w \in ShellState /\ w.listed = p
          /\ SameWindow(w, v) /\ SameViews(w, v)
          /\ w.collapsed = v.collapsed /\ w.row = v.row /\ w.selected = v.selected
      BY <2>6, ListedFields DEF Steady
    <2> HIDE DEF w
    <2>8. Rows(w, vis, NoPanel)
      BY <2>6, <2>7, PanelsAreNumbers DEF Steady, Rows
    <2>9. FirstIsFirst(w) /\ Saved(w) /\ FromMain(w) /\ Listed(w) /\ Unselected(w)
      BY <2>6, <2>7 DEF Steady, FirstIsFirst, Saved, FromMain, Listed, Unselected,
                        SameWindow, SameViews
    <2> QED
      BY <2>1, <2>7, <2>8, <2>9 DEF Steady
  <1> QED
    BY <1>1, <1>2

\* cc_panel_list_set_panel_visibility: the panel of the next row may be hidden.
LEMMA ListSetVisibilityStays ==
    ASSUME NEW s, NEW old, NEW vis, NEW p \in Panels, Steady(s, old, NoPanel),
           \A q \in Panels \ {p} : vis[q] = old[q]
    PROVE  Steady(ListSetVisibility(s, vis, p), vis, NoPanel)
  <1> DEFINE b == RowBelow(p)
             away == s.selected = p /\ vis[p] # "visible" /\ b # NoPanel
             u == ActivateRow(s, vis, b)
             t == IF away THEN u ELSE s
             shown == vis[p] = "visible"
             w == [t EXCEPT !.row[p] = shown]
             Others(r) ==
                \A q \in Panels \ {p} :
                    /\ vis[q] = "visible" => r.row[q]
                    /\ r.row[q] /\ vis[q] # "visible" => q = r.listed
  <1>1. ListSetVisibility(s, vis, p) = w /\ shown \in BOOLEAN
    BY DEF ListSetVisibility
  <1>2. b \in Panels \cup {NoPanel}
    BY PanelsAreNumbers
  <1> HIDE DEF b
  <1>3. /\ t \in ShellState /\ Others(t)
        /\ FirstIsFirst(t) /\ Saved(t) /\ FromMain(t) /\ Listed(t) /\ Unselected(t)
    <2>1. CASE away
      <3>1. Steady(s, vis, p)
        BY <2>1, PanelsAreNumbers DEF Steady, Rows
      <3>2. Steady(u, vis, p)
        BY <1>2, <2>1, <3>1, ActivateRowStays
      <3>3. t = u
        BY <2>1
      <3> HIDE DEF u, t
      <3> QED
        BY <3>2, <3>3 DEF Steady, Rows
    <2>2. CASE ~away
      <3>1. t = s
        BY <2>2
      <3> HIDE DEF t
      <3> QED
        BY <3>1, PanelsAreNumbers DEF Steady, Rows
    <2> QED
      BY <2>1, <2>2
  <1> HIDE DEF t, shown
  <1>4. /\ w \in ShellState
        /\ SameWindow(w, t) /\ SameViews(w, t)
        /\ w.listed = t.listed /\ w.collapsed = t.collapsed
        /\ w.selected = t.selected
        /\ w.row[p] = shown
        /\ \A q \in Panels \ {p} : w.row[q] = t.row[q]
    BY <1>1, <1>3, RowFields
  <1> HIDE DEF w
  <1>5. Rows(w, vis, NoPanel)
    BY <1>3, <1>4 DEF Rows, shown
  <1>6. FirstIsFirst(w) /\ Saved(w) /\ FromMain(w) /\ Listed(w) /\ Unselected(w)
    BY <1>3, <1>4 DEF FirstIsFirst, Saved, FromMain, Listed, Unselected, SameWindow,
                      SameViews
  <1> QED
    BY <1>1, <1>4, <1>5, <1>6 DEF Steady

\* Single panel mode, a step back and the other page of a collapsed window
LEMMA ModesStay ==
    ASSUME NEW s, NEW vis, NEW x, Steady(s, vis, x)
    PROVE  /\ Steady([s EXCEPT !.single = TRUE], vis, x)
           /\ Steady([s EXCEPT !.content = FALSE], vis, x)
           /\ s.history # <<>> => Steady([s EXCEPT !.history = Tail(@)], vis, x)
           /\ \A none \in BOOLEAN : Steady(SetSelectionMode(s, none), vis, x)
  <1>1. Steady([s EXCEPT !.single = TRUE], vis, x)
    <2> DEFINE t == [s EXCEPT !.single = TRUE]
    <2>1. /\ t \in ShellState /\ t.single
          /\ t.current = s.current /\ t.history = s.history
          /\ t.config = s.config /\ t.last = s.last
          /\ SameViews(t, s) /\ SameRows(t, s) /\ t.selected = s.selected
      BY DEF Steady, ShellState, SameViews, SameRows
    <2> HIDE DEF t
    <2> QED
      BY <2>1 DEF Steady, FirstIsFirst, Saved, FromMain, Listed, Unselected, Rows,
                  SameViews, SameRows, t
  <1>2. Steady([s EXCEPT !.content = FALSE], vis, x)
    <2> DEFINE t == [s EXCEPT !.content = FALSE]
    <2>1. /\ t \in ShellState
          /\ SameWindow(t, s) /\ SameViews(t, s) /\ SameRows(t, s)
          /\ t.selected = s.selected
      BY DEF Steady, ShellState, SameWindow, SameViews, SameRows
    <2> HIDE DEF t
    <2>2. Unselected(t)
      BY <2>1 DEF Steady, Unselected, SameRows
    <2> QED
      BY <2>1, <2>2, SameStays DEF t
  <1>3. ASSUME s.history # <<>> PROVE Steady([s EXCEPT !.history = Tail(@)], vis, x)
    <2> DEFINE t == [s EXCEPT !.history = Tail(@)]
    <2>1. Tail(s.history) \in Seq(Panels)
      BY <1>3 DEF Steady, ShellState
    <2>2. /\ t \in ShellState
          /\ t.current = s.current /\ t.single = s.single
          /\ t.config = s.config /\ t.last = s.last
          /\ SameViews(t, s) /\ SameRows(t, s) /\ t.selected = s.selected
      BY <2>1 DEF Steady, ShellState, SameViews, SameRows
    <2> HIDE DEF t
    <2> QED
      BY <1>3, <2>2 DEF Steady, FirstIsFirst, Saved, FromMain, Listed, Unselected, Rows,
                        SameViews, SameRows, t
  <1>4. ASSUME NEW none \in BOOLEAN PROVE Steady(SetSelectionMode(s, none), vis, x)
    <2> DEFINE t == SetSelectionMode(s, none)
    <2>1. /\ t \in ShellState
          /\ SameWindow(t, s) /\ SameViews(t, s)
          /\ t.listed = s.listed /\ t.row = s.row
          /\ t.collapsed = none
          /\ t.selected = IF none THEN NoPanel ELSE s.listed
      BY SetSelectionModeFields DEF Steady
    <2> HIDE DEF t
    <2> QED
      BY <2>1 DEF Steady, FirstIsFirst, Saved, FromMain, Listed, Unselected, Rows,
                  SameWindow, SameViews, t
  <1> QED
    BY <1>1, <1>2, <1>3, <1>4

SteadyInv ==
    /\ Steady(shell, visibility, NoPanel)
    /\ visibility \in VisibilitiesNow
    /\ idle \in BOOLEAN

LEMMA NextStays ==
    ASSUME SteadyInv, [Next]_vars
    PROVE  SteadyInv'
  <1>1. /\ Steady(shell, visibility, NoPanel) /\ visibility \in VisibilitiesNow
        /\ shell \in ShellState
    BY DEF SteadyInv, Steady
  <1>2. ASSUME Steady(shell', visibility, NoPanel), UNCHANGED visibility, idle' \in BOOLEAN
        PROVE  SteadyInv'
    BY <1>1, <1>2 DEF SteadyInv
  <1>3. ASSUME Steady(shell', visibility, NoPanel), UNCHANGED <<visibility, idle>>
        PROVE  SteadyInv'
    BY <1>2, <1>3 DEF SteadyInv
  <1>4. CASE LoadLastPanel
    <2>1. Steady(shell', visibility, NoPanel)
      BY <1>1, <1>4, ListSetActiveStays, ActivateAnyStays DEF LoadLastPanel
    <2> QED
      BY <1>2, <1>4, <2>1 DEF LoadLastPanel
  <1>5. ASSUME NEW p \in Panels \cup {Unknown}, LaunchPanel(p) PROVE SteadyInv'
    <2>1. Steady(shell', visibility, NoPanel)
      BY <1>1, <1>5, SetActiveStays DEF LaunchPanel
    <2> QED
      BY <1>3, <1>5, <2>1 DEF LaunchPanel
  <1>6. ASSUME NEW p \in Panels \cup {Unknown}, LaunchSinglePanelMode(p) PROVE SteadyInv'
    <2> DEFINE u == [shell EXCEPT !.single = TRUE]
    <2>1. PICK none \in {TRUE, shell.single \/ ~shell.collapsed} :
              shell' = SetActive(SetSelectionMode(u, none), visibility, p, TRUE, TRUE)
      BY <1>6 DEF LaunchSinglePanelMode
    <2>2. none \in BOOLEAN
      OBVIOUS
    <2>3. Steady(u, visibility, NoPanel)
      BY <1>1, ModesStay
    <2> HIDE DEF u
    <2> DEFINE v == SetSelectionMode(u, none)
    <2>4. Steady(v, visibility, NoPanel)
      BY <2>2, <2>3, ModesStay
    <2> HIDE DEF v
    <2>5. Steady(shell', visibility, NoPanel)
      BY <2>1, <2>4, SetActiveStays DEF v
    <2> QED
      BY <1>3, <1>6, <2>5 DEF LaunchSinglePanelMode
  <1>7. ASSUME NEW p \in Panels, ClickRow(p) PROVE SteadyInv'
    <2>1. Steady(shell', visibility, NoPanel)
      BY <1>1, <1>7, ActivateRowStays DEF ClickRow
    <2> QED
      BY <1>3, <1>7, <2>1 DEF ClickRow
  <1>8. CASE ClickResult
    <2>1. Steady(shell', visibility, NoPanel)
      BY <1>1, <1>8, ActivateAnyStays DEF ClickResult
    <2> QED
      BY <1>3, <1>8, <2>1 DEF ClickResult
  <1>9. CASE Search
    <2>1. Steady(shell', visibility, NoPanel)
      BY <1>1, <1>9, SwitchViewStays DEF Search
    <2> QED
      BY <1>3, <1>9, <2>1 DEF Search
  <1>10. CASE ClearSearch
    <2> DEFINE u == [shell EXCEPT !.autoselect = FALSE]
    <2>1. Steady(u, visibility, NoPanel)
      BY <1>1, FlagStays
    <2>2. shell.previous = "main"
      BY <1>1, <1>10 DEF ClearSearch, Steady, FromMain
    <2> HIDE DEF u
    <2>3. Steady(SwitchView(u, "main"), visibility, NoPanel)
      BY <2>1, SwitchViewStays
    <2>4. shell' = SwitchView(u, "main")
      BY <1>10, <2>2 DEF ClearSearch, u
    <2> QED
      BY <1>3, <1>10, <2>3, <2>4 DEF ClearSearch
  <1>11. CASE GoBack
    <2> DEFINE u == [shell EXCEPT !.history = Tail(@)]
    <2>1. Head(shell.history) \in Panels
      BY <1>1, <1>11 DEF GoBack, ShellState
    <2>2. Steady(u, visibility, NoPanel)
      BY <1>1, <1>11, ModesStay DEF GoBack
    <2>3. shell' = SetActive(u, visibility, Head(shell.history), FALSE, FALSE)
      BY <1>11 DEF GoBack
    <2> HIDE DEF u
    <2>4. Steady(shell', visibility, NoPanel)
      BY <2>1, <2>2, <2>3, SetActiveStays
    <2> QED
      BY <1>3, <1>11, <2>4 DEF GoBack
  <1>12. ASSUME NEW p \in Panels, NEW v \in Visibilities, SetPanelVisibility(p, v)
         PROVE  SteadyInv'
    <2>1. /\ visibility' = [visibility EXCEPT ![p] = v] /\ v \in VisibilityOf[p]
          /\ shell' = ListSetVisibility(shell, visibility', p) /\ idle' = idle
      BY <1>12 DEF SetPanelVisibility
    <2>2. /\ visibility' \in VisibilitiesNow
          /\ \A q \in Panels \ {p} : visibility'[q] = visibility[q]
      BY <1>1, <2>1 DEF VisibilitiesNow
    <2>3. Steady(shell', visibility', NoPanel)
      BY <1>1, <2>1, <2>2, ListSetVisibilityStays
    <2> QED
      BY <2>1, <2>2, <2>3 DEF SteadyInv
  <1>13. CASE Resize
    <2>1. shell.collapsed \in BOOLEAN
      BY <1>1 DEF ShellState
    <2>2. Steady(shell', visibility, NoPanel)
      BY <1>1, <1>13, <2>1, ModesStay DEF Resize
    <2> QED
      BY <1>3, <1>13, <2>2 DEF Resize
  <1>14. CASE BackToSidebar
    <2>1. Steady(shell', visibility, NoPanel)
      BY <1>1, <1>14, ModesStay DEF BackToSidebar
    <2> QED
      BY <1>3, <1>14, <2>1 DEF BackToSidebar
  <1>15. CASE Restart
    <2>1. shell.config \in BOOLEAN /\ shell.last \in Panels \cup {NoPanel, Unknown}
      BY <1>1 DEF ShellState
    <2>2. Steady(shell', visibility, NoPanel)
      BY <1>15, <2>1, StartedHolds DEF Restart, Consistent, Calling, Steady
    <2> QED
      BY <1>2, <1>15, <2>2 DEF Restart
  <1>16. CASE MoveCursor
    <2>1. PICK p \in Panels \cup {NoPanel} : shell' = Select(shell, p)
      BY <1>16 DEF MoveCursor
    <2>2. Steady(shell', visibility, NoPanel)
      BY <1>1, <2>1, CursorStays
    <2> QED
      BY <1>3, <1>16, <2>2 DEF MoveCursor
  <1>17. CASE UNCHANGED vars
    BY <1>17 DEF SteadyInv, vars
  <1> QED
    BY <1>4, <1>5, <1>6, <1>7, <1>8, <1>9, <1>10, <1>11, <1>12, <1>13, <1>14, <1>15,
       <1>16, <1>17 DEF Next

LEMMA SteadyHolds == Spec => []SteadyInv
  <1>1. Init => SteadyInv
    BY InitHolds DEF IInv, Consistent, Calling, Steady, SteadyInv
  <1>2. SteadyInv /\ [Next]_vars => SteadyInv'
    BY NextStays
  <1> QED
    BY <1>1, <1>2, PTL DEF Spec

\* Every variable of the shell keeps its type.
THEOREM TypeCorrect == Spec => []TypeOK
  <1>1. SteadyInv => TypeOK
    BY DEF SteadyInv, Steady, VisibilitiesNow, TypeOK
  <1> QED
    BY <1>1, SteadyHolds, PTL

\* Window and sidebar keep the same panel id, except in single panel mode, for every
\* table of panels: also after a panel could not be activated.
THEOREM ListFollowsWindowHolds == Spec => []ListFollowsWindow
  <1>1. SteadyInv => ListFollowsWindow
    BY DEF SteadyInv, Steady, Listed, ListFollowsWindow
  <1> QED
    BY <1>1, SteadyHolds, PTL

\* The row of a panel that is only visible in search shows only while it is the
\* sidebar's panel; the row of a visible panel always shows.
THEOREM RowsMatchVisibilityHolds == Spec => []RowsMatchVisibility
  <1>1. SteadyInv => RowsMatchVisibility
    BY PanelsAreNumbers DEF SteadyInv, Steady, Rows, RowsMatchVisibility
  <1> QED
    BY <1>1, SteadyHolds, PTL

\* Emptying the search entry leads back to the main view.
THEOREM SearchReturnsToMainHolds == Spec => []SearchReturnsToMain
  <1>1. SteadyInv => SearchReturnsToMain
    BY DEF SteadyInv, Steady, FromMain, SearchReturnsToMain
  <1> QED
    BY <1>1, SteadyHolds, PTL

\* The configuration names the panel on display, also after a panel could not be
\* activated.
THEOREM ConfigNamesCurrentHolds == Spec => []ConfigNamesCurrent
  <1>1. SteadyInv => ConfigNamesCurrent
    BY DEF SteadyInv, Steady, Saved, ConfigNamesCurrent
  <1> QED
    BY <1>1, SteadyHolds, PTL

\* A panel that may leave the sidebar has a row below it, or above when it is the
\* last, that never leaves it.  In the shipped order wifi has the network panel below
\* it and wacom universal access.
NeighbourStays ==
    \A p \in Panels : VisibilityOf[p] # {"visible"} =>
        /\ RowBelow(p) # NoPanel
        /\ VisibilityOf[RowBelow(p)] = {"visible"}

\* Only a change of the visibility of p makes it invisible.
LEMMA OnlyVisibilityHides ==
    ASSUME SteadyInv, [Next]_vars, NEW p \in Panels, visibility'[p] # visibility[p]
    PROVE  \E v \in Visibilities : v = visibility'[p] /\ SetPanelVisibility(p, v)
  <1>1. visibility' # visibility
    OBVIOUS
  <1>2. PICK q \in Panels, v \in Visibilities : SetPanelVisibility(q, v)
    BY <1>1 DEF Next, vars, LoadLastPanel, LaunchPanel, LaunchSinglePanelMode, ClickRow,
                MoveCursor, ClickResult, Search, ClearSearch, GoBack, Resize, BackToSidebar,
                Restart
  <1>3. visibility' = [visibility EXCEPT ![q] = v] /\ visibility \in [Panels -> Visibilities]
    BY <1>2 DEF SetPanelVisibility, SteadyInv, VisibilitiesNow
  <1>4. q = p /\ visibility'[p] = v
    BY <1>3
  <1> QED
    BY <1>2, <1>4

\* When the panel of the selected row stops being visible, even if it hides altogether,
\* the window moves to another panel, whose row is in the sidebar, whatever the
\* sidebar's mode and view: the row below it is activated, perhaps after the first row
\* (GoToMain).
THEOREM HiddenPanelIsLeftHolds ==
    ASSUME NeighbourStays PROVE Spec => HiddenPanelIsLeft
  <1>1. ASSUME SteadyInv, [Next]_vars, NEW p \in Panels, shell.selected = p,
               visibility[p] = "visible", visibility'[p] # "visible"
        PROVE  shell'.current # p /\ shell'.row[shell'.current]
    <2> DEFINE b == RowBelow(p)
               u == ActivateRow(shell, visibility', b)
    <2>1. PICK v \in Visibilities : v = visibility'[p] /\ SetPanelVisibility(p, v)
      BY <1>1, OnlyVisibilityHides
    <2>2. /\ visibility' = [visibility EXCEPT ![p] = v] /\ v \in VisibilityOf[p]
          /\ shell' = ListSetVisibility(shell, visibility', p)
      BY <2>1 DEF SetPanelVisibility
    <2>3. visibility' \in VisibilitiesNow /\ Steady(shell', visibility', NoPanel)
      BY <1>1, NextStays DEF SteadyInv
    <2>4. b \in Panels /\ b # p /\ VisibilityOf[b] = {"visible"}
      BY <1>1, <2>1, <2>2, PanelsAreNumbers DEF NeighbourStays
    <2> HIDE DEF b
    <2>5. visibility'[b] = "visible"
      BY <2>3, <2>4 DEF VisibilitiesNow
    <2>6. Steady(shell, visibility', p)
      <3>1. \A q \in Panels \ {p} : visibility'[q] = visibility[q]
        BY <1>1, <2>2 DEF SteadyInv, VisibilitiesNow
      <3> QED
        BY <1>1, <3>1, PanelsAreNumbers DEF SteadyInv, Steady, Rows
    <2>7. Steady(u, visibility', p) /\ u.current = b
      <3>1. visibility'[b] # "hidden" /\ b \in Panels
        BY <2>4, <2>5
      <3> HIDE DEF u
      <3>2. Steady(u, visibility', p) /\ (visibility'[b] # "hidden" => u.current = b)
        BY <2>6, <3>1, ActivateRowStays DEF u
      <3> QED
        BY <3>1, <3>2
    <2>8. shell' = [u EXCEPT !.row[p] = visibility'[p] = "visible"]
      BY <1>1, <2>2, <2>4, PanelsAreNumbers DEF ListSetVisibility, b
    <2> HIDE DEF u
    <2>9. shell'.current = b
      BY <2>7, <2>8 DEF Steady, ShellState
    <2>10. shell'.row[b]
      BY <2>3, <2>4, <2>5 DEF Steady, Rows
    <2> QED
      BY <2>4, <2>9, <2>10
  <1>2. SteadyInv /\ [Next]_vars =>
            [\A p \in Panels :
                /\ shell.selected = p /\ visibility[p] = "visible"
                /\ visibility'[p] # "visible"
                => /\ shell'.current # p
                   /\ shell'.row[shell'.current]]_vars
    BY <1>1
  <1> QED
    BY <1>2, SteadyHolds, PTL DEF Spec, HiddenPanelIsLeft

------------------------------------------------------------------------------
(* The sidebar's row of a new panel.  A nested call either leaves everything    *)
(* as it was or returns with the row of the window's panel shown and selected.  *)

\* The row of the window's panel is shown and, if a row can be, selected.
Presented(s) ==
    ~s.single => /\ s.row[s.current]
                 /\ s.selected = IF s.collapsed THEN NoPanel ELSE s.current
Alike(t, s) ==
    /\ t.current = s.current /\ t.single = s.single
    /\ t.selected = s.selected /\ t.collapsed = s.collapsed /\ t.row = s.row
Turned(t, s) == t.current = s.current \/ Presented(t)

LEMMA LoadPresents ==
    ASSUME NEW s, NEW vis, NEW x, NEW p \in Panels,
           NEW remember \in BOOLEAN, NEW force \in BOOLEAN, Steady(s, vis, x)
    PROVE  LET u == Load(s, p, remember, force)
           IN  Presented(IF u.single THEN u ELSE SyncList(u, vis, p))
  <1> DEFINE u == Load(s, p, remember, force)
             v == SyncList(u, vis, p)
  <1>1. /\ u \in ShellState /\ u.current = p /\ SameRows(u, s) /\ u.selected = s.selected
    BY LoadFields DEF Steady
  <1> HIDE DEF u
  <1>2. /\ SameWindow(v, u) /\ v.collapsed = u.collapsed
        /\ v.selected = Chosen(u, p) /\ v.row = Revealed(u, vis, p)
    BY <1>1, SyncListFields
  <1>3. Unselected(u)
    BY <1>1 DEF Steady, Unselected, SameRows
  <1> HIDE DEF v
  <1>4. v.current = p /\ v.row[p]
    BY <1>1, <1>2 DEF SameWindow, Revealed
  <1>5. Presented(v)
    BY <1>2, <1>3, <1>4 DEF Presented, Chosen, Unselected
  <1> QED
    BY <1>5 DEF Presented, u, v

LEMMA SetActivePresents ==
    ASSUME NEW s, NEW vis, NEW x, NEW p \in Panels \cup {Unknown},
           NEW remember \in BOOLEAN, NEW force \in BOOLEAN, Steady(s, vis, x)
    PROVE  LET t == SetActive(s, vis, p, remember, force) IN Alike(t, s) \/ Presented(t)
  <1>1. CASE p = s.current
    <2> DEFINE t == ShowSame(s, force)
    <2>0. s.current # Unknown
      BY NPanelsAssumption DEF Steady, ShellState, NoPanel, Unknown, Panels
    <2>1. SetActive(s, vis, p, remember, force) = t
      BY <1>1, <2>0 DEF SetActive
    <2>2. SameWindow(t, s) /\ SameRows(t, s) /\ t.selected = s.selected
      BY ShowSameFields DEF Steady
    <2> HIDE DEF t
    <2> QED
      BY <2>1, <2>2 DEF SameWindow, SameRows, Alike
  <1>2. CASE p # s.current /\ p \notin Panels
    BY <1>2 DEF SetActive, Alike
  <1>3. CASE p # s.current /\ p \in Panels /\ vis[p] = "hidden"
    BY <1>3 DEF SetActive, KeepOld, Alike, Steady, ShellState
  <1>4. CASE p # s.current /\ p \in Panels /\ vis[p] # "hidden"
    BY <1>4, LoadPresents DEF SetActive
  <1> QED
    BY <1>1, <1>2, <1>3, <1>4

LEMMA ShowPanelPresents ==
    ASSUME NEW s, NEW vis, NEW x, NEW p \in Panels, Steady(s, vis, x)
    PROVE  LET t == ShowPanel(s, vis, p) IN Alike(t, s) \/ Presented(t)
  <1> DEFINE u == SetActive(s, vis, p, TRUE, FALSE)
             t == [u EXCEPT !.autoselect = TRUE]
  <1>1. p \in Panels \cup {Unknown}
    OBVIOUS
  <1>2. (Alike(u, s) \/ Presented(u)) /\ Steady(u, vis, x)
    BY <1>1, SetActivePresents, SetActiveStays
  <1> HIDE DEF u
  <1>3. SameWindow(t, u) /\ SameRows(t, u) /\ t.selected = u.selected
    BY <1>2, FlagFields DEF Steady
  <1> HIDE DEF t
  <1>4. ShowPanel(s, vis, p) = t
    BY DEF ShowPanel, t, u
  <1> QED
    BY <1>2, <1>3, <1>4 DEF SameWindow, SameRows, Alike, Presented

LEMMA ActivateFirstPresents ==
    ASSUME NEW s, NEW vis, NEW x, Steady(s, vis, x)
    PROVE  Turned(ActivateFirst(s, vis), s)
  <1> DEFINE f == FirstRow(s)
             u == Select(s, f)
             t == ShowPanel(u, vis, f)
  <1>1. CASE f = NoPanel
    BY <1>1 DEF ActivateFirst, Turned
  <1>2. CASE f # NoPanel
    <2>1. f \in Panels /\ ActivateFirst(s, vis) = t
      BY <1>2, FirstRowIsPanel DEF ActivateFirst
    <2> HIDE DEF f
    <2>2. Steady(u, vis, x) /\ u.current = s.current
      BY <2>1, SelectStays DEF SameWindow
    <2> HIDE DEF u
    <2>3. Alike(t, u) \/ Presented(t)
      BY <2>1, <2>2, ShowPanelPresents
    <2> HIDE DEF t
    <2> QED
      BY <2>1, <2>2, <2>3 DEF Alike, Turned
  <1> QED
    BY <1>1, <1>2

LEMMA GoToMainPresents ==
    ASSUME NEW s, NEW vis, NEW x, Steady(s, vis, x)
    PROVE  Turned(GoToMain(s, vis), s)
  <1> DEFINE u == SwitchView(s, "main")
             t == ActivateFirst(u, vis)
  <1>1. Steady(u, vis, x) /\ u.current = s.current
    BY SwitchViewStays DEF SameWindow
  <1>2. GoToMain(s, vis) = IF s.view = "search" /\ s.autoselect THEN t ELSE u
    BY DEF GoToMain
  <1> HIDE DEF u
  <1>3. Turned(t, u)
    BY <1>1, ActivateFirstPresents
  <1> HIDE DEF t
  <1> QED
    BY <1>1, <1>2, <1>3 DEF Turned

LEMMA ActivateRowPresents ==
    ASSUME NEW s, NEW vis, NEW x, NEW p \in Panels, Steady(s, vis, x)
    PROVE  Turned(ActivateRow(s, vis, p), s)
  <1> DEFINE u == Select(s, p)
             v == GoToMain(u, vis)
             t == ShowPanel(v, vis, p)
  <1>1. Steady(u, vis, x) /\ u.current = s.current
    BY SelectStays DEF SameWindow
  <1> HIDE DEF u
  <1>2. Steady(v, vis, x) /\ Turned(v, u)
    BY <1>1, GoToMainStays, GoToMainPresents
  <1> HIDE DEF v
  <1>3. Alike(t, v) \/ Presented(t)
    BY <1>2, ShowPanelPresents
  <1> HIDE DEF t
  <1>4. ActivateRow(s, vis, p) = t
    BY DEF ActivateRow, t, u, v
  <1> QED
    BY <1>1, <1>2, <1>3, <1>4 DEF Alike, Presented, Turned

LEMMA ActivateAnyPresents ==
    ASSUME NEW s, NEW vis, NEW x, NEW t \in ActivateAny(s, vis), Steady(s, vis, x)
    PROVE  Turned(t, s)
  <1>1. ASSUME NEW p \in Panels PROVE Turned(ActivateResult(s, vis, p), s)
    <2> DEFINE u == Select(s, p)
               v == [u EXCEPT !.autoselect = FALSE]
               w == ActivateRow(v, vis, p)
    <2>1. Steady(u, vis, x) /\ u.current = s.current
      BY SelectStays DEF SameWindow
    <2> HIDE DEF u
    <2>2. Steady(v, vis, x) /\ v.current = u.current
      BY <2>1, FlagStays DEF SameWindow
    <2> HIDE DEF v
    <2>3. Turned(w, v)
      BY <2>2, ActivateRowPresents
    <2> HIDE DEF w
    <2>4. ActivateResult(s, vis, p) = w
      BY DEF ActivateResult, u, v, w
    <2> QED
      BY <2>1, <2>2, <2>3, <2>4 DEF Turned
  <1>2. Turned(ActivateFirst(s, vis), s)
    BY ActivateFirstPresents
  <1>3. Turned(s, s)
    BY DEF Turned
  <1> QED
    BY <1>1, <1>2, <1>3 DEF ActivateAny

LEMMA ListSetActivePresents ==
    ASSUME NEW s, NEW vis, NEW p \in Panels, NEW t \in ListSetActive(s, vis, p),
           Steady(s, vis, NoPanel), s.listed = NoPanel
    PROVE  Turned(t, s)
  <1> DEFINE u == Reveal(s, vis, p)
             v == ActivateRow(u, vis, p)
             w == [v EXCEPT !.listed = p]
  <1>1. CASE vis[p] = "hidden"
    BY <1>1, ActivateAnyPresents DEF ListSetActive
  <1>2. CASE vis[p] # "hidden"
    <2>1. t = w
      BY <1>2 DEF ListSetActive
    <2>2. /\ u \in ShellState
          /\ SameWindow(u, s) /\ SameViews(u, s)
          /\ u.listed = s.listed /\ u.collapsed = s.collapsed
          /\ u.row = Revealed(s, vis, p) /\ u.selected = Chosen(s, p)
      BY RevealFields DEF Steady
    <2> HIDE DEF u
    <2>3. Rows(u, vis, p)
      <3>1. \A q \in Panels : s.row[q] \in BOOLEAN
        BY DEF Steady, ShellState
      <3> QED
        BY <3>1, <2>2, PanelsAreNumbers DEF Steady, Rows, Revealed
    <2>4. Steady(u, vis, p)
      BY <2>2, <2>3 DEF Steady, FirstIsFirst, Saved, FromMain, Listed, Unselected, Chosen,
                        SameWindow, SameViews
    <2>5. Steady(v, vis, p) /\ Turned(v, u)
      BY <2>4, ActivateRowStays, ActivateRowPresents
    <2> HIDE DEF v
    <2>6. /\ SameWindow(w, v) /\ w.collapsed = v.collapsed /\ w.row = v.row
          /\ w.selected = v.selected
      BY <2>5, ListedFields DEF Steady
    <2> HIDE DEF w
    <2> QED
      BY <2>1, <2>2, <2>5, <2>6 DEF SameWindow, Turned, Presented
  <1> QED
    BY <1>1, <1>2

\* A panel that leaves the sidebar hands the window over to its neighbour, whose row
\* stays, so that hiding its own row takes nothing back.
LEMMA ListSetVisibilityPresents ==
    ASSUME NEW s, NEW old, NEW vis, NEW p \in Panels, Steady(s, old, NoPanel),
           \A q \in Panels \ {p} : vis[q] = old[q],
           vis[p] # "visible" =>
                RowBelow(p) # NoPanel /\ vis[RowBelow(p)] = "visible"
    PROVE  LET t == ListSetVisibility(s, vis, p)
           IN  t.current = s.current \/ Presented(t)
  <1> DEFINE b == RowBelow(p)
             away == s.selected = p /\ vis[p] # "visible" /\ b # NoPanel
             u == ActivateRow(s, vis, b)
             shown == vis[p] = "visible"
  <1>1. b \in Panels \cup {NoPanel} /\ b # p
    BY PanelsAreNumbers
  <1>2. s \in ShellState /\ shown \in BOOLEAN
    BY DEF Steady
  <1>3. CASE ~away
    <2> DEFINE w == [s EXCEPT !.row[p] = shown]
    <2>1. ListSetVisibility(s, vis, p) = w
      BY <1>3 DEF ListSetVisibility
    <2>2. SameWindow(w, s)
      BY <1>2, RowFields
    <2> HIDE DEF w
    <2> QED
      BY <2>1, <2>2 DEF SameWindow
  <1>4. CASE away
    <2> DEFINE w == [u EXCEPT !.row[p] = shown]
    <2>1. ListSetVisibility(s, vis, p) = w
      BY <1>4 DEF ListSetVisibility
    <2> HIDE DEF shown
    <2>2. b \in Panels /\ vis[b] # "hidden"
      BY <1>1, <1>4
    <2> HIDE DEF b
    <2>3. Steady(s, vis, p)
      BY <1>4, PanelsAreNumbers DEF Steady, Rows
    <2>4. Steady(u, vis, p) /\ Turned(u, s) /\ (vis[b] # "hidden" => u.current = b)
      BY <2>2, <2>3, ActivateRowStays, ActivateRowPresents
    <2> HIDE DEF u
    <2>5. /\ SameWindow(w, u) /\ w.collapsed = u.collapsed /\ w.selected = u.selected
          /\ \A q \in Panels \ {p} : w.row[q] = u.row[q]
      BY <1>2, <2>4, RowFields DEF Steady
    <2> HIDE DEF w
    <2> QED
      BY <1>1, <2>1, <2>2, <2>4, <2>5 DEF SameWindow, Turned, Presented, b
  <1> QED
    BY <1>3, <1>4

\* Whenever the window turns to another panel, the sidebar shows and selects its row,
\* also when the arrow keys had selected another one, when the first row was activated
\* on the way (GoToMain) or when the panel on display has just left the sidebar.
THEOREM NewPanelIsSelectedHolds ==
    ASSUME NeighbourStays PROVE Spec => NewPanelIsSelected
  <1>1. ASSUME SteadyInv, [Next]_vars, ~shell'.single,
               shell'.current \notin {shell.current, NoPanel}
        PROVE  Presented(shell')
    <2>1. /\ Steady(shell, visibility, NoPanel) /\ visibility \in VisibilitiesNow
          /\ shell \in ShellState
      BY <1>1 DEF SteadyInv, Steady
    <2> SUFFICES Turned(shell', shell)
      BY <1>1 DEF Turned
    <2>2. CASE LoadLastPanel
      BY <2>1, <2>2, ListSetActivePresents, ActivateAnyPresents DEF LoadLastPanel, Turned
    <2>3. ASSUME NEW p \in Panels \cup {Unknown}, LaunchPanel(p)
          PROVE  Turned(shell', shell)
      BY <2>1, <2>3, SetActivePresents DEF LaunchPanel, Turned, Alike
    <2>4. ASSUME NEW p \in Panels \cup {Unknown}, LaunchSinglePanelMode(p)
          PROVE  Turned(shell', shell)
      <3> DEFINE u == [shell EXCEPT !.single = TRUE]
      <3>1. PICK none \in {TRUE, shell.single \/ ~shell.collapsed} :
                shell' = SetActive(SetSelectionMode(u, none), visibility, p, TRUE, TRUE)
        BY <2>4 DEF LaunchSinglePanelMode
      <3>2. Steady(u, visibility, NoPanel) /\ u.single /\ none \in BOOLEAN
        BY <2>1, ModesStay DEF ShellState
      <3> HIDE DEF u
      <3> DEFINE v == SetSelectionMode(u, none)
      <3>3. Steady(v, visibility, NoPanel) /\ v.single = u.single
        BY <3>2, ModesStay, SetSelectionModeFields DEF Steady, SameWindow
      <3> HIDE DEF v
      <3>4. Answered(shell', v, visibility, p)
        BY <3>1, <3>3, SetActiveStays DEF v
      <3> QED
        BY <1>1, <3>2, <3>3, <3>4 DEF Answered
    <2>5. ASSUME NEW p \in Panels, ClickRow(p) PROVE Turned(shell', shell)
      BY <2>1, <2>5, ActivateRowPresents DEF ClickRow
    <2>6. CASE MoveCursor
      <3>1. PICK p \in Panels \cup {NoPanel} : shell' = Select(shell, p)
        BY <2>6 DEF MoveCursor
      <3> QED
        BY <2>1, <3>1, CursorStays DEF SameWindow, Turned
    <2>7. CASE ClickResult
      BY <2>1, <2>7, ActivateAnyPresents DEF ClickResult
    <2>8. CASE Search
      BY <2>1, <2>8, SwitchViewStays DEF Search, SameWindow, Turned
    <2>9. CASE ClearSearch
      <3> DEFINE u == [shell EXCEPT !.autoselect = FALSE]
      <3>1. Steady(u, visibility, NoPanel) /\ u.current = shell.current
        BY <2>1, FlagStays DEF SameWindow
      <3> HIDE DEF u
      <3>2. SwitchView(u, "main").current = u.current
        BY <3>1, SwitchViewStays DEF SameWindow
      <3>3. shell' = SwitchView(u, "main")
        BY <2>1, <2>9 DEF ClearSearch, Steady, FromMain, u
      <3> QED
        BY <3>1, <3>2, <3>3 DEF Turned
    <2>10. CASE GoBack
      <3> DEFINE u == [shell EXCEPT !.history = Tail(@)]
      <3>1. Steady(u, visibility, NoPanel) /\ u.current = shell.current
        BY <2>1, <2>10, ModesStay DEF GoBack, ShellState
      <3>2. Head(shell.history) \in Panels \cup {Unknown}
        BY <2>1, <2>10 DEF GoBack, ShellState
      <3>3. shell' = SetActive(u, visibility, Head(shell.history), FALSE, FALSE)
        BY <2>10 DEF GoBack
      <3> HIDE DEF u
      <3>4. Alike(shell', u) \/ Presented(shell')
        BY <3>1, <3>2, <3>3, SetActivePresents
      <3> QED
        BY <3>1, <3>4 DEF Alike, Turned
    <2>11. ASSUME NEW p \in Panels, NEW v \in Visibilities, SetPanelVisibility(p, v)
           PROVE  Turned(shell', shell)
      <3>1. /\ visibility' = [visibility EXCEPT ![p] = v] /\ v \in VisibilityOf[p]
            /\ shell' = ListSetVisibility(shell, visibility', p)
        BY <2>11 DEF SetPanelVisibility
      <3>2. /\ visibility'[p] = v /\ \A q \in Panels \ {p} : visibility'[q] = visibility[q]
            /\ visibility' \in VisibilitiesNow
        BY <2>1, <3>1 DEF VisibilitiesNow
      <3>3. v # "visible" =>
                RowBelow(p) # NoPanel /\ visibility'[RowBelow(p)] = "visible"
        BY <3>1, <3>2, PanelsAreNumbers DEF NeighbourStays, VisibilitiesNow
      <3> QED
        BY <2>1, <3>1, <3>2, <3>3, ListSetVisibilityPresents DEF Turned
    <2>12. CASE Resize
      <3>1. shell.collapsed \in BOOLEAN
        BY <2>1 DEF ShellState
      <3> QED
        BY <2>1, <2>12, <3>1, SetSelectionModeFields DEF Resize, SameWindow, Turned
    <2>13. CASE BackToSidebar
      BY <2>1, <2>13 DEF BackToSidebar, ShellState, Turned
    <2>14. CASE Restart
      BY <1>1, <2>14 DEF Restart, Started
    <2>15. CASE UNCHANGED vars
      BY <2>15 DEF vars, Turned
    <2> QED
      BY <1>1, <2>2, <2>3, <2>4, <2>5, <2>6, <2>7, <2>8, <2>9, <2>10, <2>11, <2>12, <2>13,
         <2>14, <2>15 DEF Next
  <1>2. SteadyInv /\ [Next]_vars =>
            [~shell'.single /\ shell'.current \notin {shell.current, NoPanel}
                => /\ shell'.row[shell'.current]
                   /\ shell'.selected = IF shell'.collapsed THEN NoPanel
                                                            ELSE shell'.current]_vars
    BY <1>1 DEF Presented
  <1> QED
    BY <1>2, SteadyHolds, PTL DEF Spec, NewPanelIsSelected

------------------------------------------------------------------------------
(* What PanelHistory says, of itself: however long the history grows, going *)
(* back leads to another panel.                                             *)

VARIABLES current, history, kiosk
AbstractHistory == INSTANCE PanelHistory

HistoryTypeOK ==
    /\ current \in Panels \cup {AbstractHistory!NoPanel}
    /\ history \in Seq(Panels)
    /\ kiosk \in BOOLEAN

\* The first panel visited has nothing to go back to, so that nothing is in the
\* history while no panel is displayed: a visit without a panel to remember could
\* otherwise put the panel at the head of the history on display.
NothingBeforeFirst == current = AbstractHistory!NoPanel => history = <<>>

HistoryInv == HistoryTypeOK /\ NothingBeforeFirst /\ AbstractHistory!NeverRepeats

\* The empty history repeats nothing.
LEMMA EmptyHistory ==
    <<>> \in Seq(Panels) /\ \A i \in 1..Len(<<>>) - 1 : FALSE
<1>1. Len(<<>>) - 1 < 1
  OBVIOUS
<1> QED BY <1>1

\* Putting a panel other than its head before a history without repetitions gives
\* one without repetitions.
LEMMA LeavingKeepsApart ==
    ASSUME HistoryInv, ~kiosk, current \in Panels
    PROVE  /\ <<current>> \o history \in Seq(Panels)
           /\ Head(<<current>> \o history) = current
           /\ <<current>> \o history # <<>>
           /\ LET h == <<current>> \o history
              IN  \A i \in 1..Len(h) - 1 : h[i] # h[i + 1]
<1> DEFINE h == <<current>> \o history
<1>1. history \in Seq(Panels) /\ <<current>> \in Seq(Panels)
  BY DEF HistoryInv, HistoryTypeOK
<1>2. /\ h \in Seq(Panels) /\ Len(h) = Len(history) + 1 /\ Len(history) \in Nat
      /\ h[1] = current
      /\ \A i \in 2..Len(history) + 1 : h[i] = history[i - 1]
  BY <1>1
<1>3. ASSUME NEW i \in 1..Len(h) - 1
      PROVE  h[i] # h[i + 1]
  <2>1. CASE i = 1
    <3>1. history # <<>> /\ h[2] = history[1]
      BY <2>1, <1>1, <1>2
    <3> QED BY <2>1, <3>1, <1>1, <1>2 DEF HistoryInv, AbstractHistory!NeverRepeats
  <2>2. CASE i # 1
    <3>1. /\ i \in 2..Len(history) + 1 /\ i + 1 \in 2..Len(history) + 1
          /\ i - 1 \in 1..Len(history) - 1 /\ (i - 1) + 1 = i /\ (i + 1) - 1 = i
      BY <2>2, <1>2
    <3>2. h[i] = history[i - 1] /\ h[i + 1] = history[i]
      BY <3>1, <1>2
    <3>3. \A j \in 1..Len(history) - 1 : history[j] # history[j + 1]
      BY DEF HistoryInv, AbstractHistory!NeverRepeats
    <3> QED BY <3>1, <3>2, <3>3
  <2> QED BY <2>1, <2>2
<1> HIDE DEF h
<1>4. h # <<>> /\ Head(h) = current
  BY <1>1, <1>2
<1> QED BY <1>2, <1>3, <1>4 DEF h

\* A visit of p leaves the panel on display for p.
LEMMA VisitKeepsHistoryInv ==
    ASSUME AbstractHistory!NoPanel \notin Panels, HistoryInv, NEW p \in Panels, AbstractHistory!Visit(p)
    PROVE  HistoryInv'
<1>1. ~kiosk /\ ~kiosk' /\ p # current /\ current' = p /\ current' # AbstractHistory!NoPanel
  BY DEF AbstractHistory!Visit
<1>1a. kiosk' \in BOOLEAN
  BY DEF AbstractHistory!Visit, HistoryInv, HistoryTypeOK
<1>2. CASE current = AbstractHistory!NoPanel
  <2>1. history = <<>> /\ history' = <<>>
    BY <1>2 DEF HistoryInv, NothingBeforeFirst, AbstractHistory!Visit, AbstractHistory!Leaving
  <2>2. HistoryTypeOK' /\ NothingBeforeFirst'
    BY <1>1, <1>1a, <2>1, EmptyHistory DEF HistoryTypeOK, NothingBeforeFirst
  <2>3. AbstractHistory!NeverRepeats'
    BY <2>1, EmptyHistory DEF AbstractHistory!NeverRepeats
  <2> QED BY <2>2, <2>3 DEF HistoryInv
<1>3. CASE current # AbstractHistory!NoPanel
  <2>1. current \in Panels /\ history' = <<current>> \o history
    BY <1>3 DEF HistoryInv, HistoryTypeOK, AbstractHistory!Visit, AbstractHistory!Leaving
  <2>2. HistoryTypeOK' /\ NothingBeforeFirst'
    BY <1>1, <1>1a, <2>1, <1>3, LeavingKeepsApart DEF HistoryTypeOK, NothingBeforeFirst
  <2>3. AbstractHistory!NeverRepeats'
    BY <1>1, <2>1, LeavingKeepsApart DEF AbstractHistory!NeverRepeats
  <2> QED BY <2>2, <2>3, <1>3 DEF HistoryInv
<1> QED BY <1>2, <1>3

\* A history without repetitions stays so when its head is taken.
LEMMA BackKeepsHistoryInv ==
    ASSUME AbstractHistory!NoPanel \notin Panels, HistoryInv, AbstractHistory!Back
    PROVE  HistoryInv'
<1>1. /\ history \in Seq(Panels) /\ history # <<>> /\ kiosk' = kiosk
      /\ current' = Head(history) /\ history' = Tail(history)
  BY DEF HistoryInv, HistoryTypeOK, AbstractHistory!Back
<1>2. /\ history' \in Seq(Panels) /\ current' \in Panels
      /\ Len(history') = Len(history) - 1 /\ Len(history) \in Nat \ {0}
      /\ current' = history[1]
      /\ \A i \in 1..Len(history) - 1 : history'[i] = history[i + 1]
  BY <1>1
<1>3. \A j \in 1..Len(history) - 1 : history[j] # history[j + 1]
  BY DEF HistoryInv, AbstractHistory!NeverRepeats
<1>4. HistoryTypeOK' /\ NothingBeforeFirst'
  BY <1>1, <1>2 DEF HistoryTypeOK, NothingBeforeFirst, HistoryInv
<1>5. history' # <<>> => Head(history') # current'
  <2>1. SUFFICES ASSUME history' # <<>>
                 PROVE  Head(history') # current'
    OBVIOUS
  <2>2. Head(history') = history'[1] /\ 1 \in 1..Len(history) - 1
    BY <1>2, <2>1
  <2> QED BY <2>2, <1>2, <1>3
<1>6. \A i \in 1..Len(history') - 1 : history'[i] # history'[i + 1]
  <2>1. SUFFICES ASSUME NEW i \in 1..Len(history') - 1
                 PROVE  history'[i] # history'[i + 1]
    OBVIOUS
  <2>2. /\ i \in 1..Len(history) - 1 /\ i + 1 \in 1..Len(history) - 1
    BY <1>2
  <2>3. history'[i] = history[i + 1] /\ history'[i + 1] = history[(i + 1) + 1]
    BY <1>2, <2>2
  <2> QED BY <2>2, <2>3, <1>3
<1> QED BY <1>4, <1>5, <1>6 DEF HistoryInv, AbstractHistory!NeverRepeats

\* A detour over p is a visit of p and then one of q.
LEMMA DetourKeepsHistoryInv ==
    ASSUME AbstractHistory!NoPanel \notin Panels, HistoryInv, NEW p \in Panels, NEW q \in Panels,
           AbstractHistory!Detour(p, q)
    PROVE  HistoryInv'
<1> DEFINE left == AbstractHistory!Leaving(current, history)
<1>1. /\ ~kiosk /\ ~kiosk' /\ p # current /\ q # p /\ current' = q /\ q # AbstractHistory!NoPanel
      /\ history' = <<p>> \o left
  BY DEF AbstractHistory!Detour
<1>2. /\ left \in Seq(Panels)
      /\ left # <<>> => left[1] # p
      /\ \A i \in 1..Len(left) - 1 : left[i] # left[i + 1]
  <2>1. CASE current = AbstractHistory!NoPanel
    BY <2>1 DEF HistoryInv, HistoryTypeOK, NothingBeforeFirst, AbstractHistory!Leaving
  <2>2. CASE current # AbstractHistory!NoPanel
    <3>1. current \in Panels /\ left = <<current>> \o history
      BY <2>2 DEF HistoryInv, HistoryTypeOK, AbstractHistory!Leaving
    <3>2. /\ left \in Seq(Panels) /\ Head(left) = current /\ left # <<>>
          /\ \A i \in 1..Len(left) - 1 : left[i] # left[i + 1]
      BY <1>1, <3>1, LeavingKeepsApart
    <3> HIDE DEF left
    <3>3. left[1] = current
      BY <3>2
    <3> QED BY <3>2, <3>3, <1>1
  <2> QED BY <2>1, <2>2
<1> HIDE DEF left
<1>3. /\ history' \in Seq(Panels) /\ Len(history') = Len(left) + 1 /\ Len(left) \in Nat
      /\ history'[1] = p /\ history' # <<>> /\ Head(history') = p
      /\ \A i \in 2..Len(left) + 1 : history'[i] = left[i - 1]
  BY <1>1, <1>2
<1>3a. kiosk' \in BOOLEAN
  BY DEF AbstractHistory!Detour, HistoryInv, HistoryTypeOK
<1>4. HistoryTypeOK' /\ NothingBeforeFirst'
  BY <1>1, <1>3, <1>3a DEF HistoryTypeOK, NothingBeforeFirst
<1>5. ASSUME NEW i \in 1..Len(history') - 1
      PROVE  history'[i] # history'[i + 1]
  <2>1. CASE i = 1
    <3>1. left # <<>> /\ history'[2] = left[1]
      BY <2>1, <1>2, <1>3
    <3> QED BY <2>1, <3>1, <1>2, <1>3
  <2>2. CASE i # 1
    <3>1. /\ i \in 2..Len(left) + 1 /\ i + 1 \in 2..Len(left) + 1
          /\ i - 1 \in 1..Len(left) - 1 /\ (i - 1) + 1 = i /\ (i + 1) - 1 = i
      BY <2>2, <1>3
    <3>2. history'[i] = left[i - 1] /\ history'[i + 1] = left[i]
      BY <3>1, <1>3
    <3> QED BY <3>1, <3>2, <1>2
  <2> QED BY <2>1, <2>2
<1> QED BY <1>1, <1>3, <1>4, <1>5 DEF HistoryInv, AbstractHistory!NeverRepeats

LEMMA NextKeepsHistoryInv ==
    ASSUME AbstractHistory!NoPanel \notin Panels
    PROVE  HistoryInv /\ [AbstractHistory!Next]_AbstractHistory!vars => HistoryInv'
<1> SUFFICES ASSUME HistoryInv, [AbstractHistory!Next]_AbstractHistory!vars
             PROVE  HistoryInv'
  OBVIOUS
<1>1. ASSUME NEW p \in Panels, AbstractHistory!Visit(p)
      PROVE  HistoryInv'
  BY <1>1, VisitKeepsHistoryInv
<1>2. ASSUME NEW p \in Panels, NEW q \in Panels, AbstractHistory!Detour(p, q)
      PROVE  HistoryInv'
  BY <1>2, DetourKeepsHistoryInv
<1>3. CASE AbstractHistory!Back
  BY <1>3, BackKeepsHistoryInv
<1>4. ASSUME NEW p \in Panels, AbstractHistory!Replace(p)
      PROVE  HistoryInv'
  BY <1>4
     DEF AbstractHistory!Replace, HistoryInv, HistoryTypeOK, NothingBeforeFirst,
         AbstractHistory!NeverRepeats
<1>5. CASE AbstractHistory!BecomeKiosk
  BY <1>5
     DEF AbstractHistory!BecomeKiosk, HistoryInv, HistoryTypeOK, NothingBeforeFirst,
         AbstractHistory!NeverRepeats
<1>6. CASE AbstractHistory!Quit
  BY <1>6, EmptyHistory DEF AbstractHistory!Quit, HistoryInv, HistoryTypeOK, NothingBeforeFirst,
         AbstractHistory!NeverRepeats
<1>7. CASE UNCHANGED AbstractHistory!vars
  BY <1>7 DEF AbstractHistory!vars, HistoryInv, HistoryTypeOK, NothingBeforeFirst,
         AbstractHistory!NeverRepeats
<1> QED BY <1>1, <1>2, <1>3, <1>4, <1>5, <1>6, <1>7 DEF AbstractHistory!Next

\* Going back, with Alt+Left, always changes the panel: the history never starts
\* with the panel displayed, and no panel follows itself in it.
THEOREM NeverRepeatsHolds == AbstractHistory!Spec => []AbstractHistory!NeverRepeats
<1>0. AbstractHistory!NoPanel \notin Panels
  BY PanelsAreNumbers DEF AbstractHistory!NoPanel, NoPanel
<1>1. AbstractHistory!Init => HistoryInv
  BY EmptyHistory DEF AbstractHistory!Init, HistoryInv, HistoryTypeOK, NothingBeforeFirst,
         AbstractHistory!NeverRepeats
<1>2. HistoryInv => AbstractHistory!NeverRepeats
  BY DEF HistoryInv
<1>3. HistoryInv /\ [AbstractHistory!Next]_AbstractHistory!vars => HistoryInv'
  BY <1>0, NextKeepsHistoryInv
<1> QED BY <1>1, <1>2, <1>3, PTL DEF AbstractHistory!Spec

------------------------------------------------------------------------------
(* The object storage, for every set of panels and keys and every number of *)
(* panel objects: its assertion never fails, no callback reaches a panel    *)
(* that has been replaced, and the panels share their proxies.              *)

(* The inductive invariant.  Only the panel on display can be alive; a task
   that was found in the cache stays in the cache; a task of the live panel
   that runs, or has run, is for a key that nobody has stored meanwhile. *)
LiveIsOpen ==
    /\ cancelled \subseteq 1..open
    /\ \A i \in Instances : i < open => i \in cancelled
TasksAreOld ==
    \A i \in Instances, k \in Keys : i > open => task[i][k] = "none"
CachedIsStored ==
    \A i \in Instances, k \in Keys : task[i][k] = "cached" => Has(k)
PendingIsNotStored ==
    \A i \in Instances, k \in Keys :
        task[i][k] \in {"running", "returned"} /\ i \notin cancelled => ~Has(k)

StorageInv ==
    /\ StorageTypeOK
    /\ NeverFails
    /\ LiveIsOpen
    /\ TasksAreOld
    /\ CachedIsStored
    /\ PendingIsNotStored
    /\ ProxiesAreShared

LEMMA InitStorageInv == StorageInit => StorageInv
  BY MaxInstancesAssumption
     DEF StorageInit, StorageInv, StorageTypeOK, NeverFails, LiveIsOpen, TasksAreOld, CachedIsStored,
         PendingIsNotStored, ProxiesAreShared, Has, None, Instances, Phases

LEMMA InstancesAreNumbers ==
    ASSUME StorageTypeOK
    PROVE  open \in Nat /\ \A i \in Instances : i \in Nat
<1>1. open \in 0..MaxInstances
  BY DEF StorageTypeOK
<1> QED BY <1>1, MaxInstancesAssumption DEF Instances

LEMMA OpenKeepsStorageInv ==
    ASSUME StorageInv, NEW p \in PanelTypes, Open(p)
    PROVE  StorageInv'
<1> USE MaxInstancesAssumption DEF StorageInv, Instances, None
<1>1. open \in 0..MaxInstances /\ open < MaxInstances /\ open' = open + 1
  BY DEF Open, StorageTypeOK
<1>2. cancelled' = cancelled \cup ({open} \ {0}) /\ cancelled \subseteq 1..open
  BY DEF Open, Deactivate, LiveIsOpen
<1>3. /\ stored' \in [Keys -> 0..MaxInstances]
      /\ \A k \in Keys : Has(k) => stored'[k] = stored[k]
      /\ \A k \in Keys : k \notin SyncKeys[p] => stored'[k] = stored[k]
  BY <1>1 DEF Open, StoredAfter, StorageTypeOK, Has
<1>4. /\ held' \in [Keys -> 0..MaxInstances]
      /\ \A k \in Keys : held'[k] # 0 => held'[k] = stored'[k]
  BY <1>1, <1>3 DEF Open
<1>5. /\ task' \in [1..MaxInstances -> [Keys -> Phases]]
      /\ \A i \in 1..MaxInstances : i # open + 1 => task'[i] = task[i]
      /\ \A k \in Keys :
            task'[open + 1][k] = IF k \notin AsyncKeys[p] THEN "none"
                                 ELSE IF Has(k) THEN "cached" ELSE "running"
  <2>1. TasksOf(p) \in [Keys -> Phases]
    BY DEF TasksOf, Phases
  <2>2. task' = [task EXCEPT ![open + 1] = TasksOf(p)]
    BY DEF Open
  <2>3. open + 1 \in 1..MaxInstances
    BY <1>1
  <2>3a. task \in [1..MaxInstances -> [Keys -> Phases]]
    BY DEF StorageTypeOK
  <2>4. /\ task' \in [1..MaxInstances -> [Keys -> Phases]]
        /\ \A i \in 1..MaxInstances : i # open + 1 => task'[i] = task[i]
        /\ task'[open + 1] = TasksOf(p)
    BY <2>1, <2>2, <2>3, <2>3a
  <2> QED
    BY <2>4 DEF TasksOf
<1>6. StorageTypeOK'
  <2>1. open' \in 0..MaxInstances
    BY <1>1
  <2>2. cancelled' \subseteq 1..MaxInstances
    BY <1>1, <1>2
  <2>3. fault' \in {"none", "assertion", "freed panel"}
    BY DEF StorageTypeOK, Open
  <2> QED BY <2>1, <2>2, <2>3, <1>3, <1>4, <1>5 DEF StorageTypeOK
<1>7. NeverFails'
  BY DEF NeverFails, Open
<1>8. LiveIsOpen'
  BY <1>1, <1>2 DEF LiveIsOpen
<1>9. TasksAreOld'
  BY <1>1, <1>5 DEF TasksAreOld
<1>10. CachedIsStored'
  <2> SUFFICES ASSUME NEW i \in 1..MaxInstances, NEW k \in Keys, task'[i][k] = "cached"
               PROVE  stored'[k] # 0
    BY DEF CachedIsStored, Has
  <2>1. CASE i = open + 1
    BY <2>1, <1>3, <1>5 DEF Has
  <2>2. CASE i # open + 1
    BY <2>2, <1>3, <1>5 DEF Has, CachedIsStored
  <2> QED BY <2>1, <2>2
<1>11. PendingIsNotStored'
  <2> SUFFICES ASSUME NEW i \in 1..MaxInstances, NEW k \in Keys,
                      task'[i][k] \in {"running", "returned"}, i \notin cancelled'
               PROVE  stored'[k] = 0
    BY DEF PendingIsNotStored, Has
  <2>1. CASE i = open + 1
    \* the panel asks for k in a thread, so that it creates no such proxy itself
    <3>1. k \in AsyncKeys[p] /\ ~Has(k)
      BY <2>1, <1>5
    <3>2. k \notin SyncKeys[p]
      BY <3>1, OneWayAssumption
    <3> QED BY <3>1, <3>2, <1>3 DEF Has
  <2>2. CASE i # open + 1
    <3>1. i > open
      BY <2>2, <1>1, <1>2 DEF LiveIsOpen
    <3> QED BY <2>2, <3>1, <1>5 DEF TasksAreOld
  <2> QED BY <2>1, <2>2
<1>12. ProxiesAreShared'
  BY <1>4 DEF ProxiesAreShared
<1> QED BY <1>6, <1>7, <1>8, <1>9, <1>10, <1>11, <1>12

LEMMA KeepPanelKeepsStorageInv ==
    ASSUME StorageInv, KeepPanel
    PROVE  StorageInv'
  BY MaxInstancesAssumption
     DEF StorageInv, KeepPanel, Deactivate, StorageTypeOK, NeverFails, LiveIsOpen, TasksAreOld,
         CachedIsStored, PendingIsNotStored, ProxiesAreShared, Has, None, Instances

LEMMA ThreadReturnsKeepsStorageInv ==
    ASSUME StorageInv, NEW i \in Instances, NEW k \in Keys, ThreadReturns(i, k)
    PROVE  StorageInv'
<1>1. PICK result \in {"returned", "failed"} : task' = [task EXCEPT ![i][k] = result]
  BY DEF ThreadReturns
<1>2. \A j \in Instances, l \in Keys :
          task'[j][l] = IF j = i /\ l = k THEN result ELSE task[j][l]
  BY <1>1 DEF StorageInv, StorageTypeOK
<1>3. StorageTypeOK'
  BY <1>1 DEF StorageInv, StorageTypeOK, ThreadReturns, Phases
<1>4. NeverFails' /\ LiveIsOpen' /\ ProxiesAreShared'
  BY DEF StorageInv, NeverFails, LiveIsOpen, ProxiesAreShared, ThreadReturns
<1>5. TasksAreOld' /\ CachedIsStored' /\ PendingIsNotStored'
  BY <1>2 DEF StorageInv, TasksAreOld, CachedIsStored, PendingIsNotStored, Has, ThreadReturns
<1> QED BY <1>3, <1>4, <1>5 DEF StorageInv

LEMMA FinishKeepsStorageInv ==
    ASSUME StorageInv, NEW i \in Instances, NEW k \in Keys, Finish(i, k)
    PROVE  StorageInv'
<1> USE MaxInstancesAssumption DEF StorageInv
<1>1. /\ task' = [task EXCEPT ![i][k] = "none"]
      /\ UNCHANGED <<open, cancelled>>
      /\ task[i][k] \in {"cached", "returned", "failed"}
  BY DEF Finish
<1>2. /\ \A j \in Instances, l \in Keys :
             task'[j][l] = IF j = i /\ l = k THEN "none" ELSE task[j][l]
      /\ task' \in [Instances -> [Keys -> Phases]]
  BY <1>1 DEF StorageTypeOK, Phases
<1>3. LiveIsOpen' /\ TasksAreOld'
  BY <1>1, <1>2 DEF LiveIsOpen, TasksAreOld
<1>4. CASE UNCHANGED <<stored, held, fault>>
  BY <1>1, <1>2, <1>3, <1>4
     DEF StorageTypeOK, NeverFails, CachedIsStored, PendingIsNotStored, ProxiesAreShared, Has
<1>5. CASE i \notin cancelled /\ task[i][k] # "failed"
  \* the panel that asked is the one on display, and the assertion holds
  <2>1. i = open
    <3>1. task[i][k] # "none"
      BY <1>1
    <3>2. ~(i > open)
      BY <3>1 DEF TasksAreOld
    <3>3. ~(i < open)
      BY <1>5 DEF LiveIsOpen
    <3> QED BY <3>2, <3>3, InstancesAreNumbers
  <2>2. task[i][k] = "cached" <=> Has(k)
    <3>1. CASE task[i][k] = "cached"
      BY <3>1 DEF CachedIsStored
    <3>2. CASE task[i][k] = "returned"
      BY <1>5, <3>2 DEF PendingIsNotStored
    <3> QED BY <1>1, <1>5, <3>1, <3>2
  <2>3. /\ stored' = [stored EXCEPT ![k] = IF Has(k) THEN @ ELSE i]
        /\ held' = [held EXCEPT ![k] = stored'[k]]
        /\ UNCHANGED fault
    BY <1>5, <2>1, <2>2 DEF Finish, Deliver
  <2>4. StorageTypeOK' /\ NeverFails'
    BY <1>1, <1>2, <2>3 DEF StorageTypeOK, NeverFails, Instances
  <2>5. CachedIsStored'
    BY <1>2, <2>3, ZenonT(40) DEF CachedIsStored, Has, StorageTypeOK, Instances, None
  <2>6. PendingIsNotStored'
    <3> SUFFICES ASSUME NEW j \in Instances, NEW l \in Keys,
                        task'[j][l] \in {"running", "returned"}, j \notin cancelled'
                 PROVE  ~Has(l)'
      BY DEF PendingIsNotStored
    <3>1. task[j][l] \in {"running", "returned"} /\ j \notin cancelled /\ ~(j = i /\ l = k)
      BY <1>1, <1>2
    <3>2. ~(j > open) /\ ~(j < open)
      BY <3>1 DEF LiveIsOpen, TasksAreOld
    <3>3. j = open
      BY <3>2, InstancesAreNumbers
    <3> QED BY <2>1, <2>3, <3>1, <3>3 DEF PendingIsNotStored, Has, StorageTypeOK
  <2>7. ProxiesAreShared'
    BY <2>3 DEF ProxiesAreShared, Has, StorageTypeOK, None
  <2> QED BY <1>3, <2>4, <2>5, <2>6, <2>7
<1> QED BY <1>4, <1>5 DEF Finish

LEMMA NextStorageInv == StorageInv /\ [StorageNext]_storageVars => StorageInv'
<1> SUFFICES ASSUME StorageInv, [StorageNext]_storageVars
             PROVE  StorageInv'
  OBVIOUS
<1>1. ASSUME NEW p \in PanelTypes, Open(p) PROVE StorageInv'
  BY <1>1, OpenKeepsStorageInv
<1>2. CASE KeepPanel
  BY <1>2, KeepPanelKeepsStorageInv
<1>3. ASSUME NEW i \in Instances, NEW k \in Keys, ThreadReturns(i, k) PROVE StorageInv'
  BY <1>3, ThreadReturnsKeepsStorageInv
<1>4. ASSUME NEW i \in Instances, NEW k \in Keys, Finish(i, k) PROVE StorageInv'
  BY <1>4, FinishKeepsStorageInv
<1>5. CASE UNCHANGED storageVars
  BY <1>5 DEF storageVars, StorageInv, StorageTypeOK, NeverFails, LiveIsOpen, TasksAreOld, CachedIsStored,
              PendingIsNotStored, ProxiesAreShared, Has
<1> QED BY <1>1, <1>2, <1>3, <1>4, <1>5 DEF StorageNext

LEMMA StorageInvHolds == StorageSpec => []StorageInv
  BY InitStorageInv, NextStorageInv, PTL DEF StorageSpec

\* In every behaviour of cc-object-storage.c and the panels that use it, every
\* variable has its type: no task is started or answered out of turn, no panel
\* that does not exist is deactivated.
THEOREM StorageTypesHold == StorageSpec => []StorageTypeOK
<1>1. StorageInv => StorageTypeOK
  BY DEF StorageInv
<1> QED BY <1>1, StorageInvHolds, PTL

\* The g_assert of cc_object_storage_create_dbus_proxy_finish never fails and no
\* callback runs on a panel that has been replaced, for any panels and keys as
\* long as no panel asks for one key in both ways.
THEOREM NeverFailsHolds == StorageSpec => []NeverFails
<1>1. StorageInv => NeverFails
  BY DEF StorageInv
<1> QED BY <1>1, StorageInvHolds, PTL

\* Whatever proxy the panel on display holds is the one of the storage, so that
\* all panels talk to a service through the same proxy.
THEOREM ProxiesAreSharedHolds == StorageSpec => []ProxiesAreShared
<1>1. StorageInv => ProxiesAreShared
  BY DEF StorageInv
<1> QED BY <1>1, StorageInvHolds, PTL

\* "Each object must be added once, and only once": no step replaces or removes
\* a proxy from the storage.
THEOREM StoredOnceHolds == StorageSpec => StoredOnce
<1>1. StorageInv /\ [StorageNext]_storageVars => [\A k \in Keys : Has(k) => stored'[k] = stored[k]]_storageVars
  <2> SUFFICES ASSUME StorageInv, StorageNext, NEW l \in Keys, Has(l)
               PROVE  stored'[l] = stored[l]
    OBVIOUS
  <2>1. ASSUME NEW p \in PanelTypes, Open(p) PROVE stored'[l] = stored[l]
    BY <2>1 DEF Open, StoredAfter
  <2>2. ASSUME NEW i \in Instances, NEW k \in Keys, Finish(i, k)
        PROVE  stored'[l] = stored[l]
    BY <2>2 DEF Finish, StorageInv, StorageTypeOK
  <2> QED BY <2>1, <2>2 DEF StorageNext, KeepPanel, ThreadReturns
<1> QED BY <1>1, StorageInvHolds, PTL DEF StorageSpec, StoredOnce

LEMMA OpenIsInstance ==
    ASSUME StorageTypeOK, open # None
    PROVE  open \in Instances
<1>1. open \in 0..MaxInstances
  BY DEF StorageTypeOK
<1> QED BY <1>1, MaxInstancesAssumption DEF Instances, None

\* The task of a live panel on display that has got its proxy ends by giving the
\* panel the one of the storage.
LEMMA FinishDelivers ==
    ASSUME StorageInv, NEW k \in Keys, open # None, open \notin cancelled, Finish(open, k),
           task[open][k] \in {"cached", "returned"}
    PROVE  held'[k] # None /\ held'[k] = stored'[k]
<1>1. open \in Instances
  BY OpenIsInstance DEF StorageInv
<1>2. task[open][k] = "cached" <=> Has(k)
  BY <1>1 DEF StorageInv, CachedIsStored, PendingIsNotStored
<1>3. /\ stored' = [stored EXCEPT ![k] = IF Has(k) THEN @ ELSE open]
      /\ held' = [held EXCEPT ![k] = stored'[k]]
  BY <1>2 DEF Finish, Deliver
<1> QED BY <1>3 DEF StorageInv, StorageTypeOK, Has

\* Nothing but such a task changes what a panel that stays on display holds.
LEMMA OnlyAnswersAreHeld ==
    ASSUME StorageInv, NEW i \in Instances, NEW l \in Keys, Finish(i, l),
           NEW k \in Keys, held'[k] # held[k]
    PROVE  Answers(k)
<1>1. /\ i \notin cancelled /\ task[i][l] \in {"cached", "returned"}
      /\ Deliver(i, l, stored'[l]) /\ task' = [task EXCEPT ![i][l] = "none"]
  BY DEF Finish
<1>2. i = open /\ held' = [held EXCEPT ![l] = stored'[l]]
  BY <1>1 DEF Deliver
<1>3. l = k
  BY <1>2 DEF StorageInv, StorageTypeOK
<1>4. task'[i][l] = "none"
  BY <1>1 DEF StorageInv, StorageTypeOK
<1>5. i # None
  BY MaxInstancesAssumption DEF Instances, None
<1> QED BY <1>1, <1>2, <1>3, <1>4, <1>5 DEF Answers

\* An answer that is not an error reaches the panel on display, as the proxy of the
\* storage: neither the assertion nor the check for cancellation of
\* cc_object_storage_create_dbus_proxy_finish swallows it.  And a panel that stays on
\* display is given nothing but the answers to its own requests, none of them once it
\* is cancelled.
THEOREM AnswersReachLivePanelHolds == StorageSpec => AnswersReachLivePanel
<1>1. StorageInv /\ [StorageNext]_storageVars
      => [\A k \in Keys : open' = open =>
            /\ Answers(k) => held'[k] # None /\ held'[k] = stored'[k]
            /\ held'[k] # held[k] => Answers(k)]_storageVars
  <2> SUFFICES ASSUME StorageInv, StorageNext, NEW k \in Keys, open' = open
               PROVE  /\ Answers(k) => held'[k] # None /\ held'[k] = stored'[k]
                      /\ held'[k] # held[k] => Answers(k)
    OBVIOUS
  <2>1. open \in Nat /\ (open # None => open \in Instances)
    BY OpenIsInstance, InstancesAreNumbers DEF StorageInv
  <2>2. ASSUME NEW p \in PanelTypes, Open(p) PROVE FALSE
    BY <2>1, <2>2 DEF Open
  <2>3. CASE KeepPanel
    BY <2>3 DEF KeepPanel, Answers
  <2>4. ASSUME NEW i \in Instances, NEW l \in Keys, ThreadReturns(i, l)
        PROVE  ~Answers(k) /\ held' = held
    <3>1. PICK result \in {"returned", "failed"} : task' = [task EXCEPT ![i][l] = result]
      BY <2>4 DEF ThreadReturns
    <3>2. open # None => task'[open][k] \in {task[open][k], result}
      BY <2>1, <3>1 DEF StorageInv, StorageTypeOK
    <3> QED BY <2>4, <3>2 DEF Answers, ThreadReturns
  <2>5. ASSUME NEW i \in Instances, NEW l \in Keys, Finish(i, l)
        PROVE  /\ Answers(k) => held'[k] # None /\ held'[k] = stored'[k]
               /\ held'[k] # held[k] => Answers(k)
    <3>1. ASSUME Answers(k) PROVE held'[k] # None /\ held'[k] = stored'[k]
      <4>1. i = open /\ l = k
        BY <2>1, <2>5, <3>1 DEF Finish, Answers, StorageInv, StorageTypeOK
      <4> QED BY <2>5, <3>1, <4>1, FinishDelivers DEF Answers
    <3>2. ASSUME held'[k] # held[k] PROVE Answers(k)
      BY <2>5, <3>2, OnlyAnswersAreHeld
    <3> QED BY <3>1, <3>2
  <2> QED BY <2>2, <2>3, <2>4, <2>5 DEF StorageNext
<1> QED BY <1>1, StorageInvHolds, PTL DEF StorageSpec, AnswersReachLivePanel
==============================================================================
