---------------------------- MODULE DisplayLayout ----------------------------
(***************************************************************************)
(* What a display configuration promises its users: which monitors are on, *)
(* which of them mirror each other, and which one is the primary.  The     *)
(* library cc-display-config.c implements these operations (module         *)
(* CcDisplayConfig), and the display panel is written against them (module *)
(* CcDisplayPanel).                                                        *)
(*                                                                         *)
(* Monitors are numbered in the order in which the compositor lists them.  *)
(***************************************************************************)
EXTENDS Naturals, FiniteSets

CONSTANT Monitors

ASSUME MonitorsAssumption == Monitors \subseteq Nat \ {0}

None == 0           \* NULL

Active(l) == UNION l.groups

Layouts ==
    {l \in [ monitors : SUBSET Monitors,            \* the monitors plugged in
             groups   : SUBSET SUBSET Monitors,     \* sets that show the same
             primary  : Monitors \cup {None} ] :
        /\ Active(l) \subseteq l.monitors
        /\ {} \notin l.groups
        /\ \A g, h \in l.groups : g = h \/ g \cap h = {}
        /\ IF l.groups = {} THEN l.primary = None ELSE l.primary \in Active(l)}

First(S) == CHOOSE m \in S : \A n \in S : m <= n

GroupOf(l, m) == {n \in Monitors : \E g \in l.groups : {m, n} \subseteq g}

\* cc_display_config_is_cloning
IsCloning(l) == Cardinality(Active(l)) > 1 /\ Cardinality(l.groups) = 1

------------------------------------------------------------------------------
(* Operations *)

\* A monitor that is turned on shows a desktop of its own; the first one becomes
\* the primary.
Activate(l, m) ==
    IF m \in Active(l) THEN l
    ELSE [l EXCEPT !.groups = @ \cup {{m}},
                   !.primary = IF @ = None THEN m ELSE @]

\* A primary that is turned off hands its role to the first monitor still on.
Deactivate(l, m) ==
    LET on == Active(l) \ {m}
    IN  [l EXCEPT !.groups = {g \ {m} : g \in @} \ {{}},
                  !.primary = IF @ # m THEN @
                              ELSE IF on = {} THEN None ELSE First(on)]

SetActive(l, m, active) == IF active THEN Activate(l, m) ELSE Deactivate(l, m)

\* The primary once every monitor has been moved to another group: the first one
\* of those that showed the primary's desktop.
Settled(l) ==
    IF l.monitors = {} THEN None
    ELSE IF l.primary = None THEN First(l.monitors) ELSE First(GroupOf(l, l.primary))

Mirror(l) == [l EXCEPT !.groups = {l.monitors} \ {{}}, !.primary = Settled(l)]

Join(l) == [l EXCEPT !.groups = {{m} : m \in l.monitors}, !.primary = Settled(l)]

SetCloning(l, clone) ==
    IF clone = IsCloning(l) THEN l ELSE IF clone THEN Mirror(l) ELSE Join(l)

\* A monitor that is off cannot become the primary.
SetPrimary(l, m) == IF m \in Active(l) THEN [l EXCEPT !.primary = m] ELSE l
==============================================================================
