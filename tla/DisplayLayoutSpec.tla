-------------------------- MODULE DisplayLayoutSpec --------------------------
(***************************************************************************)
(* What users of cc-display-config.c may see happen to a configuration:    *)
(* the operations of DisplayLayout, and nothing else.                      *)
(***************************************************************************)
EXTENDS DisplayLayout

VARIABLE layout     \* the configuration

Init == layout \in Layouts

Next ==
    \/ \E m \in layout.monitors :
        \/ \E active \in BOOLEAN : layout' = SetActive(layout, m, active)
        \/ layout' = SetPrimary(layout, m)
    \/ \E clone \in BOOLEAN : layout' = SetCloning(layout, clone)

Spec == Init /\ [][Next]_layout
==============================================================================
