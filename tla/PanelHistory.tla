---------------------------- MODULE PanelHistory ----------------------------
(***************************************************************************)
(* What the shell promises of its navigation, without sidebar, search or   *)
(* devices: it visits panels and goes back through the ones it left, as a  *)
(* browser does.  A kiosk (single panel mode) replaces its panel without   *)
(* remembering it.                                                         *)
(***************************************************************************)
EXTENDS Naturals, Sequences

CONSTANT Panels
NoPanel == 0

VARIABLES current, history, kiosk
vars == <<current, history, kiosk>>

Init == current = NoPanel /\ history = <<>> /\ kiosk = FALSE

\* The history after leaving the panel p for another one.
Leaving(p, h) == IF p = NoPanel THEN h ELSE <<p>> \o h

Visit(p) ==
    /\ ~kiosk /\ p # current
    /\ current' = p
    /\ history' = Leaving(current, history)
    /\ UNCHANGED kiosk

\* A panel that disappears while the user searches is left for the first panel
\* of the sidebar, and that one for the panel q next to it.
Detour(p, q) ==
    /\ ~kiosk /\ p # current /\ q # p
    /\ current' = q
    /\ history' = <<p>> \o Leaving(current, history)
    /\ UNCHANGED kiosk

Back ==
    /\ history # <<>>
    /\ current' = Head(history)
    /\ history' = Tail(history)
    /\ UNCHANGED kiosk

Replace(p) ==
    /\ kiosk
    /\ current' = p
    /\ UNCHANGED <<history, kiosk>>

BecomeKiosk ==
    /\ kiosk' = TRUE
    /\ current' \in Panels \cup {current}
    /\ UNCHANGED history

Quit ==
    /\ current' = NoPanel /\ history' = <<>> /\ kiosk' = FALSE

Next ==
    \/ \E p \in Panels : Visit(p) \/ Replace(p)
    \/ \E p, q \in Panels : Detour(p, q)
    \/ Back \/ BecomeKiosk \/ Quit

Spec == Init /\ [][Next]_vars

------------------------------------------------------------------------------
\* No panel follows itself in the history, and outside a kiosk going back
\* always leads to another panel than the one displayed.
NeverRepeats ==
    /\ ~kiosk /\ history # <<>> => Head(history) # current
    /\ \A i \in 1..Len(history) - 1 : history[i] # history[i + 1]
==============================================================================
