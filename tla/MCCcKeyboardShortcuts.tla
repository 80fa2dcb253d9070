----------------------- MODULE MCCcKeyboardShortcuts -----------------------
(***************************************************************************)
(* A launcher with two combinations, the input source shortcuts (each      *)
(* other's reverse, both with rows), an application's shortcut and two     *)
(* custom ones.  Two keys give the symbol "a": on a second layout the      *)
(* symbol of a key is that of another key of the first one.                *)
(***************************************************************************)
EXTENDS CcKeyboardShortcuts

CONSTANTS www, switch, switchback, app

Combo(k, s) == [keyval |-> k, code |-> 1, shift |-> s]

MCStandard == {www, switch, switchback}
MCGlobals == {app}
MCCodeOf == [k \in Keyvals |-> 1]
MCPresses == {Combo("a", FALSE), Combo("b", FALSE), Combo("c", FALSE),
              [keyval |-> "a", code |-> 2, shift |-> FALSE]}
MCDefault == [i \in MCStandard |->
    CASE i = www -> {Combo("a", FALSE), Combo("a", TRUE)}
      [] i = switch -> {Combo("b", FALSE)}
      [] i = switchback -> {Combo("b", TRUE)}]
MCReverse == [i \in MCStandard |->
    CASE i = switch -> switchback [] i = switchback -> switch [] OTHER -> None]
MCGroup == [i \in Items |-> IF i \in MCStandard THEN 0 ELSE 2]
MCOrder == <<switch, switchback, www>>
MCForeign == {www}
\* The custom shortcut in use may be disabled; the free path may hold a rest.
MCStarts == {[i \in MCGlobals \cup Paths |->
    CASE i = 1 -> first [] i = 2 -> second [] OTHER -> {Combo("c", FALSE)}] :
        first \in {{}, {Combo("b", FALSE)}}, second \in {{}, {Combo("a", FALSE)}}}
=============================================================================
