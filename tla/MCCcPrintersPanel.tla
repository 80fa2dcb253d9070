-------------------------- MODULE MCCcPrintersPanel --------------------------
(***************************************************************************)
(* Two printers for TLC: the second may be added, and the first may get    *)
(* its name.                                                               *)
(***************************************************************************)
EXTENDS CcPrintersPanel

Second == {2}
FirstToSecond == {<<1, 2>>}
==============================================================================
