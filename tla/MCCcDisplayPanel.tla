--------------------------- MODULE MCCcDisplayPanel ---------------------------
(***************************************************************************)
(* A laptop with up to two other monitors for TLC.                         *)
(***************************************************************************)
EXTENDS CcDisplayPanel

Laid(monitors, groups, primary) ==
    [monitors |-> monitors, groups |-> groups, primary |-> primary]

\* Monitor 3 is the laptop's: alone, with two others that are both off, one on, all on
\* or mirrored, and with one that is on instead of it.
TwoExternal ==
    { Laid({3}, {{3}}, 3), Laid({1, 2, 3}, {{3}}, 3), Laid({1, 2, 3}, {{1}, {3}}, 1),
      Laid({1, 2, 3}, {{1}, {2}, {3}}, 2), Laid({1, 2, 3}, {{1, 2, 3}}, 1),
      Laid({1, 3}, {{1}}, 1) }

AllSets == SUBSET Monitors
==============================================================================
