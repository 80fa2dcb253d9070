-------------------------- MODULE MCCcDisplayConfig --------------------------
(***************************************************************************)
(* Three monitors, of which one has modes of two widths.                  *)
(***************************************************************************)
EXTENDS CcDisplayConfig

MCWidths == <<{1, 2}, {1}, {1}>>
MCPreferred == <<2, 1, 1>>
MCPositions == {-1, 1}
==============================================================================
