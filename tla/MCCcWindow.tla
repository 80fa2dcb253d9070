----------------------------- MODULE MCCcWindow -----------------------------
(***************************************************************************)
(* Panel tables for TLC.  The shipped table has two panels that follow     *)
(* their hardware, wifi and wacom, neither of them above the other: the    *)
(* instance keeps both, and the rows below them (network and universal     *)
(* access).                                                                *)
(***************************************************************************)
EXTENDS CcWindow

ShippedVisibility ==
    <<{"visible", "in_search"}, {"visible"}, {"visible", "in_search"}, {"visible"}>>

==============================================================================
