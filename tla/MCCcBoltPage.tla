----------------------------- MODULE MCCcBoltPage -----------------------------
(***************************************************************************)
(* Chains of Thunderbolt devices for TLC.                                  *)
(***************************************************************************)
EXTENDS CcBoltPage

Chained == [d \in Devices |-> d - 1]
==============================================================================
