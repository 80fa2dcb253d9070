---------------------------- MODULE MCCcWwanData ----------------------------
(***************************************************************************)
(* Two SIMs: the first with two stored APNs and one of the database of     *)
(* providers that is not stored yet, the second with one stored APN.       *)
(***************************************************************************)
EXTENDS CcWwanData

MCSimOf == <<1, 1, 1, 2>>
MCStored == {1, 2, 4}
MCStarts ==
    {<<{"sim-id", "autoconnect", "high"}, {}, {}, {"sim-id", "autoconnect"}>>,
     <<{"sim-id"}, {"sim-id", "autoconnect"}, {}, {"sim-id"}>>,
     <<{}, {}, {}, {"sim-id"}>>}
==============================================================================
