----------------------- MODULE MCCcDisplayArrangement -----------------------
(***************************************************************************)
(* Three monitors of different sizes, of which one can be turned and one   *)
(* has a second, larger mode.                                              *)
(***************************************************************************)
EXTENDS CcDisplayArrangement

MCSizes == <<{Place(1920, 1080), Place(1280, 720)},
             {Place(1280, 1024), Place(1024, 1280)},
             {Place(800, 600)}>>
MCSize == <<Place(1920, 1080), Place(1280, 1024), Place(800, 600)>>
MCLayouts ==
    {[useful |-> {1, 2}, size |-> MCSize, pos |-> <<Place(0, 0), Place(1920, 53), Place(0, 0)>>],
     [useful |-> 1..3,   size |-> MCSize, pos |-> <<Place(0, 0), Place(1920, 0), Place(500, 1080)>>],
     [useful |-> {1},    size |-> MCSize, pos |-> <<Place(0, 0), Place(0, 0), Place(0, 0)>>]}
MCSpots == {Place(x, y) : x \in {-2000, -700, 300, 1900, 4000}, y \in {-1500, -300, 40, 700, 1200}}
==============================================================================
