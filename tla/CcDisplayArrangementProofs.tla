---------------------- MODULE CcDisplayArrangementProofs ----------------------
(***************************************************************************)
(* Proofs about the drawing of the monitors and the snapping, for monitors *)
(* of any number, size and place: wherever one of two monitors is dragged, *)
(* the two end side by side, touching along an edge.                       *)
(*                                                                         *)
(* The argument follows find_best_snapping.  Every candidate but those     *)
(* straight to an edge puts the monitor where it shares enough of an edge  *)
(* with its neighbour (EveryEndHolds).  The candidates straight to an edge *)
(* come first and are taken (EdgesSnap); what comes after them can only    *)
(* replace the result by one of the others (EndsDecide).  If the edge was  *)
(* reached too far off, one of the hanging candidates at the same side may *)
(* be used and beats what there is (HangsWhereItIs), and so the snap ends  *)
(* attached (NearAttaches).                                                *)
(*                                                                         *)
(* That the two then come to rest is a matter of which candidate is taken: *)
(* from where a monitor touches the other one, the first of the ends near  *)
(* to it (FirstIsTaken).  So how far apart the two start, along the edge,  *)
(* goes to the first target near to it (SnapBeside, Goes); from a target,  *)
(* or far from all, that is a place that rests (GoesToRest), for either of *)
(* the two (AtRestForBoth), and every snap ends there (SnapLandsBeside).   *)
(***************************************************************************)
EXTENDS CcDisplayArrangement, FiniteSetTheorems, WellFoundedInduction, TLAPS

LayoutType ==
    [useful : SUBSET Monitors, size : [Monitors -> Points], pos : [Monitors -> Points]]
Snaps == [pos : Points, dist : Points, snapped : SUBSET Axes]
CandidateType == [to : Points, dirs : SUBSET Axes, axis : Axes, hang : -1..1]
Reaches == [free : BOOLEAN, zoom : Nat]

\* l with monitor m at p
Moved(l, m, p) == [l EXCEPT !.pos[m] = p]

LEMMA AxesFacts ==
    /\ Axes = {"x", "y"} /\ "x" # "y"
    /\ \A a \in Axes : Other(a) \in Axes /\ Other(a) # a /\ Other(Other(a)) = a
    /\ \A a \in Axes : Axes = {a, Other(a)}
  BY DEF Axes, Other

LEMMA PointFacts ==
    /\ \A p, q \in Int : Place(p, q) \in [{"x", "y"} -> Int]
    /\ \A a \in Axes, p, q \in Int :
        /\ On(a, p, q) \in Points
        /\ On(a, p, q)[a] = p /\ On(a, p, q)[Other(a)] = q
    /\ \A p \in Points, a \in Axes : p[a] \in Int
  <1>1. \A p, q \in Int : Place(p, q) \in [{"x", "y"} -> Int]
    <2> SUFFICES ASSUME NEW p \in Int, NEW q \in Int
                 PROVE  Place(p, q) \in [{"x", "y"} -> Int]
      OBVIOUS
    <2> QED BY DEF Place
  <1>2. \A a \in Axes, p, q \in Int :
            /\ On(a, p, q) \in Points
            /\ On(a, p, q)[a] = p /\ On(a, p, q)[Other(a)] = q
    BY AxesFacts DEF On, Points
  <1> QED BY <1>1, <1>2 DEF Points

LEMMA OnFacts ==
    ASSUME NEW a \in Axes, NEW p \in Int, NEW q \in Int
    PROVE  On(a, p, q) \in Points /\ On(a, p, q)[a] = p /\ On(a, p, q)[Other(a)] = q
  BY PointFacts

LEMMA ExceptFacts ==
    ASSUME NEW p \in Points, NEW a \in Axes, NEW v \in Int
    PROVE  LET q == [p EXCEPT ![a] = v]
           IN  q \in Points /\ q[a] = v /\ q[Other(a)] = p[Other(a)]
  BY AxesFacts DEF Points

LEMMA MovedFacts ==
    ASSUME NEW l \in LayoutType, NEW m \in Monitors, NEW p \in Points
    PROVE  /\ Moved(l, m, p) \in LayoutType
           /\ Moved(l, m, p).useful = l.useful /\ Moved(l, m, p).size = l.size
           /\ Moved(l, m, p).pos[m] = p
           /\ \A n \in Monitors : n # m => Moved(l, m, p).pos[n] = l.pos[n]
  <1> DEFINE pos == [l.pos EXCEPT ![m] = p]
  <1>1. /\ pos \in [Monitors -> Points] /\ pos[m] = p
        /\ \A n \in Monitors : n # m => pos[n] = l.pos[n]
    BY DEF LayoutType
  <1>2. Moved(l, m, p) = [l EXCEPT !.pos = pos]
    BY DEF Moved
  <1> HIDE DEF pos
  <1> QED BY <1>1, <1>2 DEF LayoutType

LEMMA Coordinates ==
    ASSUME NEW l \in LayoutType, NEW m \in Monitors, NEW a \in Axes
    PROVE  l.pos[m][a] \in Int /\ l.size[m][a] \in Int
  BY DEF LayoutType, Points

(* Sequences *)

In(c, s) == \E i \in 1..Len(s) : s[i] = c

LEMMA ConcatElements ==
    ASSUME NEW S, NEW s \in Seq(S), NEW t \in Seq(S)
    PROVE  /\ s \o t \in Seq(S)
           /\ Len(s \o t) = Len(s) + Len(t)
           /\ \A i \in 1..Len(s) : (s \o t)[i] = s[i]
           /\ \A i \in 1..Len(t) : (s \o t)[Len(s) + i] = t[i]
  OBVIOUS

LEMMA InConcat ==
    ASSUME NEW S, NEW s \in Seq(S), NEW t \in Seq(S)
    PROVE  /\ s \o t \in Seq(S)
           /\ \A c : In(c, s \o t) <=> In(c, s) \/ In(c, t)
  <1>1. Len(s) \in Nat /\ Len(t) \in Nat
    OBVIOUS
  <1>2. s \o t \in Seq(S) /\ Len(s \o t) = Len(s) + Len(t)
    BY ConcatElements
  <1>3. ASSUME NEW c, In(c, s)
        PROVE  In(c, s \o t)
    <2>1. PICK i \in 1..Len(s) : s[i] = c
      BY <1>3 DEF In
    <2>2. i \in 1..Len(s \o t) /\ (s \o t)[i] = c
      BY <1>1, <1>2, <2>1, ConcatElements
    <2> QED BY <2>2 DEF In
  <1>4. ASSUME NEW c, In(c, t)
        PROVE  In(c, s \o t)
    <2>1. PICK i \in 1..Len(t) : t[i] = c
      BY <1>4 DEF In
    <2>2. Len(s) + i \in 1..Len(s \o t) /\ (s \o t)[Len(s) + i] = c
      BY <1>1, <1>2, <2>1, ConcatElements
    <2> QED BY <2>2 DEF In
  <1>5. ASSUME NEW c, In(c, s \o t)
        PROVE  In(c, s) \/ In(c, t)
    <2>1. PICK i \in 1..Len(s \o t) : (s \o t)[i] = c
      BY <1>5 DEF In
    <2>2. CASE i <= Len(s)
      <3>1. i \in 1..Len(s) /\ s[i] = c
        BY <1>1, <1>2, <2>1, <2>2, ConcatElements
      <3> QED BY <3>1 DEF In
    <2>3. CASE ~(i <= Len(s))
      <3>1. i - Len(s) \in 1..Len(t) /\ i = Len(s) + (i - Len(s))
        BY <1>1, <1>2, <2>1, <2>3
      <3>2. t[i - Len(s)] = c
        BY <2>1, <3>1, ConcatElements
      <3> QED BY <3>1, <3>2 DEF In
    <2> QED BY <2>2, <2>3
  <1> QED BY <1>2, <1>3, <1>4, <1>5

LEMMA InPair ==
    ASSUME NEW S, NEW c1 \in S, NEW c2 \in S
    PROVE  /\ <<c1, c2>> \in Seq(S)
           /\ \A c : In(c, <<c1, c2>>) <=> c = c1 \/ c = c2
  BY DEF In

LEMMA InSingle ==
    ASSUME NEW S, NEW c1 \in S
    PROVE  /\ <<c1>> \in Seq(S)
           /\ \A c : In(c, <<c1>>) <=> c = c1
  BY DEF In

(* Candidates *)

\* Monitors are at least as wide and high as the part of an edge they have to share.
Large(l) == \A m \in Monitors, a \in Axes : l.size[m][a] >= MinOverlap

LEMMA Parameters ==
    /\ MinOverlap \in Nat /\ Far \in Nat /\ MinorSnap \in Nat /\ MajorSnap \in Nat
    /\ Zoom \in Nat /\ NMonitors \in Nat /\ MaxSteps \in Nat /\ Zoom > 0
  BY ArrangementAssumption

LEMMA SidesFacts ==
    ASSUME NEW l \in LayoutType, NEW m \in Monitors, NEW n \in Monitors, NEW a \in Axes
    PROVE  /\ Sides(l, m, n, a)[1] = l.pos[n][a] - l.size[m][a]
           /\ Sides(l, m, n, a)[2] = l.pos[n][a] + l.size[n][a]
           /\ \A i \in 1..2 : Sides(l, m, n, a)[i] \in Int
  <1>1. l.pos[n][a] \in Int /\ l.size[m][a] \in Int /\ l.size[n][a] \in Int
    BY Coordinates
  <1> QED BY <1>1 DEF Sides, Low, High

\* At q on the axis o, m shares enough of that axis with n.
Holds(l, m, n, o, q) ==
    /\ q + l.size[m][o] - q >= MinOverlap
    /\ q + l.size[m][o] - l.pos[n][o] >= MinOverlap
    /\ l.pos[n][o] + l.size[n][o] - q >= MinOverlap
    /\ l.size[n][o] >= MinOverlap

LEMMA LeastAndMost ==
    ASSUME NEW p \in Int, NEW q \in Int, NEW u \in Int, NEW v \in Int, NEW k \in Int
    PROVE  Least(p, q) - Most(u, v) >= k <=>
                p - u >= k /\ p - v >= k /\ q - u >= k /\ q - v >= k
  BY DEF Least, Most

LEMMA EndIsAttached ==
    ASSUME NEW l \in LayoutType, NEW m \in Monitors, NEW n \in Monitors, m # n,
           NEW a \in Axes, NEW i \in 1..2, NEW q \in Int, Holds(l, m, n, Other(a), q)
    PROVE  Attached(Moved(l, m, On(a, Sides(l, m, n, a)[i], q)), m, n, MinOverlap)
  <1> DEFINE o    == Other(a)
             side == Sides(l, m, n, a)[i]
             p    == On(a, side, q)
             k    == Moved(l, m, p)
  <1>1. o \in Axes /\ MinOverlap \in Nat
    BY AxesFacts, Parameters
  <1>2. /\ l.pos[n][a] \in Int /\ l.size[m][a] \in Int /\ l.size[n][a] \in Int
        /\ l.pos[n][o] \in Int /\ l.size[m][o] \in Int /\ l.size[n][o] \in Int
    BY <1>1, Coordinates
  <1>3. side \in {l.pos[n][a] - l.size[m][a], l.pos[n][a] + l.size[n][a]} /\ side \in Int
    BY <1>2, SidesFacts
  <1>4. p \in Points /\ p[a] = side /\ p[o] = q
    <2> HIDE DEF side
    <2>1. On(a, side, q) \in Points /\ On(a, side, q)[a] = side /\ On(a, side, q)[Other(a)] = q
      <3>1. a \in Axes /\ side \in Int /\ q \in Int
        BY <1>3
      <3> QED BY <3>1, OnFacts
    <2> QED BY <2>1
  <1> HIDE DEF p, side
  <1>5. k.pos[m] = p /\ k.pos[n] = l.pos[n] /\ k.size = l.size
    BY <1>4, MovedFacts
  <1> HIDE DEF k, o
  <1>6. ~ Overlap(k, m, n)
    BY <1>2, <1>3, <1>4, <1>5 DEF Overlap, Low, High
  <1>7. Low(k, m, a) \in {Low(k, n, a) - k.size[m][a], High(k, n, a)}
    BY <1>3, <1>4, <1>5 DEF Low, High
  <1>8. Least(High(k, m, o), High(k, n, o)) - Most(Low(k, m, o), Low(k, n, o)) >= MinOverlap
    <2>1. /\ High(k, m, o) = q + l.size[m][o] /\ High(k, n, o) = l.pos[n][o] + l.size[n][o]
          /\ Low(k, m, o) = q /\ Low(k, n, o) = l.pos[n][o]
      BY <1>4, <1>5 DEF Low, High
    <2>2. /\ q + l.size[m][o] \in Int /\ l.pos[n][o] + l.size[n][o] \in Int
          /\ l.pos[n][o] + l.size[n][o] - l.pos[n][o] = l.size[n][o]
      BY <1>2
    <2>3. /\ q + l.size[m][o] - q >= MinOverlap
          /\ q + l.size[m][o] - l.pos[n][o] >= MinOverlap
          /\ l.pos[n][o] + l.size[n][o] - q >= MinOverlap
          /\ l.pos[n][o] + l.size[n][o] - l.pos[n][o] >= MinOverlap
      BY <2>2 DEF Holds, o
    <2> DEFINE hm == High(k, m, o)
               hn == High(k, n, o)
               lm == Low(k, m, o)
               ln == Low(k, n, o)
    <2>4. hm \in Int /\ hn \in Int /\ lm \in Int /\ ln \in Int /\ MinOverlap \in Int
      BY <1>1, <1>2, <2>1
    <2>5. /\ hm - lm >= MinOverlap /\ hm - ln >= MinOverlap
          /\ hn - lm >= MinOverlap /\ hn - ln >= MinOverlap
      <3> HIDE DEF hm, hn, lm, ln
      <3>1. hm = q + l.size[m][o] /\ hn = l.pos[n][o] + l.size[n][o] /\ lm = q /\ ln = l.pos[n][o]
        BY <2>1 DEF hm, hn, lm, ln
      <3> QED BY <1>1, <1>2, <2>2, <2>3, <2>4, <3>1
    <2> HIDE DEF hm, hn, lm, ln
    <2>6. Least(hm, hn) - Most(lm, ln) >= MinOverlap
      BY <2>4, <2>5, LeastAndMost
    <2> QED BY <2>6 DEF hm, hn, lm, ln
  <1> QED BY <1>6, <1>7, <1>8 DEF Attached, k, p, side, o

\* Where the corners are, and where monitors hang
Starts(l, m, n, o) == Low(l, n, o)
Finishes(l, m, n, o) == High(l, n, o) - l.size[m][o]
Centred(l, m, n, o) == Low(l, n, o) + l.size[n][o] \div 2 - l.size[m][o] \div 2
HangsLow(l, m, n, o) == Low(l, n, o) - l.size[m][o] + MinOverlap
HangsHigh(l, m, n, o) == High(l, n, o) - MinOverlap

LEMMA EveryEndHolds ==
    ASSUME NEW l \in LayoutType, Large(l), NEW m \in Monitors, NEW n \in Monitors, NEW o \in Axes
    PROVE  \A q \in {Starts(l, m, n, o), Finishes(l, m, n, o), Centred(l, m, n, o),
                     HangsLow(l, m, n, o), HangsHigh(l, m, n, o)} :
                q \in Int /\ Holds(l, m, n, o, q)
  <1> DEFINE at == l.pos[n][o]
             u  == l.size[m][o]
             v  == l.size[n][o]
  <1>1. /\ at \in Int /\ u \in Int /\ v \in Int /\ MinOverlap \in Nat
        /\ u >= MinOverlap /\ v >= MinOverlap
    BY Coordinates, Parameters DEF Large
  <1>2. /\ Starts(l, m, n, o) = at /\ Finishes(l, m, n, o) = at + v - u
        /\ Centred(l, m, n, o) = at + v \div 2 - u \div 2
        /\ HangsLow(l, m, n, o) = at - u + MinOverlap
        /\ HangsHigh(l, m, n, o) = at + v - MinOverlap
    <2>1. Low(l, n, o) = at /\ High(l, n, o) = at + v /\ l.size[m][o] = u /\ l.size[n][o] = v
      BY DEF Low, High
    <2> HIDE DEF at, u, v
    <2>2. Starts(l, m, n, o) = at /\ Finishes(l, m, n, o) = at + v - u
      BY <1>1, <2>1 DEF Starts, Finishes
    <2>3. Centred(l, m, n, o) = at + v \div 2 - u \div 2
      BY <2>1 DEF Centred
    <2>4. HangsLow(l, m, n, o) = at - u + MinOverlap /\ HangsHigh(l, m, n, o) = at + v - MinOverlap
      BY <1>1, <2>1 DEF HangsLow, HangsHigh
    <2> QED BY <2>2, <2>3, <2>4
  <1>3. \A q : Holds(l, m, n, o, q) <=>
            /\ q + u - q >= MinOverlap /\ q + u - at >= MinOverlap
            /\ at + v - q >= MinOverlap /\ v >= MinOverlap
    BY DEF Holds
  <1> HIDE DEF at, u, v
  <1>4. Starts(l, m, n, o) \in Int /\ Holds(l, m, n, o, Starts(l, m, n, o))
    BY <1>1, <1>2, <1>3
  <1>5. Finishes(l, m, n, o) \in Int /\ Holds(l, m, n, o, Finishes(l, m, n, o))
    BY <1>1, <1>2, <1>3
  <1>6. Centred(l, m, n, o) \in Int /\ Holds(l, m, n, o, Centred(l, m, n, o))
    <2> DEFINE hu == u \div 2
               hv == v \div 2
    <2>1. /\ hu \in Int /\ 2 * hu <= u /\ u <= 2 * hu + 1
          /\ hv \in Int /\ 2 * hv <= v /\ v <= 2 * hv + 1
      BY <1>1
    <2>2. Centred(l, m, n, o) = at + hv - hu
      BY <1>2
    <2> HIDE DEF hu, hv
    <2> QED BY <1>1, <1>3, <2>1, <2>2
  <1>7. HangsLow(l, m, n, o) \in Int /\ Holds(l, m, n, o, HangsLow(l, m, n, o))
    BY <1>1, <1>2, <1>3
  <1>8. HangsHigh(l, m, n, o) \in Int /\ Holds(l, m, n, o, HangsHigh(l, m, n, o))
    BY <1>1, <1>2, <1>3
  <1> QED BY <1>4, <1>5, <1>6, <1>7, <1>8

\* A candidate beside n on axis a, at q on the other one
End(l, m, n, a, i, q, hang) == Candidate(On(a, Sides(l, m, n, a)[i], q), Axes, a, hang)

LEMMA EndFacts ==
    ASSUME NEW l \in LayoutType, NEW m \in Monitors, NEW n \in Monitors,
           NEW a \in Axes, NEW i \in 1..2, NEW q \in Int, NEW hang \in -1..1
    PROVE  LET c == End(l, m, n, a, i, q, hang)
           IN  /\ c \in CandidateType
               /\ c.dirs = Axes /\ c.axis = a /\ c.hang = hang
               /\ c.to = On(a, Sides(l, m, n, a)[i], q)
  <1>1. On(a, Sides(l, m, n, a)[i], q) \in Points
    BY SidesFacts, OnFacts
  <1> QED BY <1>1 DEF End, Candidate, CandidateType

LEMMA QsAreNumbers ==
    ASSUME NEW l \in LayoutType, NEW m \in Monitors, NEW n \in Monitors, NEW o \in Axes
    PROVE  {Starts(l, m, n, o), Finishes(l, m, n, o), Centred(l, m, n, o),
            HangsLow(l, m, n, o), HangsHigh(l, m, n, o)} \subseteq Int
  <1>1. l.pos[n][o] \in Int /\ l.size[m][o] \in Int /\ l.size[n][o] \in Int /\ MinOverlap \in Int
    BY Coordinates, Parameters
  <1>2. l.size[m][o] \div 2 \in Int /\ l.size[n][o] \div 2 \in Int
    BY <1>1
  <1> QED BY <1>1, <1>2
          DEF Starts, Finishes, Centred, HangsLow, HangsHigh, Low, High

LEMMA CornersFacts ==
    ASSUME NEW l \in LayoutType, NEW m \in Monitors, NEW n \in Monitors,
           NEW a \in Axes, NEW i \in 1..2
    PROVE  /\ Corners(l, m, n, a, i) \in Seq(CandidateType)
           /\ \A c : In(c, Corners(l, m, n, a, i)) <=>
                \/ c = End(l, m, n, a, i, Starts(l, m, n, Other(a)), 0)
                \/ c = End(l, m, n, a, i, Finishes(l, m, n, Other(a)), 0)
                \/ a = "y" /\ c = End(l, m, n, a, i, Centred(l, m, n, Other(a)), 0)
  <1> DEFINE o  == Other(a)
             c1 == End(l, m, n, a, i, Starts(l, m, n, o), 0)
             c2 == End(l, m, n, a, i, Finishes(l, m, n, o), 0)
             c3 == End(l, m, n, a, i, Centred(l, m, n, o), 0)
             t  == IF a = "y" THEN <<c3>> ELSE <<>>
  <1>1. o \in Axes /\ 0 \in -1..1
    BY AxesFacts
  <1>2. c1 \in CandidateType /\ c2 \in CandidateType /\ c3 \in CandidateType
    <2> HIDE DEF o
    <2> QED BY <1>1, QsAreNumbers, EndFacts
  <1>3. Corners(l, m, n, a, i) = <<c1, c2>> \o t
    BY DEF Corners, End, Starts, Finishes, Centred
  <1> HIDE DEF c1, c2, c3
  <1>4. t \in Seq(CandidateType) /\ \A c : In(c, t) <=> a = "y" /\ c = c3
    <2>1. CASE a = "y"
      BY <1>2, <2>1, InSingle
    <2>2. CASE a # "y"
      BY <2>2 DEF In
    <2> QED BY <2>1, <2>2
  <1> HIDE DEF t
  <1>5. /\ <<c1, c2>> \o t \in Seq(CandidateType)
        /\ \A c : In(c, <<c1, c2>> \o t) <=> c = c1 \/ c = c2 \/ (a = "y" /\ c = c3)
    <2> DEFINE d == <<c1, c2>>
    <2>1. d \in Seq(CandidateType) /\ \A c : In(c, d) <=> c = c1 \/ c = c2
      BY <1>2, InPair
    <2> HIDE DEF d
    <2>2. d \o t \in Seq(CandidateType) /\ \A c : In(c, d \o t) <=> In(c, d) \/ In(c, t)
      BY <1>4, <2>1, InConcat
    <2> QED BY <1>4, <2>1, <2>2 DEF d
  <1> QED BY <1>3, <1>5 DEF c1, c2, c3

LEMMA HangingFacts ==
    ASSUME NEW l \in LayoutType, NEW m \in Monitors, NEW n \in Monitors,
           NEW a \in Axes, NEW i \in 1..2
    PROVE  /\ Hanging(l, m, n, a, i) \in Seq(CandidateType)
           /\ \A c : In(c, Hanging(l, m, n, a, i)) <=>
                \/ c = End(l, m, n, a, i, HangsLow(l, m, n, Other(a)), 1)
                \/ c = End(l, m, n, a, i, HangsHigh(l, m, n, Other(a)), -1)
  <1> DEFINE o  == Other(a)
             c1 == End(l, m, n, a, i, HangsLow(l, m, n, o), 1)
             c2 == End(l, m, n, a, i, HangsHigh(l, m, n, o), -1)
  <1>1. o \in Axes /\ 1 \in -1..1 /\ -1 \in -1..1
    BY AxesFacts
  <1>2. c1 \in CandidateType /\ c2 \in CandidateType
    <2> HIDE DEF o
    <2> QED BY <1>1, QsAreNumbers, EndFacts
  <1>3. Hanging(l, m, n, a, i) = <<c1, c2>>
    BY DEF Hanging, End, HangsLow, HangsHigh
  <1> HIDE DEF c1, c2
  <1>4. <<c1, c2>> \in Seq(CandidateType) /\ \A c : In(c, <<c1, c2>>) <=> c = c1 \/ c = c2
    BY <1>2, InPair
  <1> QED BY <1>3, <1>4 DEF c1, c2

\* Four sequences in a row
Four(s1, s2, s3, s4) == s1 \o s2 \o s3 \o s4

LEMMA InFour ==
    ASSUME NEW S, NEW s1 \in Seq(S), NEW s2 \in Seq(S), NEW s3 \in Seq(S), NEW s4 \in Seq(S)
    PROVE  /\ Four(s1, s2, s3, s4) \in Seq(S)
           /\ \A c : In(c, Four(s1, s2, s3, s4)) <=>
                        In(c, s1) \/ In(c, s2) \/ In(c, s3) \/ In(c, s4)
  <1>1. s1 \o s2 \in Seq(S) /\ \A c : In(c, s1 \o s2) <=> In(c, s1) \/ In(c, s2)
    BY InConcat
  <1> DEFINE t == s1 \o s2
  <1> HIDE DEF t
  <1>2. t \o s3 \in Seq(S) /\ \A c : In(c, t \o s3) <=> In(c, t) \/ In(c, s3)
    BY <1>1, InConcat, ZenonT(40) DEF t
  <1> DEFINE u == t \o s3
  <1> HIDE DEF u
  <1>3. u \o s4 \in Seq(S) /\ \A c : In(c, u \o s4) <=> In(c, u) \/ In(c, s4)
    BY <1>2, InConcat DEF u
  <1> QED BY <1>1, <1>2, <1>3 DEF t, u, Four

\* The candidates at side i of n on axis a
IsEnd(l, m, n, a, i, c) ==
    \/ c = End(l, m, n, a, i, Starts(l, m, n, Other(a)), 0)
    \/ c = End(l, m, n, a, i, Finishes(l, m, n, Other(a)), 0)
    \/ a = "y" /\ c = End(l, m, n, a, i, Centred(l, m, n, Other(a)), 0)
    \/ c = End(l, m, n, a, i, HangsLow(l, m, n, Other(a)), 1)
    \/ c = End(l, m, n, a, i, HangsHigh(l, m, n, Other(a)), -1)

LEMMA SideEnds ==
    ASSUME NEW l \in LayoutType, NEW m \in Monitors, NEW n \in Monitors,
           NEW a \in Axes, NEW i \in 1..2, NEW c
    PROVE  In(c, Corners(l, m, n, a, i)) \/ In(c, Hanging(l, m, n, a, i))
                <=> IsEnd(l, m, n, a, i, c)
  <1> DEFINE corner == \/ c = End(l, m, n, a, i, Starts(l, m, n, Other(a)), 0)
                       \/ c = End(l, m, n, a, i, Finishes(l, m, n, Other(a)), 0)
                       \/ a = "y" /\ c = End(l, m, n, a, i, Centred(l, m, n, Other(a)), 0)
             hanging == \/ c = End(l, m, n, a, i, HangsLow(l, m, n, Other(a)), 1)
                        \/ c = End(l, m, n, a, i, HangsHigh(l, m, n, Other(a)), -1)
  <1>1. In(c, Corners(l, m, n, a, i)) <=> corner
    BY CornersFacts
  <1>2. In(c, Hanging(l, m, n, a, i)) <=> hanging
    BY HangingFacts
  <1>3. IsEnd(l, m, n, a, i, c) <=> corner \/ hanging
    BY DEF IsEnd
  <1> HIDE DEF corner, hanging
  <1> QED BY <1>1, <1>2, <1>3

\* What the candidates of Ends are: the corners and, in free snapping, the hanging ones.
LEMMA EndsFacts ==
    ASSUME NEW l \in LayoutType, NEW m \in Monitors, NEW n \in Monitors, NEW reach \in Reaches
    PROVE  /\ Ends(l, m, n, reach) \in Seq(CandidateType)
           /\ \A c : In(c, Ends(l, m, n, reach)) =>
                \E a \in Axes, i \in 1..2 : IsEnd(l, m, n, a, i, c)
           /\ reach.free => \A a \in Axes, i \in 1..2 : \A c :
                IsEnd(l, m, n, a, i, c) => In(c, Ends(l, m, n, reach))
  <1> DEFINE Fits(c) == \E a \in Axes, i \in 1..2 : IsEnd(l, m, n, a, i, c)
             cs == AllCorners(l, m, n)
             hs == AllHanging(l, m, n)
             t  == IF reach.free THEN hs ELSE <<>>
  <1>1. "x" \in Axes /\ "y" \in Axes /\ 1 \in 1..2 /\ 2 \in 1..2
        /\ 0 \in -1..1 /\ 1 \in -1..1 /\ -1 \in -1..1
    BY AxesFacts
  <1>2. ASSUME NEW a \in Axes, NEW i \in 1..2, NEW c,
               In(c, Corners(l, m, n, a, i)) \/ In(c, Hanging(l, m, n, a, i))
        PROVE  Fits(c)
    <2>1. IsEnd(l, m, n, a, i, c)
      BY <1>2, SideEnds
    <2> QED BY <2>1
  <1> HIDE DEF Fits
  <1>4. /\ cs \in Seq(CandidateType)
        /\ \A c : In(c, cs) <=> \/ In(c, Corners(l, m, n, "y", 1)) \/ In(c, Corners(l, m, n, "y", 2))
                                \/ In(c, Corners(l, m, n, "x", 1)) \/ In(c, Corners(l, m, n, "x", 2))
    <2> DEFINE s1 == Corners(l, m, n, "y", 1)
               s2 == Corners(l, m, n, "y", 2)
               s3 == Corners(l, m, n, "x", 1)
               s4 == Corners(l, m, n, "x", 2)
    <2>1. /\ s1 \in Seq(CandidateType) /\ s2 \in Seq(CandidateType)
          /\ s3 \in Seq(CandidateType) /\ s4 \in Seq(CandidateType)
      BY <1>1, CornersFacts
    <2>3. cs = Four(s1, s2, s3, s4)
      BY DEF AllCorners, Four
    <2> HIDE DEF s1, s2, s3, s4, cs
    <2>4. /\ Four(s1, s2, s3, s4) \in Seq(CandidateType)
          /\ \A c : In(c, Four(s1, s2, s3, s4)) <=>
                        In(c, s1) \/ In(c, s2) \/ In(c, s3) \/ In(c, s4)
      BY <2>1, InFour
    <2> QED BY <2>3, <2>4 DEF s1, s2, s3, s4
  <1>5. /\ hs \in Seq(CandidateType)
        /\ \A c : In(c, hs) <=> \/ In(c, Hanging(l, m, n, "y", 1)) \/ In(c, Hanging(l, m, n, "y", 2))
                                \/ In(c, Hanging(l, m, n, "x", 1)) \/ In(c, Hanging(l, m, n, "x", 2))
    <2> DEFINE s1 == Hanging(l, m, n, "y", 1)
               s2 == Hanging(l, m, n, "y", 2)
               s3 == Hanging(l, m, n, "x", 1)
               s4 == Hanging(l, m, n, "x", 2)
    <2>1. /\ s1 \in Seq(CandidateType) /\ s2 \in Seq(CandidateType)
          /\ s3 \in Seq(CandidateType) /\ s4 \in Seq(CandidateType)
      BY <1>1, HangingFacts
    <2>3. hs = Four(s1, s2, s3, s4)
      BY DEF AllHanging, Four
    <2> HIDE DEF s1, s2, s3, s4, hs
    <2>4. /\ Four(s1, s2, s3, s4) \in Seq(CandidateType)
          /\ \A c : In(c, Four(s1, s2, s3, s4)) <=>
                        In(c, s1) \/ In(c, s2) \/ In(c, s3) \/ In(c, s4)
      BY <2>1, InFour
    <2> QED BY <2>3, <2>4 DEF s1, s2, s3, s4
  <1> HIDE DEF cs, hs
  <1>6. \A c : In(c, cs) \/ In(c, hs) => Fits(c)
    BY <1>1, <1>2, <1>4, <1>5
  <1>7. \A a \in Axes, i \in 1..2 : \A c :
            /\ In(c, Corners(l, m, n, a, i)) => In(c, cs)
            /\ In(c, Hanging(l, m, n, a, i)) => In(c, hs)
    BY <1>4, <1>5, AxesFacts
  <1>8. t \in Seq(CandidateType) /\ \A c : In(c, t) <=> reach.free /\ In(c, hs)
    <2>1. CASE reach.free
      BY <1>5, <2>1
    <2>2. CASE ~reach.free
      BY <2>2 DEF In
    <2> QED BY <2>1, <2>2
  <1> HIDE DEF t
  <1>9. Ends(l, m, n, reach) = cs \o t
    BY DEF Ends, cs, hs, t
  <1>10. cs \o t \in Seq(CandidateType) /\ \A c : In(c, cs \o t) <=> In(c, cs) \/ In(c, t)
    BY <1>4, <1>8, InConcat
  <1>11. \A c : In(c, Ends(l, m, n, reach)) => Fits(c)
    BY <1>6, <1>8, <1>9, <1>10
  <1>12. ASSUME reach.free, NEW a \in Axes, NEW i \in 1..2, NEW c, IsEnd(l, m, n, a, i, c)
         PROVE  In(c, Ends(l, m, n, reach))
    <2>1. In(c, Corners(l, m, n, a, i)) \/ In(c, Hanging(l, m, n, a, i))
      BY <1>12, SideEnds
    <2> QED BY <1>7, <1>8, <1>9, <1>10, <1>12, <2>1
  <1> QED BY <1>9, <1>10, <1>11, <1>12 DEF Fits

\* The monitors are diagonal to each other, or one is beside the other at a distance that
\* the code tells from none.
Close(l, m, n, zoom) ==
    (\E a \in Axes : Share(l, m, n, a)) => \E a \in Axes : Gap(l, m, n, a, zoom) < Far * zoom

Edge(l, m, n, a, i) == Candidate([l.pos[m] EXCEPT ![a] = Sides(l, m, n, a)[i]], {a}, a, 0)

LEMMA EdgeFacts ==
    ASSUME NEW l \in LayoutType, NEW m \in Monitors, NEW n \in Monitors,
           NEW a \in Axes, NEW i \in 1..2
    PROVE  LET c == Edge(l, m, n, a, i)
           IN  /\ c \in CandidateType
               /\ c.dirs = {a} /\ c.axis = a
               /\ c.to[a] = Sides(l, m, n, a)[i]
               /\ c.to[Other(a)] = l.pos[m][Other(a)]
  <1> DEFINE v == Sides(l, m, n, a)[i]
             p == [l.pos[m] EXCEPT ![a] = v]
  <1>1. v \in Int /\ l.pos[m] \in Points
    BY SidesFacts DEF LayoutType
  <1> HIDE DEF v
  <1>2. p \in Points /\ p[a] = v /\ p[Other(a)] = l.pos[m][Other(a)]
    <2> DEFINE q == l.pos[m]
    <2>1. q \in Points /\ p = [q EXCEPT ![a] = v]
      BY <1>1
    <2> DEFINE r == [q EXCEPT ![a] = v]
    <2> HIDE DEF q, p
    <2>2. r \in Points /\ r[a] = v /\ r[Other(a)] = q[Other(a)]
      <3>1. v \in Int /\ q \in Points
        BY <1>1, <2>1
      <3> QED BY <3>1, ExceptFacts
    <2>3. p = r
      BY <2>1
    <2> HIDE DEF r
    <2> QED BY <2>2, <2>3 DEF q
  <1> HIDE DEF p
  <1>3. {a} \in SUBSET Axes /\ 0 \in -1..1
    OBVIOUS
  <1>4. Edge(l, m, n, a, i) = Candidate(p, {a}, a, 0)
    BY DEF Edge, p, v
  <1> QED BY <1>2, <1>3, <1>4 DEF Candidate, CandidateType, v

\* The edges are those of one axis, if there are any.
EdgesOf(l, m, n, a) == <<Edge(l, m, n, a, 1), Edge(l, m, n, a, 2)>>

LEMMA EdgesOfFacts ==
    ASSUME NEW l \in LayoutType, NEW m \in Monitors, NEW n \in Monitors, NEW a \in Axes
    PROVE  /\ EdgesOf(l, m, n, a) \in Seq(CandidateType) /\ Len(EdgesOf(l, m, n, a)) = 2
           /\ \A i \in 1..2 : EdgesOf(l, m, n, a)[i] = Edge(l, m, n, a, i)
  <1> DEFINE c1 == Edge(l, m, n, a, 1)
             c2 == Edge(l, m, n, a, 2)
  <1>1. c1 \in CandidateType /\ c2 \in CandidateType
    BY EdgeFacts
  <1> HIDE DEF c1, c2
  <1>2. EdgesOf(l, m, n, a) = <<c1, c2>>
    BY DEF EdgesOf, c1, c2
  <1>3. <<c1, c2>> \in Seq(CandidateType) /\ Len(<<c1, c2>>) = 2
    BY <1>1
  <1>4. EdgesOf(l, m, n, a)[1] = c1 /\ EdgesOf(l, m, n, a)[2] = c2
    BY <1>2
  <1> QED BY <1>2, <1>3, <1>4 DEF c1, c2

LEMMA GapIsNumber ==
    ASSUME NEW l \in LayoutType, NEW m \in Monitors, NEW n \in Monitors, NEW a \in Axes,
           NEW zoom \in Nat
    PROVE  /\ Gap(l, m, n, a, zoom) \in Int /\ Far * zoom \in Int
           /\ ~Share(l, m, n, Other(a)) => Gap(l, m, n, a, zoom) = Far * zoom
  <1>1. \A i, j \in Int : AbsDiff(i, j) \in Int /\ Least(i, j) \in Int
    BY DEF AbsDiff, Least
  <1> DEFINE s1 == Sides(l, m, n, a)[1]
             s2 == Sides(l, m, n, a)[2]
             d1 == AbsDiff(Low(l, m, a), s1)
             d2 == AbsDiff(Low(l, m, a), s2)
  <1>2. Low(l, m, a) \in Int /\ s1 \in Int /\ s2 \in Int
    BY Coordinates, SidesFacts DEF Low
  <1>3. d1 \in Int /\ d2 \in Int
    <2> HIDE DEF s1, s2
    <2> QED BY <1>1, <1>2
  <1>4. Far * zoom \in Int
    BY Parameters
  <1>5. Gap(l, m, n, a, zoom) = IF ~Share(l, m, n, Other(a)) THEN Far * zoom ELSE Least(d1, d2)
    BY DEF Gap
  <1> HIDE DEF d1, d2
  <1>6. Least(d1, d2) \in Int
    BY <1>1, <1>3
  <1> QED BY <1>4, <1>5, <1>6

LEMMA EdgesFacts ==
    ASSUME NEW l \in LayoutType, NEW m \in Monitors, NEW n \in Monitors, NEW zoom \in Nat
    PROVE  /\ \/ Edges(l, m, n, zoom) = <<>>
              \/ \E a \in Axes : Edges(l, m, n, zoom) = EdgesOf(l, m, n, a)
           /\ Close(l, m, n, zoom) =>
                \/ /\ Edges(l, m, n, zoom) = <<>>
                   /\ \A a \in Axes : ~Share(l, m, n, a)
                \/ \E a \in Axes : /\ Edges(l, m, n, zoom) = EdgesOf(l, m, n, a)
                                   /\ Share(l, m, n, Other(a))
  <1> DEFINE gx == Gap(l, m, n, "x", zoom)
             gy == Gap(l, m, n, "y", zoom)
             f  == Far * zoom
  <1>1. /\ Axes = {"x", "y"} /\ Other("x") = "y" /\ Other("y") = "x"
    BY AxesFacts DEF Other
  <1>2. /\ gx \in Int /\ gy \in Int /\ f \in Int
        /\ ~Share(l, m, n, "y") => gx = f
        /\ ~Share(l, m, n, "x") => gy = f
    BY <1>1, GapIsNumber
  <1>3. Edges(l, m, n, zoom) =
            IF gy < gx THEN EdgesOf(l, m, n, "y")
            ELSE IF gx < f THEN EdgesOf(l, m, n, "x") ELSE <<>>
    BY DEF Edges, EdgesOf, Edge
  <1>4. Close(l, m, n, zoom) <=> (Share(l, m, n, "x") \/ Share(l, m, n, "y") => gx < f \/ gy < f)
    BY <1>1 DEF Close
  <1> HIDE DEF gx, gy, f
  <1>5. CASE gy < gx
    <2>1. Close(l, m, n, zoom) => Share(l, m, n, "x")
      BY <1>2, <1>4, <1>5
    <2> QED BY <1>1, <1>3, <1>5, <2>1
  <1>6. CASE ~(gy < gx) /\ gx < f
    <2>1. Share(l, m, n, "y")
      BY <1>2, <1>6
    <2> QED BY <1>1, <1>3, <1>6, <2>1
  <1>7. CASE ~(gy < gx) /\ ~(gx < f)
    <2>1. Close(l, m, n, zoom) => ~Share(l, m, n, "x") /\ ~Share(l, m, n, "y")
      BY <1>2, <1>4, <1>7
    <2> QED BY <1>1, <1>3, <1>7, <2>1
  <1> QED BY <1>5, <1>6, <1>7

(* Loops *)

LEMMA LeastNumber ==
    ASSUME NEW S \in SUBSET Nat, S # {}
    PROVE  \E m \in S : \A n \in S : m <= n
<1>1. \E m \in S : \A n \in S : ~ (<<n, m>> \in OpToRel(<, Nat))
  BY NatLessThanWellFounded, WFMin
<1>2. \A m, n \in Nat : ~ (<<n, m>> \in OpToRel(<, Nat)) => m <= n
  BY DEF OpToRel
<1> QED BY <1>1, <1>2

\* What a sequence starts with and every step keeps is true of every member.
LEMMA EveryMember ==
    ASSUME NEW S, NEW N \in Nat, NEW f, f[0] \in S,
           \A n \in 1..N : f[n - 1] \in S => f[n] \in S
    PROVE  f[N] \in S
<1> DEFINE Bad == {n \in Nat : n <= N /\ f[n] \notin S}
<1>1. Bad = {}
  <2> SUFFICES ASSUME Bad # {} PROVE FALSE
    OBVIOUS
  <2>1. PICK k \in Bad : \A j \in Bad : k <= j
    BY LeastNumber
  <2>2. k \in Nat /\ k # 0 /\ k <= N
    OBVIOUS
  <2>3. k - 1 \in Nat /\ k - 1 \notin Bad /\ k - 1 <= N /\ k \in 1..N
    BY <2>1, <2>2
  <2> QED BY <2>1, <2>3
<1> QED BY <1>1

LEMMA AllMembers ==
    ASSUME NEW S, NEW N \in Nat, NEW f, f[0] \in S,
           \A n \in 1..N : f[n - 1] \in S => f[n] \in S
    PROVE  \A n \in 0..N : f[n] \in S
<1> SUFFICES ASSUME NEW n \in 0..N PROVE f[n] \in S
  OBVIOUS
<1>1. n \in Nat /\ \A k \in 1..n : f[k - 1] \in S => f[k] \in S
  OBVIOUS
<1> QED BY <1>1, EveryMember

Loops(f, N, base, g) == f = [i \in 0..N |-> IF i = 0 THEN base ELSE g[<<f[i - 1], i>>]]

\* A loop has values after each of its steps, which g gives as values.
LEMMA LoopExists ==
    ASSUME NEW N \in Nat, NEW base, NEW g
    PROVE  \E f : Loops(f, N, base, g)
<1> DEFINE Is(n, f) == f = [i \in 0..n |-> IF i = 0 THEN base ELSE g[<<f[i - 1], i>>]]
           Bad == {n \in Nat : ~ \E f : Is(n, f)}
<1>1. \E f : Is(0, f)
  <2> DEFINE f == [i \in 0..0 |-> base]
  <2>1. f = [i \in 0..0 |-> IF i = 0 THEN base ELSE g[<<f[i - 1], i>>]]
    OBVIOUS
  <2> QED BY <2>1
<1>2. ASSUME NEW n \in Nat, NEW f, Is(n, f)
      PROVE  \E h : Is(n + 1, h)
  <2> DEFINE h == [i \in 0..n + 1 |-> IF i = n + 1 THEN g[<<f[n], n + 1>>] ELSE f[i]]
  <2>1. \A i \in 0..n : f[i] = IF i = 0 THEN base ELSE g[<<f[i - 1], i>>]
    BY <1>2
  <2>2. h[n + 1] = g[<<h[n], n + 1>>] /\ \A i \in 0..n : h[i] = f[i]
    <3>1. n + 1 \in 0..n + 1 /\ n \in 0..n + 1 /\ n # n + 1
      OBVIOUS
    <3>2. \A i \in 0..n : i \in 0..n + 1 /\ i # n + 1
      OBVIOUS
    <3> QED BY <3>1, <3>2
  <2>3. ASSUME NEW i \in 0..n + 1
        PROVE  h[i] = IF i = 0 THEN base ELSE g[<<h[i - 1], i>>]
    <3> HIDE DEF h
    <3>1. CASE i = n + 1
      <4>1. i # 0 /\ i - 1 = n
        BY <3>1
      <4> QED BY <2>2, <3>1, <4>1
    <3>2. CASE i = 0
      <4>1. 0 \in 0..n
        OBVIOUS
      <4> QED BY <2>1, <2>2, <3>2, <4>1
    <3>3. CASE i # n + 1 /\ i # 0
      <4>1. i \in 0..n /\ i - 1 \in 0..n
        BY <3>3
      <4>2. h[i] = f[i] /\ h[i - 1] = f[i - 1]
        BY <2>2, <4>1
      <4> QED BY <2>1, <3>3, <4>1, <4>2
    <3> QED BY <3>1, <3>2, <3>3
  <2>4. h = [i \in 0..n + 1 |-> h[i]]
    OBVIOUS
  <2> HIDE DEF h
  <2>5. h = [i \in 0..n + 1 |-> IF i = 0 THEN base ELSE g[<<h[i - 1], i>>]]
    BY <2>3, <2>4
  <2> QED BY <2>5
<1>3. Bad = {}
  <2> HIDE DEF Is
  <2> SUFFICES ASSUME Bad # {} PROVE FALSE
    OBVIOUS
  <2>1. PICK k \in Bad : \A j \in Bad : k <= j
    BY LeastNumber
  <2>2. k \in Nat /\ k # 0
    BY <1>1
  <2>3. k - 1 \in Nat /\ k - 1 \notin Bad /\ (k - 1) + 1 = k
    BY <2>1, <2>2
  <2> QED BY <1>2, <2>1, <2>3
<1>4. \E f : Is(N, f)
  <2> HIDE DEF Is
  <2> QED BY <1>3
<1> QED BY <1>4 DEF Loops

\* The same, where every step leads from S to S.
LEMMA TypedLoopExists ==
    ASSUME NEW S, NEW N \in Nat, NEW base \in S, NEW g \in [S \X (1..N) -> S]
    PROVE  \E f \in [0..N -> S] : Loops(f, N, base, g)
<1>0. \E f : Loops(f, N, base, g)
  BY LoopExists
<1>0a. PICK f : Loops(f, N, base, g)
  BY <1>0
<1>1. f = [i \in 0..N |-> IF i = 0 THEN base ELSE g[<<f[i - 1], i>>]]
  BY <1>0a DEF Loops
<1>2. f[0] = base /\ \A i \in 1..N : f[i] = g[<<f[i - 1], i>>]
  <2>1. 0 \in 0..N /\ \A i \in 1..N : i \in 0..N /\ i # 0
    OBVIOUS
  <2> QED BY <1>1, <2>1
<1>3. \A i \in 1..N : f[i - 1] \in S => f[i] \in S
  BY <1>2
<1>4. \A i \in 0..N : f[i] \in S
  BY <1>2, <1>3, AllMembers
<1>5. f = [i \in 0..N |-> f[i]]
  BY <1>1
<1>6. f \in [0..N -> S]
  BY <1>4, <1>5
<1> QED BY <1>0a, <1>6

(* Snapping *)

\* The candidate c has been taken.
Takes(t, s, from, c) ==
    /\ t \in Snaps
    /\ t.snapped = s.snapped \cup c.dirs
    /\ \A a \in Axes : t.pos[a] = IF a \in c.dirs THEN c.to[a] ELSE s.pos[a]
    /\ \A a \in Axes : t.dist[a] = IF a \in c.dirs THEN AbsDiff(from[a], c.to[a]) ELSE s.dist[a]

LEMMA UpdateFacts ==
    ASSUME NEW s \in Snaps, NEW from \in Points, NEW c \in CandidateType, NEW reach
    PROVE  LET t == MaybeUpdateSnap(s, from, c, reach)
           IN  /\ t \in Snaps
               /\ t = s \/ Takes(t, s, from, c)
               /\ Allowed(from, c, reach) /\ Better(s, from, c) => Takes(t, s, from, c)
               /\ ~(Allowed(from, c, reach) /\ Better(s, from, c)) => t = s
  <1> DEFINE pos  == [a \in Axes |-> IF a \in c.dirs THEN c.to[a] ELSE s.pos[a]]
             dist == [a \in Axes |-> IF a \in c.dirs THEN AbsDiff(from[a], c.to[a])
                                                     ELSE s.dist[a]]
             t    == [pos |-> pos, dist |-> dist, snapped |-> s.snapped \cup c.dirs]
  <1>1. /\ \A a \in Axes : c.to[a] \in Int /\ s.pos[a] \in Int /\ s.dist[a] \in Int
                           /\ from[a] \in Int
        /\ c.dirs \subseteq Axes /\ s.snapped \subseteq Axes
    BY DEF Snaps, CandidateType, Points
  <1>2. \A i, j \in Int : AbsDiff(i, j) \in Int
    BY DEF AbsDiff
  <1>3. pos \in Points /\ dist \in Points
    BY <1>1, <1>2 DEF Points
  <1>4. Takes(t, s, from, c)
    <2>1. t \in Snaps
      <3> HIDE DEF dist, pos
      <3> QED BY <1>1, <1>3 DEF Snaps
    <2>2. \A a \in Axes : dist[a] = IF a \in c.dirs THEN AbsDiff(from[a], c.to[a]) ELSE s.dist[a]
      OBVIOUS
    <2>3. \A a \in Axes : pos[a] = IF a \in c.dirs THEN c.to[a] ELSE s.pos[a]
      OBVIOUS
    <2> HIDE DEF dist, pos
    <2> QED BY <2>1, <2>2, <2>3 DEF Takes
  <1>5. MaybeUpdateSnap(s, from, c, reach) =
            IF ~(Allowed(from, c, reach) /\ Better(s, from, c)) THEN s ELSE t
    BY DEF MaybeUpdateSnap
  <1> HIDE DEF t
  <1> QED BY <1>4, <1>5 DEF Takes

LEMMA CandidatesFacts ==
    ASSUME NEW l \in LayoutType, NEW m \in Monitors, NEW n \in Monitors, NEW reach \in Reaches
    PROVE  /\ Candidates(l, m, n, reach) \in Seq(CandidateType)
           /\ Edges(l, m, n, reach.zoom) \in Seq(CandidateType)
           /\ Ends(l, m, n, reach) \in Seq(CandidateType)
           /\ Candidates(l, m, n, reach) = Edges(l, m, n, reach.zoom) \o Ends(l, m, n, reach)
  <1>1. reach.zoom \in Nat
    BY DEF Reaches
  <1>2. Edges(l, m, n, reach.zoom) \in Seq(CandidateType)
    <2>1. CASE Edges(l, m, n, reach.zoom) = <<>>
      BY <2>1
    <2>2. ASSUME NEW a \in Axes, Edges(l, m, n, reach.zoom) = EdgesOf(l, m, n, a)
          PROVE  Edges(l, m, n, reach.zoom) \in Seq(CandidateType)
      BY <2>2, EdgesOfFacts
    <2> QED BY <1>1, <2>1, <2>2, EdgesFacts
  <1>3. Ends(l, m, n, reach) \in Seq(CandidateType)
    BY EndsFacts
  <1> QED BY <1>2, <1>3, InConcat DEF Candidates

LEMMA TryingSteps ==
    ASSUME NEW l \in LayoutType, NEW m \in Monitors, NEW n \in Monitors, NEW reach \in Reaches,
           NEW s \in Snaps
    PROVE  LET cs == Candidates(l, m, n, reach)
               f  == Trying(s, l, m, n, reach)
           IN  /\ f[0] = s
               /\ \A i \in 0..Len(cs) : f[i] \in Snaps
               /\ \A i \in 1..Len(cs) : f[i] = MaybeUpdateSnap(f[i - 1], l.pos[m], cs[i], reach)
  <1> DEFINE cs == Candidates(l, m, n, reach)
             N  == Len(cs)
             p  == l.pos[m]
             g  == [x \in Snaps \X (1..N) |-> MaybeUpdateSnap(x[1], p, cs[x[2]], reach)]
             Is(f) == f = [i \in 0..N |->
                            IF i = 0 THEN s ELSE MaybeUpdateSnap(f[i - 1], p, cs[i], reach)]
  <1>1. N \in Nat /\ p \in Points /\ \A i \in 1..N : cs[i] \in CandidateType
    BY CandidatesFacts DEF LayoutType
  <1>2. Trying(s, l, m, n, reach) = CHOOSE f : Is(f)
    BY DEF Trying
  <1> HIDE DEF cs, N, p
  <1>3. g \in [Snaps \X (1..N) -> Snaps]
    <2>1. ASSUME NEW x \in Snaps \X (1..N)
          PROVE  MaybeUpdateSnap(x[1], p, cs[x[2]], reach) \in Snaps
      <3>1. x[1] \in Snaps /\ cs[x[2]] \in CandidateType
        BY <1>1
      <3> QED BY <1>1, <3>1, UpdateFacts
    <2> QED BY <2>1
  <1>4. \A x \in Snaps, i \in 1..N : g[<<x, i>>] = MaybeUpdateSnap(x, p, cs[i], reach)
    OBVIOUS
  <1> HIDE DEF g
  <1>5. PICK f \in [0..N -> Snaps] : Loops(f, N, s, g)
    BY <1>1, <1>3, TypedLoopExists
  <1>6. \A i \in 0..N : (IF i = 0 THEN s ELSE g[<<f[i - 1], i>>]) =
                        IF i = 0 THEN s ELSE MaybeUpdateSnap(f[i - 1], p, cs[i], reach)
    <2> SUFFICES ASSUME NEW i \in 0..N, i # 0
                 PROVE  g[<<f[i - 1], i>>] = MaybeUpdateSnap(f[i - 1], p, cs[i], reach)
      OBVIOUS
    <2>1. i \in 1..N /\ f[i - 1] \in Snaps
      BY <1>1, <1>5
    <2> QED BY <1>4, <2>1
  <1>7. Is(f)
    <2>1. f = [i \in 0..N |-> IF i = 0 THEN s ELSE g[<<f[i - 1], i>>]]
      BY <1>5 DEF Loops
    <2> QED BY <1>6, <2>1
  <1> DEFINE h == CHOOSE f2 : Is(f2)
  <1>8. Is(h)
    BY <1>7
  <1> HIDE DEF h
  <1>9. h[0] = s /\ \A i \in 1..N : h[i] = MaybeUpdateSnap(h[i - 1], p, cs[i], reach)
    <2>1. 0 \in 0..N /\ \A i \in 1..N : i \in 0..N /\ i # 0
      BY <1>1
    <2> QED BY <1>8, <2>1
  <1>10. \A i \in 1..N : h[i - 1] \in Snaps => h[i] \in Snaps
    BY <1>1, <1>9, UpdateFacts
  <1>11. \A i \in 0..N : h[i] \in Snaps
    BY <1>1, <1>9, <1>10, AllMembers
  <1> QED BY <1>2, <1>9, <1>11 DEF h, cs, N, p

\* Every step from K on keeps what is true after step K.
LEMMA MembersFrom ==
    ASSUME NEW S, NEW N \in Nat, NEW K \in 0..N, NEW f, f[K] \in S,
           \A n \in K + 1..N : f[n - 1] \in S => f[n] \in S
    PROVE  f[N] \in S
<1> DEFINE h == [i \in 0..N - K |-> f[K + i]]
<1>1. N - K \in Nat /\ K \in Nat
  OBVIOUS
<1>2. h[0] = f[K] /\ h[N - K] = f[N]
  <2>1. 0 \in 0..N - K /\ N - K \in 0..N - K /\ K + 0 = K /\ K + (N - K) = N
    BY <1>1
  <2> QED BY <2>1
<1>3. ASSUME NEW n \in 1..N - K, h[n - 1] \in S
      PROVE  h[n] \in S
  <2>1. /\ n \in 0..N - K /\ n - 1 \in 0..N - K
        /\ K + n \in K + 1..N /\ K + (n - 1) = (K + n) - 1
    BY <1>1
  <2>2. h[n] = f[K + n] /\ h[n - 1] = f[(K + n) - 1]
    BY <2>1
  <2> HIDE DEF h
  <2> QED BY <1>3, <2>1, <2>2
<1> HIDE DEF h
<1>4. h[0] \in S
  BY <1>2
<1> QED BY <1>1, <1>2, <1>3, <1>4, EveryMember

Keeps(u, t) == u.snapped = t.snapped /\ u.pos = t.pos
\* The snap is at one of the ends.
AtEnd(l, m, n, reach, u) ==
    /\ u.snapped = Axes
    /\ \E c : In(c, Ends(l, m, n, reach)) /\ u.pos = c.to

\* Every end is where m is attached to n.
LEMMA EndsAttach ==
    ASSUME NEW l \in LayoutType, Large(l), NEW m \in Monitors, NEW n \in Monitors, m # n,
           NEW reach \in Reaches, NEW c, In(c, Ends(l, m, n, reach))
    PROVE  /\ c \in CandidateType /\ c.dirs = Axes
           /\ Attached(Moved(l, m, c.to), m, n, MinOverlap)
  <1>1. PICK a \in Axes, i \in 1..2 : IsEnd(l, m, n, a, i, c)
    BY EndsFacts
  <1>2. 0 \in -1..1 /\ 1 \in -1..1 /\ -1 \in -1..1
    OBVIOUS
  <1>3. PICK h \in -1..1 : \E q \in {Starts(l, m, n, Other(a)), Finishes(l, m, n, Other(a)),
                      Centred(l, m, n, Other(a)), HangsLow(l, m, n, Other(a)),
                      HangsHigh(l, m, n, Other(a))} :
                c = End(l, m, n, a, i, q, h)
    BY <1>1, <1>2 DEF IsEnd
  <1>3a. PICK q \in {Starts(l, m, n, Other(a)), Finishes(l, m, n, Other(a)),
                    Centred(l, m, n, Other(a)), HangsLow(l, m, n, Other(a)),
                    HangsHigh(l, m, n, Other(a))} : c = End(l, m, n, a, i, q, h)
    BY <1>3
  <1>4. q \in Int /\ Holds(l, m, n, Other(a), q)
    BY AxesFacts, EveryEndHolds
  <1>5. c \in CandidateType /\ c.dirs = Axes /\ c.to = On(a, Sides(l, m, n, a)[i], q)
    BY <1>3a, <1>4, EndFacts
  <1>6. Attached(Moved(l, m, On(a, Sides(l, m, n, a)[i], q)), m, n, MinOverlap)
    BY <1>4, EndIsAttached
  <1> QED BY <1>5, <1>6

\* An end that is tried is taken, or changes nothing.
LEMMA EndIsTried ==
    ASSUME NEW l \in LayoutType, Large(l), NEW m \in Monitors, NEW n \in Monitors, m # n,
           NEW reach \in Reaches, NEW c, In(c, Ends(l, m, n, reach)), NEW u \in Snaps
    PROVE  LET t == MaybeUpdateSnap(u, l.pos[m], c, reach)
           IN  /\ t = u \/ AtEnd(l, m, n, reach, t)
               /\ Allowed(l.pos[m], c, reach) /\ Better(u, l.pos[m], c)
                    => AtEnd(l, m, n, reach, t)
  <1> DEFINE t == MaybeUpdateSnap(u, l.pos[m], c, reach)
  <1>1. c \in CandidateType /\ c.dirs = Axes
    BY EndsAttach
  <1>2. l.pos[m] \in Points
    BY DEF LayoutType
  <1>3. /\ t = u \/ Takes(t, u, l.pos[m], c)
        /\ Allowed(l.pos[m], c, reach) /\ Better(u, l.pos[m], c) => Takes(t, u, l.pos[m], c)
    BY <1>1, <1>2, UpdateFacts
  <1> HIDE DEF t
  <1>4. ASSUME Takes(t, u, l.pos[m], c) PROVE AtEnd(l, m, n, reach, t)
    <2>1. t \in Snaps /\ t.snapped = u.snapped \cup Axes /\ u.snapped \subseteq Axes
          /\ \A a \in Axes : t.pos[a] = c.to[a]
      BY <1>1, <1>4 DEF Takes, Snaps
    <2>2. t.pos \in [Axes -> Int] /\ c.to \in [Axes -> Int]
      BY <1>1, <2>1 DEF Snaps, CandidateType, Points
    <2>3. t.pos = c.to
      BY <2>1, <2>2
    <2> QED BY <2>1, <2>3 DEF AtEnd
  <1> QED BY <1>3, <1>4 DEF t

\* What the ends make of the snap t that the edges left: it stays, or m is attached.
LEMMA EndsDecide ==
    ASSUME NEW l \in LayoutType, Large(l), NEW m \in Monitors, NEW n \in Monitors, m # n,
           NEW reach \in Reaches, NEW s \in Snaps
    PROVE  LET f == Trying(s, l, m, n, reach)
               u == Near(s, l, m, n, reach)
               t == f[Len(Edges(l, m, n, reach.zoom))]
           IN  /\ t \in Snaps /\ u \in Snaps
               /\ Keeps(u, t) \/ AtEnd(l, m, n, reach, u)
               /\ \A c : /\ In(c, Ends(l, m, n, reach)) /\ Allowed(l.pos[m], c, reach)
                         /\ \A v \in Snaps : Keeps(v, t) => Better(v, l.pos[m], c)
                         => AtEnd(l, m, n, reach, u)
  <1> DEFINE f  == Trying(s, l, m, n, reach)
             es == Edges(l, m, n, reach.zoom)
             ds == Ends(l, m, n, reach)
             cs == Candidates(l, m, n, reach)
             E  == Len(es)
             N  == Len(cs)
             t  == f[E]
             p  == l.pos[m]
             S1 == {v \in Snaps : Keeps(v, t) \/ AtEnd(l, m, n, reach, v)}
             S2 == {v \in Snaps : AtEnd(l, m, n, reach, v)}
  <1>1. /\ es \in Seq(CandidateType) /\ ds \in Seq(CandidateType) /\ cs = es \o ds
        /\ E \in Nat /\ Len(ds) \in Nat
    <2>1. es \in Seq(CandidateType) /\ ds \in Seq(CandidateType) /\ cs = es \o ds
      BY CandidatesFacts
    <2> HIDE DEF es, ds, cs
    <2> QED BY <2>1
  <1>2. /\ N = E + Len(ds) /\ N \in Nat /\ E \in 0..N
        /\ \A i \in 1..Len(ds) : cs[E + i] = ds[i]
    <2> HIDE DEF cs, es, ds
    <2>1. Len(cs) = Len(es) + Len(ds) /\ \A i \in 1..Len(ds) : cs[Len(es) + i] = ds[i]
      BY <1>1, ConcatElements
    <2> QED BY <1>1, <2>1
  <1>3. /\ \A i \in 0..N : f[i] \in Snaps
        /\ \A i \in 1..N : f[i] = MaybeUpdateSnap(f[i - 1], p, cs[i], reach)
    BY TryingSteps
  <1>4. Near(s, l, m, n, reach) = f[N]
    BY DEF Near
  <1> HIDE DEF f, E, N, cs, es
  <1>5. ASSUME NEW i \in E + 1..N
        PROVE  /\ i \in 1..N /\ i - 1 \in 0..N /\ f[i - 1] \in Snaps /\ f[i] \in Snaps
               /\ In(cs[i], ds)
               /\ f[i] = f[i - 1] \/ AtEnd(l, m, n, reach, f[i])
               /\ Allowed(p, cs[i], reach) /\ Better(f[i - 1], p, cs[i])
                    => AtEnd(l, m, n, reach, f[i])
    <2>1. i \in 1..N /\ i - 1 \in 0..N /\ i \in 0..N /\ i - E \in 1..Len(ds) /\ i = E + (i - E)
      BY <1>1, <1>2
    <2>2. cs[i] = ds[i - E]
      BY <1>2, <2>1
    <2>3. In(cs[i], ds)
      BY <2>1, <2>2 DEF In
    <2>4. f[i - 1] \in Snaps /\ f[i] \in Snaps /\ f[i] = MaybeUpdateSnap(f[i - 1], p, cs[i], reach)
      BY <1>3, <2>1
    <2> HIDE DEF p
    <2>5. /\ f[i] = f[i - 1] \/ AtEnd(l, m, n, reach, f[i])
          /\ Allowed(p, cs[i], reach) /\ Better(f[i - 1], p, cs[i]) => AtEnd(l, m, n, reach, f[i])
      BY <2>3, <2>4, EndIsTried DEF p
    <2> QED BY <2>1, <2>3, <2>4, <2>5
  <1>6. t \in Snaps /\ f[N] \in Snaps
    BY <1>2, <1>3
  <1>7. ASSUME NEW k \in E..N PROVE f[k] \in S1
    <2>1. k \in Nat /\ E \in 0..k /\ f[E] \in S1
      BY <1>1, <1>2, <1>6 DEF Keeps
    <2>2. \A i \in E + 1..k : f[i - 1] \in S1 => f[i] \in S1
      <3> SUFFICES ASSUME NEW i \in E + 1..k, f[i - 1] \in S1 PROVE f[i] \in S1
        OBVIOUS
      <3>1. i \in E + 1..N
        BY <1>1, <1>2
      <3>2. f[i] \in Snaps /\ (f[i] = f[i - 1] \/ AtEnd(l, m, n, reach, f[i]))
        BY <1>5, <3>1
      <3> QED BY <3>2
    <2> HIDE DEF S1
    <2> QED BY <2>1, <2>2, MembersFrom
  <1>8. ASSUME NEW c, In(c, ds), Allowed(p, c, reach),
               \A v \in Snaps : Keeps(v, t) => Better(v, p, c)
        PROVE  AtEnd(l, m, n, reach, f[N])
    <2>1. PICK j \in 1..Len(ds) : ds[j] = c
      BY <1>8 DEF In
    <2> DEFINE k == E + j
    <2>2. k \in E + 1..N /\ k \in 0..N /\ k - 1 \in E..N
      BY <1>1, <1>2, <2>1
    <2>2a. cs[k] = c
      <3> HIDE DEF ds
      <3> QED BY <1>2, <2>1
    <2> HIDE DEF k
    <2>3. f[k - 1] \in S1
      BY <1>7, <2>2
    <2>4. f[k] \in S2
      <3>1. f[k] \in Snaps /\ f[k - 1] \in Snaps
        BY <1>5, <2>2
      <3>2. CASE AtEnd(l, m, n, reach, f[k - 1])
        <4>1. f[k] = f[k - 1] \/ AtEnd(l, m, n, reach, f[k])
          BY <1>5, <2>2
        <4> QED BY <3>1, <3>2, <4>1
      <3>3. CASE Keeps(f[k - 1], t)
        <4>1. Better(f[k - 1], p, c)
          BY <1>8, <3>1, <3>3
        <4>2. AtEnd(l, m, n, reach, f[k])
          BY <1>5, <1>8, <2>2, <2>2a, <4>1
        <4> QED BY <3>1, <4>2
      <3> QED BY <2>3, <3>2, <3>3
    <2>5. \A i \in k + 1..N : f[i - 1] \in S2 => f[i] \in S2
      <3> SUFFICES ASSUME NEW i \in k + 1..N, f[i - 1] \in S2 PROVE f[i] \in S2
        OBVIOUS
      <3>1. i \in E + 1..N
        BY <1>1, <1>2, <2>2
      <3>2. f[i] \in Snaps /\ (f[i] = f[i - 1] \/ AtEnd(l, m, n, reach, f[i]))
        BY <1>5, <3>1
      <3> QED BY <3>2
    <2>6. f[N] \in S2
      <3> HIDE DEF S2
      <3> QED BY <1>2, <2>2, <2>4, <2>5, MembersFrom
    <2> QED BY <2>6
  <1>9. Keeps(f[N], t) \/ AtEnd(l, m, n, reach, f[N])
    <2>1. N \in E..N
      BY <1>1, <1>2
    <2> QED BY <1>7, <2>1
  <1> QED BY <1>4, <1>6, <1>8, <1>9 DEF f, E, es, p, ds

\* Where m does not share enough with n, one of the hanging ends of each side may be
\* reached from there.
LEMMA HangsWhereItIs ==
    ASSUME NEW l \in LayoutType, Large(l), NEW m \in Monitors, NEW n \in Monitors,
           NEW reach \in Reaches, reach.free, NEW a \in Axes, NEW i \in 1..2,
           ~ Holds(l, m, n, Other(a), l.pos[m][Other(a)])
    PROVE  \E c : /\ In(c, Ends(l, m, n, reach))
                  /\ c.dirs = Axes /\ c.axis = a /\ c.to[a] = Sides(l, m, n, a)[i]
                  /\ Allowed(l.pos[m], c, reach)
  <1> DEFINE o    == Other(a)
             q    == l.pos[m][o]
             low  == HangsLow(l, m, n, o)
             high == HangsHigh(l, m, n, o)
             side == Sides(l, m, n, a)[i]
  <1>1. o \in Axes /\ o # a /\ 1 \in -1..1 /\ -1 \in -1..1
    BY AxesFacts
  <1>2. /\ q \in Int /\ l.size[m][o] \in Int /\ l.size[n][o] \in Int /\ l.pos[n][o] \in Int
        /\ MinOverlap \in Nat /\ l.size[m][o] >= MinOverlap /\ l.size[n][o] >= MinOverlap
    BY <1>1, Coordinates, Parameters DEF Large
  <1>3. low \in Int /\ high \in Int /\ side \in Int
    BY <1>1, QsAreNumbers, SidesFacts
  <1>4. q < low \/ q > high
    <2>1. low = l.pos[n][o] - l.size[m][o] + MinOverlap
          /\ high = l.pos[n][o] + l.size[n][o] - MinOverlap
      BY <1>2 DEF HangsLow, HangsHigh, Low, High
    <2>2. ~(q + l.size[m][o] - q >= MinOverlap /\ q + l.size[m][o] - l.pos[n][o] >= MinOverlap
            /\ l.pos[n][o] + l.size[n][o] - q >= MinOverlap /\ l.size[n][o] >= MinOverlap)
      BY DEF Holds
    <2> HIDE DEF o, q, low, high
    <2> QED BY <1>2, <2>1, <2>2
  <1> DEFINE End1(h, v) == End(l, m, n, a, i, v, h)
  <1>5. ASSUME NEW h \in -1..1, NEW v \in Int, v > q => h > 0, v < q => h < 0
        PROVE  /\ End1(h, v).dirs = Axes /\ End1(h, v).axis = a /\ End1(h, v).to[a] = side
               /\ Allowed(l.pos[m], End1(h, v), reach)
    <2> DEFINE c == End1(h, v)
    <2>1. c.dirs = Axes /\ c.axis = a /\ c.hang = h /\ c.to = On(a, side, v)
      BY EndFacts
    <2>2. c.to[a] = side /\ c.to[o] = v
      <3> HIDE DEF c, side
      <3> QED BY <1>3, <2>1, OnFacts
    <2> HIDE DEF c
    <2>3. Allowed(l.pos[m], c, reach)
      BY <1>5, <2>1, <2>2 DEF Allowed, BeyondMajor
    <2> QED BY <2>1, <2>2, <2>3 DEF c
  <1>6. /\ In(End1(1, low), Ends(l, m, n, reach))
        /\ In(End1(-1, high), Ends(l, m, n, reach))
    BY EndsFacts DEF IsEnd
  <1> HIDE DEF End1, low, high, q
  <1>7. CASE q < low
    <2>1. (low > q => 1 > 0) /\ (low < q => 1 < 0)
      BY <1>2, <1>3, <1>7
    <2> QED BY <1>1, <1>3, <1>5, <1>6, <2>1
  <1>8. CASE q > high
    <2>1. (high > q => -1 > 0) /\ (high < q => -1 < 0)
      BY <1>2, <1>3, <1>8
    <2> QED BY <1>1, <1>3, <1>5, <1>6, <2>1
  <1> QED BY <1>4, <1>7, <1>8

LEMMA ApartIsNotHeld ==
    ASSUME NEW l \in LayoutType, NEW m \in Monitors, NEW n \in Monitors, NEW o \in Axes,
           ~ Share(l, m, n, o)
    PROVE  ~ Holds(l, m, n, o, l.pos[m][o])
  <1>1. /\ l.pos[m][o] \in Int /\ l.size[m][o] \in Int /\ l.size[n][o] \in Int
        /\ l.pos[n][o] \in Int /\ MinOverlap \in Nat
    BY Coordinates, Parameters
  <1> QED BY <1>1 DEF Share, Holds, Low, High

\* Straight to an edge is never too far in free snapping.
LEMMA EdgeIsAllowed ==
    ASSUME NEW l \in LayoutType, NEW m \in Monitors, NEW n \in Monitors,
           NEW a \in Axes, NEW i \in 1..2, NEW reach \in Reaches, reach.free
    PROVE  Allowed(l.pos[m], Edge(l, m, n, a, i), reach)
  <1> DEFINE c == Edge(l, m, n, a, i)
             o == Other(a)
             v == l.pos[m][o]
             k == MinorSnap * reach.zoom
  <1>1. c.axis = a /\ c.to[o] = v
    BY EdgeFacts
  <1>2. v \in Int
    BY AxesFacts, Coordinates
  <1>3. k \in Nat
    BY Parameters DEF Reaches
  <1> HIDE DEF c, v, k
  <1>4. ~ BeyondMinor(AbsDiff(v, v), reach)
    BY <1>2, <1>3 DEF BeyondMinor, AbsDiff, k
  <1> QED BY <1>1, <1>4 DEF Allowed, BeyondMajor, v, c

\* From nowhere, the edges snap m to one of the two sides and leave the other axis alone.
LEMMA EdgesSnap ==
    ASSUME NEW l \in LayoutType, NEW m \in Monitors, NEW n \in Monitors,
           NEW reach \in Reaches, reach.free, NEW s \in Snaps, s.snapped = {}, NEW a \in Axes,
           Edges(l, m, n, reach.zoom) = EdgesOf(l, m, n, a)
    PROVE  LET t == Trying(s, l, m, n, reach)[2]
           IN  /\ t \in Snaps /\ t.snapped = {a}
               /\ \E i \in 1..2 : t.pos[a] = Sides(l, m, n, a)[i]
               /\ t.pos[Other(a)] = s.pos[Other(a)]
  <1> DEFINE es == Edges(l, m, n, reach.zoom)
             ds == Ends(l, m, n, reach)
             cs == Candidates(l, m, n, reach)
             f  == Trying(s, l, m, n, reach)
             p  == l.pos[m]
             e1 == Edge(l, m, n, a, 1)
             e2 == Edge(l, m, n, a, 2)
  <1>1. /\ es \in Seq(CandidateType) /\ ds \in Seq(CandidateType) /\ cs = es \o ds
        /\ cs \in Seq(CandidateType)
    BY CandidatesFacts
  <1>2. Len(es) = 2 /\ es[1] = e1 /\ es[2] = e2
    BY EdgesOfFacts
  <1>3. Len(cs) \in Nat /\ 2 <= Len(cs) /\ cs[1] = e1 /\ cs[2] = e2
    <2> HIDE DEF es, ds, cs, e1, e2
    <2>1. Len(cs) = Len(es) + Len(ds) /\ (\A i \in 1..Len(es) : cs[i] = es[i]) /\ Len(ds) \in Nat
      BY <1>1, ConcatElements
    <2> QED BY <1>1, <1>2, <2>1
  <1>4. /\ f[0] = s
        /\ \A i \in 0..Len(cs) : f[i] \in Snaps
        /\ \A i \in 1..Len(cs) : f[i] = MaybeUpdateSnap(f[i - 1], p, cs[i], reach)
    BY TryingSteps
  <1> HIDE DEF f, cs
  <1>5. /\ f[1] = MaybeUpdateSnap(s, p, e1, reach) /\ f[2] = MaybeUpdateSnap(f[1], p, e2, reach)
        /\ f[1] \in Snaps /\ f[2] \in Snaps
    <2>1. 1 \in 1..Len(cs) /\ 2 \in 1..Len(cs) /\ 1 \in 0..Len(cs) /\ 2 \in 0..Len(cs)
          /\ 1 - 1 = 0 /\ 2 - 1 = 1
      BY <1>3
    <2> HIDE DEF p, e1, e2
    <2> QED BY <1>3, <1>4, <2>1
  <1>6. /\ e1 \in CandidateType /\ e1.dirs = {a} /\ e1.to[a] = Sides(l, m, n, a)[1]
        /\ e2 \in CandidateType /\ e2.dirs = {a} /\ e2.to[a] = Sides(l, m, n, a)[2]
    BY EdgeFacts
  <1>7. p \in Points /\ Allowed(p, e1, reach)
    BY EdgeIsAllowed DEF LayoutType
  <1>8. Axes # {a} /\ Other(a) \in Axes /\ Other(a) # a
    BY AxesFacts
  <1> HIDE DEF e1, e2, p
  <1>9. Better(s, p, e1)
    BY <1>6, <1>8 DEF Better
  <1>10. Takes(f[1], s, p, e1)
    BY <1>5, <1>6, <1>7, <1>9, UpdateFacts
  <1>11. f[2] = f[1] \/ Takes(f[2], f[1], p, e2)
    BY <1>5, <1>6, <1>7, UpdateFacts
  <1>12. /\ f[1].snapped = {a} /\ f[1].pos[a] = Sides(l, m, n, a)[1]
         /\ f[1].pos[Other(a)] = s.pos[Other(a)]
    BY <1>6, <1>8, <1>10 DEF Takes
  <1>13. CASE f[2] = f[1]
    BY <1>5, <1>12, <1>13 DEF f
  <1>14. CASE Takes(f[2], f[1], p, e2)
    <2>1. /\ f[2].snapped = {a} /\ f[2].pos[a] = Sides(l, m, n, a)[2]
          /\ f[2].pos[Other(a)] = s.pos[Other(a)]
      BY <1>6, <1>8, <1>12, <1>14 DEF Takes
    <2> QED BY <1>5, <2>1 DEF f
  <1> QED BY <1>11, <1>13, <1>14

\* The snap a monitor starts with
Unsnapped(p) == [pos |-> p, dist |-> Place(0, 0), snapped |-> {}]

LEMMA UnsnappedFacts ==
    ASSUME NEW p \in Points
    PROVE  /\ Unsnapped(p) \in Snaps
           /\ Unsnapped(p).pos = p /\ Unsnapped(p).snapped = {}
  <1>1. Place(0, 0) \in Points
    <2>1. 0 \in Int /\ Points = [{"x", "y"} -> Int]
      BY AxesFacts DEF Points
    <2> QED BY <2>1, PointFacts
  <1> QED BY <1>1 DEF Unsnapped, Snaps

\* A point is made of its two coordinates.
LEMMA PointIsOn ==
    ASSUME NEW p \in Points, NEW a \in Axes
    PROVE  p = On(a, p[a], p[Other(a)])
  <1> DEFINE q == On(a, p[a], p[Other(a)])
  <1>1. q \in Points /\ q[a] = p[a] /\ q[Other(a)] = p[Other(a)]
    <2>1. p[a] \in Int /\ p[Other(a)] \in Int
      BY AxesFacts, PointFacts
    <2> QED BY <2>1, OnFacts
  <1> HIDE DEF q
  <1>2. p = q
    BY <1>1, AxesFacts DEF Points
  <1> QED BY <1>2 DEF q

\* Where m belongs next to n: at one of the ends; or straight at side i on axis a, where it
\* shares enough with n and no end of that side may be used.
LandsStraight(l, m, n, reach, p, a, i) ==
    /\ p = On(a, Sides(l, m, n, a)[i], l.pos[m][Other(a)])
    /\ Holds(l, m, n, Other(a), l.pos[m][Other(a)])
    /\ \A c : /\ In(c, Ends(l, m, n, reach)) /\ c.axis = a /\ c.to[a] = Sides(l, m, n, a)[i]
              => ~ Allowed(l.pos[m], c, reach)
Lands(l, m, n, reach, p) ==
    \/ \E c : In(c, Ends(l, m, n, reach)) /\ p = c.to
    \/ \E a \in Axes, i \in 1..2 : LandsStraight(l, m, n, reach, p, a, i)

\* In free snapping, m lands next to a monitor n that is close, wherever m comes from.
LEMMA NearLands ==
    ASSUME NEW l \in LayoutType, Large(l), NEW m \in Monitors, NEW n \in Monitors, m # n,
           NEW reach \in Reaches, reach.free, Close(l, m, n, reach.zoom)
    PROVE  LET u == Near(Unsnapped(l.pos[m]), l, m, n, reach)
           IN  u \in Snaps /\ Lands(l, m, n, reach, u.pos)
  <1> DEFINE p == l.pos[m]
             s == Unsnapped(p)
             E == Len(Edges(l, m, n, reach.zoom))
             t == Trying(s, l, m, n, reach)[E]
             u == Near(s, l, m, n, reach)
  <1>1. p \in Points /\ s \in Snaps /\ s.pos = p /\ s.snapped = {}
    BY UnsnappedFacts DEF LayoutType
  <1>2. /\ t \in Snaps /\ u \in Snaps
        /\ Keeps(u, t) \/ AtEnd(l, m, n, reach, u)
        /\ \A c : /\ In(c, Ends(l, m, n, reach)) /\ Allowed(p, c, reach)
                  /\ \A v \in Snaps : Keeps(v, t) => Better(v, p, c)
                  => AtEnd(l, m, n, reach, u)
    BY <1>1, EndsDecide
  <1>3. AtEnd(l, m, n, reach, u) => Lands(l, m, n, reach, u.pos)
    BY DEF AtEnd, Lands
  <1>4. reach.zoom \in Nat
    BY DEF Reaches
  <1>5. CASE Edges(l, m, n, reach.zoom) = <<>> /\ \A a \in Axes : ~Share(l, m, n, a)
    <2>1. "y" \in Axes /\ Other("y") \in Axes /\ 1 \in 1..2
      BY AxesFacts
    <2>2. ~ Holds(l, m, n, Other("y"), l.pos[m][Other("y")])
      BY <1>5, <2>1, ApartIsNotHeld
    <2>3. PICK c : /\ In(c, Ends(l, m, n, reach))
                   /\ c.dirs = Axes /\ c.axis = "y" /\ c.to["y"] = Sides(l, m, n, "y")[1]
                   /\ Allowed(l.pos[m], c, reach)
      BY <2>1, <2>2, HangsWhereItIs
    <2>4. t.snapped = {}
      <3>1. E = 0
        BY <1>5
      <3>2. Trying(s, l, m, n, reach)[0] = s
        BY <1>1, TryingSteps
      <3> HIDE DEF s
      <3> QED BY <1>1, <3>1, <3>2
    <2> HIDE DEF p, s, t, u
    <2>5. \A v \in Snaps : Keeps(v, t) => Better(v, p, c)
      BY <2>3, <2>4 DEF Keeps, Better
    <2> QED BY <1>2, <1>3, <2>3, <2>5 DEF p, u, s
  <1>6. ASSUME NEW a \in Axes, Edges(l, m, n, reach.zoom) = EdgesOf(l, m, n, a),
               Share(l, m, n, Other(a))
        PROVE  Lands(l, m, n, reach, u.pos)
    <2> DEFINE o == Other(a)
    <2>1. E = 2
      BY <1>6, EdgesOfFacts
    <2>2. t.snapped = {a} /\ (\E i \in 1..2 : t.pos[a] = Sides(l, m, n, a)[i]) /\ t.pos[o] = p[o]
      <3>1. LET t2 == Trying(s, l, m, n, reach)[2]
            IN  /\ t2.snapped = {a}
                /\ \E i \in 1..2 : t2.pos[a] = Sides(l, m, n, a)[i]
                /\ t2.pos[Other(a)] = s.pos[Other(a)]
        BY <1>1, <1>6, EdgesSnap
      <3> HIDE DEF s, E
      <3> QED BY <1>1, <2>1, <3>1
    <2>3. PICK i \in 1..2 : t.pos[a] = Sides(l, m, n, a)[i]
      BY <2>2
    <2>4. CASE Holds(l, m, n, o, p[o])
      <3>1. o \in Axes /\ p[o] \in Int /\ t.pos \in Points
        BY <1>1, <1>2, AxesFacts, PointFacts DEF Snaps
      <3> DEFINE side == Sides(l, m, n, a)[i]
      <3> HIDE DEF t, u, side
      <3>2. t.pos = On(a, side, p[o])
        <4> HIDE DEF p
        <4>1. t.pos = On(a, t.pos[a], t.pos[o])
          BY <3>1, PointIsOn
        <4> QED BY <2>2, <2>3, <4>1 DEF side
      <3>3. ASSUME NEW c, In(c, Ends(l, m, n, reach)), c.axis = a, c.to[a] = side,
                   Allowed(l.pos[m], c, reach)
            PROVE  AtEnd(l, m, n, reach, u)
        <4>1. c.dirs = Axes
          BY <3>3, EndsAttach
        <4>2. t.pos[a] = side
          BY <2>3 DEF side
        <4>3. \A v \in Snaps : Keeps(v, t) => Better(v, p, c)
          BY <2>2, <3>3, <4>1, <4>2 DEF Keeps, Better
        <4> QED BY <1>2, <3>3, <4>3
      <3>4. CASE AtEnd(l, m, n, reach, u)
        BY <1>3, <3>4
      <3>5. CASE ~ AtEnd(l, m, n, reach, u)
        <4>1. u.pos = t.pos
          BY <1>2, <3>5 DEF Keeps
        <4>2. LandsStraight(l, m, n, reach, u.pos, a, i)
          BY <2>4, <3>2, <3>3, <3>5, <4>1 DEF LandsStraight, side
        <4> QED BY <4>2 DEF Lands
      <3> QED BY <3>4, <3>5
    <2>5. CASE ~ Holds(l, m, n, o, p[o])
      <3>1. PICK c : /\ In(c, Ends(l, m, n, reach))
                     /\ c.dirs = Axes /\ c.axis = a /\ c.to[a] = Sides(l, m, n, a)[i]
                     /\ Allowed(l.pos[m], c, reach)
        BY <2>5, HangsWhereItIs
      <3> HIDE DEF t, u
      <3>2. \A v \in Snaps : Keeps(v, t) => Better(v, p, c)
        BY <2>2, <2>3, <3>1 DEF Keeps, Better
      <3> QED BY <1>2, <1>3, <3>1, <3>2
    <2> QED BY <2>4, <2>5
  <1> QED BY <1>2, <1>4, <1>5, <1>6, EdgesFacts

\* Where it lands it is attached.
LEMMA NearAttaches ==
    ASSUME NEW l \in LayoutType, Large(l), NEW m \in Monitors, NEW n \in Monitors, m # n,
           NEW reach \in Reaches, reach.free, Close(l, m, n, reach.zoom)
    PROVE  LET u == Near(Unsnapped(l.pos[m]), l, m, n, reach)
           IN  u \in Snaps /\ Attached(Moved(l, m, u.pos), m, n, MinOverlap)
  <1> DEFINE u == Near(Unsnapped(l.pos[m]), l, m, n, reach)
  <1>1. u \in Snaps /\ Lands(l, m, n, reach, u.pos)
    BY NearLands
  <1> HIDE DEF u
  <1>2. ASSUME NEW a \in Axes, NEW i \in 1..2, LandsStraight(l, m, n, reach, u.pos, a, i)
        PROVE  Attached(Moved(l, m, u.pos), m, n, MinOverlap)
    <2> DEFINE q == l.pos[m][Other(a)]
    <2>1. q \in Int /\ Holds(l, m, n, Other(a), q) /\ u.pos = On(a, Sides(l, m, n, a)[i], q)
      BY <1>2, AxesFacts, Coordinates DEF LandsStraight
    <2> QED BY <2>1, EndIsAttached
  <1> QED BY <1>1, <1>2, EndsAttach DEF Lands, u

LEMMA NearIsSnap ==
    ASSUME NEW l \in LayoutType, NEW m \in Monitors, NEW n \in Monitors, NEW reach \in Reaches,
           NEW s \in Snaps
    PROVE  Near(s, l, m, n, reach) \in Snaps
  <1> DEFINE f == Trying(s, l, m, n, reach)
             N == Len(Candidates(l, m, n, reach))
  <1>1. \A i \in 0..N : f[i] \in Snaps
    BY TryingSteps
  <1>2. N \in Nat
    BY CandidatesFacts
  <1> HIDE DEF f, N
  <1>3. f[N] \in Snaps
    BY <1>1, <1>2
  <1> QED BY <1>3 DEF Near, f, N

\* The snap of m after each of the monitors
Visited(s, l, m, n, reach) ==
    IF n = m \/ n \notin l.useful THEN s ELSE Near(s, l, m, n, reach)

LEMMA VisitingSteps ==
    ASSUME NEW l \in LayoutType, NEW m \in Monitors, NEW reach \in Reaches
    PROVE  LET f == Visiting(l, m, reach)
           IN  /\ f[0] = Unsnapped(l.pos[m])
               /\ \A n \in 0..NMonitors : f[n] \in Snaps
               /\ \A n \in 1..NMonitors : f[n] = Visited(f[n - 1], l, m, n, reach)
  <1> DEFINE N  == NMonitors
             s  == Unsnapped(l.pos[m])
             g  == [x \in Snaps \X (1..N) |-> Visited(x[1], l, m, x[2], reach)]
             Is(f) == f = [n \in 0..N |->
                            IF n = 0 THEN s
                            ELSE IF n = m \/ n \notin l.useful THEN f[n - 1]
                            ELSE Near(f[n - 1], l, m, n, reach)]
  <1>1. N \in Nat /\ s \in Snaps
    BY Parameters, UnsnappedFacts DEF LayoutType
  <1>2. Visiting(l, m, reach) = CHOOSE f : Is(f)
    BY DEF Visiting, Unsnapped
  <1>3. \A x \in Snaps, n \in 1..N : Visited(x, l, m, n, reach) \in Snaps
    BY NearIsSnap DEF Visited, Monitors
  <1> HIDE DEF N, s
  <1>4. g \in [Snaps \X (1..N) -> Snaps]
    BY <1>3
  <1>5. \A x \in Snaps, n \in 1..N : g[<<x, n>>] = Visited(x, l, m, n, reach)
    OBVIOUS
  <1> HIDE DEF g
  <1>6. PICK f \in [0..N -> Snaps] : Loops(f, N, s, g)
    BY <1>1, <1>4, TypedLoopExists
  <1>7. \A n \in 0..N : (IF n = 0 THEN s ELSE g[<<f[n - 1], n>>]) =
                        IF n = 0 THEN s
                        ELSE IF n = m \/ n \notin l.useful THEN f[n - 1]
                        ELSE Near(f[n - 1], l, m, n, reach)
    <2> SUFFICES ASSUME NEW n \in 0..N, n # 0
                 PROVE  g[<<f[n - 1], n>>] = Visited(f[n - 1], l, m, n, reach)
      BY DEF Visited
    <2>1. n \in 1..N /\ f[n - 1] \in Snaps
      BY <1>1, <1>6
    <2> QED BY <1>5, <2>1
  <1>8. Is(f)
    <2>1. f = [n \in 0..N |-> IF n = 0 THEN s ELSE g[<<f[n - 1], n>>]]
      BY <1>6 DEF Loops
    <2> QED BY <1>7, <2>1
  <1> DEFINE h == CHOOSE f2 : Is(f2)
  <1>9. Is(h)
    BY <1>8
  <1> HIDE DEF h
  <1>10. h[0] = s /\ \A n \in 1..N : h[n] = Visited(h[n - 1], l, m, n, reach)
    <2>1. 0 \in 0..N /\ \A n \in 1..N : n \in 0..N /\ n # 0
      BY <1>1
    <2> QED BY <1>9, <2>1 DEF Visited
  <1>11. \A n \in 1..N : h[n - 1] \in Snaps => h[n] \in Snaps
    BY <1>3, <1>10
  <1>12. \A n \in 0..N : h[n] \in Snaps
    BY <1>1, <1>10, <1>11, AllMembers
  <1> QED BY <1>2, <1>10, <1>12 DEF h, N, s

LEMMA BestIsPoint ==
    ASSUME NEW l \in LayoutType, NEW m \in Monitors, NEW reach \in Reaches
    PROVE  FindBestSnapping(l, m, reach) \in Points
  <1> DEFINE f == Visiting(l, m, reach)
  <1>1. NMonitors \in 0..NMonitors
    BY Parameters
  <1>2. f[NMonitors] \in Snaps
    BY <1>1, VisitingSteps
  <1> HIDE DEF f
  <1>3. f[NMonitors].pos \in Points
    BY <1>2 DEF Snaps
  <1> QED BY <1>3 DEF FindBestSnapping, f

\* With one other monitor, what is best is best next to that one.
LEMMA OnlyNeighbour ==
    ASSUME NEW l \in LayoutType, NEW m \in Monitors, NEW n \in Monitors, m # n,
           l.useful = {m, n}, NEW reach \in Reaches
    PROVE  FindBestSnapping(l, m, reach) = Near(Unsnapped(l.pos[m]), l, m, n, reach).pos
  <1> DEFINE N == NMonitors
             f == Visiting(l, m, reach)
             s == Unsnapped(l.pos[m])
             u == Near(s, l, m, n, reach)
  <1>1. f[0] = s /\ \A k \in 1..N : f[k] = Visited(f[k - 1], l, m, k, reach)
    BY VisitingSteps
  <1>2. N \in Nat /\ n \in 1..N
    BY Parameters DEF Monitors
  <1> HIDE DEF f, s, N, u
  <1>3. \A k \in 1..N : k # n => f[k] = f[k - 1]
    BY <1>1 DEF Visited
  <1>4. f[n - 1] = s
    <2>1. n - 1 \in Nat /\ \A k \in 1..n - 1 : k \in 1..N /\ k # n
      BY <1>2
    <2> DEFINE S == {s}
               M == n - 1
    <2>2. f[0] \in S /\ \A k \in 1..M : f[k - 1] \in S => f[k] \in S
      BY <1>1, <1>3, <2>1
    <2> HIDE DEF S, M
    <2>3. M \in Nat
      BY <2>1 DEF M
    <2>4. f[M] \in S
      BY <2>2, <2>3, EveryMember
    <2> QED BY <2>4 DEF S, M
  <1>5. f[n] = u
    BY <1>1, <1>2, <1>4 DEF Visited, u, s
  <1>6. f[N] = u
    <2>1. n \in 0..N /\ \A k \in n + 1..N : k \in 1..N /\ k # n
      BY <1>2
    <2> DEFINE S == {u}
    <2>2. f[n] \in S /\ \A k \in n + 1..N : f[k - 1] \in S => f[k] \in S
      BY <1>3, <1>5, <2>1
    <2> HIDE DEF S
    <2>3. f[N] \in S
      BY <1>2, <2>1, <2>2, MembersFrom
    <2> QED BY <2>3 DEF S
  <1> QED BY <1>6 DEF FindBestSnapping, f, N, u, s

(* Two monitors *)

LEMMA AttachedIsMutual ==
    ASSUME NEW l \in LayoutType, NEW m \in Monitors, NEW n \in Monitors, NEW k \in Int,
           Attached(l, m, n, k)
    PROVE  Attached(l, n, m, k)
  <1>1. PICK a \in Axes :
            /\ Low(l, m, a) \in {Low(l, n, a) - l.size[m][a], High(l, n, a)}
            /\ Least(High(l, m, Other(a)), High(l, n, Other(a)))
                - Most(Low(l, m, Other(a)), Low(l, n, Other(a))) >= k
    BY DEF Attached
  <1> DEFINE o == Other(a)
  <1>2. /\ l.pos[m][a] \in Int /\ l.size[m][a] \in Int /\ l.pos[n][a] \in Int
        /\ l.size[n][a] \in Int /\ l.pos[m][o] \in Int /\ l.size[m][o] \in Int
        /\ l.pos[n][o] \in Int /\ l.size[n][o] \in Int
    BY AxesFacts, Coordinates
  <1>3. Low(l, n, a) \in {Low(l, m, a) - l.size[n][a], High(l, m, a)}
    BY <1>1, <1>2 DEF Low, High
  <1>4. Least(High(l, n, o), High(l, m, o)) - Most(Low(l, n, o), Low(l, m, o)) >= k
    <2> DEFINE hm == High(l, m, o)
               hn == High(l, n, o)
               lm == Low(l, m, o)
               ln == Low(l, n, o)
    <2>1. hm \in Int /\ hn \in Int /\ lm \in Int /\ ln \in Int
      BY <1>2 DEF Low, High
    <2>2. Least(hm, hn) - Most(lm, ln) >= k
      BY <1>1
    <2> HIDE DEF hm, hn, lm, ln
    <2>3. Least(hm, hn) = Least(hn, hm) /\ Most(lm, ln) = Most(ln, lm)
      BY <2>1 DEF Least, Most
    <2>4. Least(hn, hm) - Most(ln, lm) >= k
      BY <2>2, <2>3
    <2> QED BY <2>4 DEF hm, hn, lm, ln
  <1>5. ~ Overlap(l, n, m)
    BY DEF Attached, Overlap
  <1> QED BY <1>3, <1>4, <1>5 DEF Attached

\* Where they are attached there is no gap.
LEMMA AttachedIsClose ==
    ASSUME NEW l \in LayoutType, NEW m \in Monitors, NEW n \in Monitors, NEW zoom \in Nat,
           Far * zoom > 0, Attached(l, m, n, MinOverlap)
    PROVE  Close(l, m, n, zoom)
  <1>1. PICK a \in Axes :
            /\ Low(l, m, a) \in {Low(l, n, a) - l.size[m][a], High(l, n, a)}
            /\ Least(High(l, m, Other(a)), High(l, n, Other(a)))
                - Most(Low(l, m, Other(a)), Low(l, n, Other(a))) >= MinOverlap
    BY DEF Attached
  <1> DEFINE o == Other(a)
  <1>2. /\ l.pos[m][a] \in Int /\ l.size[m][a] \in Int /\ l.pos[n][a] \in Int
        /\ l.size[n][a] \in Int /\ l.pos[m][o] \in Int /\ l.size[m][o] \in Int
        /\ l.pos[n][o] \in Int /\ l.size[n][o] \in Int /\ MinOverlap \in Nat
    BY AxesFacts, Coordinates, Parameters
  <1>3. Share(l, m, n, o)
    <2> DEFINE hm == High(l, m, o)
               hn == High(l, n, o)
               lm == Low(l, m, o)
               ln == Low(l, n, o)
    <2>1. hm \in Int /\ hn \in Int /\ lm \in Int /\ ln \in Int
      BY <1>2 DEF Low, High
    <2>2. Least(hm, hn) - Most(lm, ln) >= MinOverlap
      BY <1>1
    <2> HIDE DEF hm, hn, lm, ln
    <2>3. hm - ln >= MinOverlap /\ hn - lm >= MinOverlap
      BY <1>2, <2>1, <2>2, LeastAndMost
    <2>4. ln <= hm /\ lm <= hn
      BY <1>2, <2>1, <2>3
    <2> QED BY <2>4 DEF Share, hm, hn, lm, ln
  <1>4. Gap(l, m, n, a, zoom) = 0
    <2> DEFINE s1 == Sides(l, m, n, a)[1]
               s2 == Sides(l, m, n, a)[2]
               at == Low(l, m, a)
    <2>1. /\ s1 \in Int /\ s2 \in Int /\ at \in Int
          /\ at = s1 \/ at = s2
      BY <1>1, <1>2 DEF Low, High, Sides
    <2>2. Gap(l, m, n, a, zoom) = Least(AbsDiff(at, s1), AbsDiff(at, s2))
      BY <1>3 DEF Gap
    <2> HIDE DEF s1, s2, at
    <2>3. AbsDiff(at, s1) >= 0 /\ AbsDiff(at, s2) >= 0 /\ AbsDiff(at, s1) \in Int
          /\ AbsDiff(at, s2) \in Int /\ (AbsDiff(at, s1) = 0 \/ AbsDiff(at, s2) = 0)
      BY <2>1 DEF AbsDiff
    <2> QED BY <2>2, <2>3 DEF Least
  <1> QED BY <1>4 DEF Close

LEMMA AttachedPairIsGood ==
    ASSUME NEW l \in LayoutType, NEW m \in Monitors, NEW n \in Monitors, m # n,
           l.useful = {m, n}, Attached(l, m, n, MinOverlap)
    PROVE  Good(l)
  <1>1. MinOverlap \in Int
    BY Parameters
  <1>2. Attached(l, n, m, MinOverlap)
    BY <1>1, AttachedIsMutual
  <1>3. ~ Overlap(l, m, n) /\ ~ Overlap(l, n, m)
    BY <1>2 DEF Attached
  <1> QED BY <1>2, <1>3 DEF Good

\* The two monitors of a pair, in order
LEMMA PairFacts ==
    ASSUME NEW S \in SUBSET Monitors, Cardinality(S) = 2
    PROVE  \E m, n \in Monitors : m < n /\ S = {m, n}
  <1>1. Monitors \subseteq Nat /\ IsFiniteSet(Monitors)
    BY Parameters, FS_Interval DEF Monitors
  <1>2. IsFiniteSet(S)
    BY <1>1, FS_Subset
  <1>3. PICK m \in S : TRUE
    BY <1>2, FS_EmptySet
  <1>4. IsFiniteSet(S \ {m}) /\ Cardinality(S \ {m}) = 1
    BY <1>2, <1>3, FS_RemoveElement
  <1>5. PICK n : S \ {m} = {n}
    BY <1>4, FS_Singleton
  <1>6. S = {m, n} /\ m # n
    BY <1>3, <1>5
  <1>7. m \in Monitors /\ n \in Monitors /\ m \in Nat /\ n \in Nat
    BY <1>1, <1>6
  <1>8. m < n \/ n < m
    BY <1>6, <1>7
  <1>9. S = {n, m}
    BY <1>6
  <1> QED BY <1>6, <1>7, <1>8, <1>9

\* Whichever of two monitors is snapped in free snapping, they are attached then.
LEMMA SnappedPairIsGood ==
    ASSUME NEW l \in LayoutType, Large(l), NEW m \in Monitors, NEW n \in Monitors, m # n,
           l.useful = {m, n}, NEW reach \in Reaches, reach.free, Close(l, m, n, reach.zoom)
    PROVE  LET k == Moved(l, m, FindBestSnapping(l, m, reach))
           IN  k \in LayoutType /\ Attached(k, m, n, MinOverlap) /\ Good(k)
  <1> DEFINE p == FindBestSnapping(l, m, reach)
             k == Moved(l, m, p)
  <1>1. p \in Points
    BY BestIsPoint
  <1>2. Attached(k, m, n, MinOverlap)
    BY OnlyNeighbour, NearAttaches
  <1> HIDE DEF p
  <1>3. k \in LayoutType /\ k.useful = {m, n}
    BY <1>1, MovedFacts
  <1> HIDE DEF k
  <1>4. Good(k)
    BY <1>2, <1>3, AttachedPairIsGood
  <1> QED BY <1>2, <1>3, <1>4 DEF k, p

\* The layouts of the monitors of l, with their sizes
Rearranged(l) == {k \in LayoutType : k.useful = l.useful /\ k.size = l.size}

LEMMA TrySnapFacts ==
    ASSUME NEW l \in LayoutType, NEW k \in Rearranged(l), NEW m \in Monitors
    PROVE  /\ TrySnapOutput(k, m) \in Rearranged(l)
           /\ m \notin l.useful => TrySnapOutput(k, m) = k
           /\ m \in l.useful =>
                TrySnapOutput(k, m) = Moved(k, m, FindBestSnapping(k, m, Settled))
  <1>1. Settled \in Reaches
    BY DEF Settled, Reaches
  <1>2. k \in LayoutType /\ k.useful = l.useful /\ k.size = l.size
    BY DEF Rearranged
  <1> DEFINE p == FindBestSnapping(k, m, Settled)
  <1>3. p \in Points
    BY <1>1, <1>2, BestIsPoint
  <1> HIDE DEF p
  <1>4. Moved(k, m, p) \in Rearranged(l)
    BY <1>2, <1>3, MovedFacts DEF Rearranged
  <1>5. TrySnapOutput(k, m) = IF m \notin l.useful THEN k ELSE Moved(k, m, p)
    BY <1>2 DEF TrySnapOutput, Moved, p
  <1> QED BY <1>2, <1>4, <1>5 DEF p

LEMMA SnappingSteps ==
    ASSUME NEW l \in LayoutType
    PROVE  LET f == Snapping(l)
           IN  /\ f[0] = l
               /\ \A n \in 0..NMonitors : f[n] \in Rearranged(l)
               /\ \A n \in 1..NMonitors : f[n] = TrySnapOutput(f[n - 1], n)
  <1> DEFINE N  == NMonitors
             S  == Rearranged(l)
             g  == [x \in S \X (1..N) |-> TrySnapOutput(x[1], x[2])]
             Is(f) == f = [n \in 0..N |-> IF n = 0 THEN l ELSE TrySnapOutput(f[n - 1], n)]
  <1>1. N \in Nat /\ l \in S
    BY Parameters DEF Rearranged
  <1>2. Snapping(l) = CHOOSE f : Is(f)
    BY DEF Snapping
  <1>3. \A x \in S, n \in 1..N : TrySnapOutput(x, n) \in S
    BY TrySnapFacts DEF Monitors
  <1> HIDE DEF N, S
  <1>4. g \in [S \X (1..N) -> S]
    BY <1>3
  <1>5. \A x \in S, n \in 1..N : g[<<x, n>>] = TrySnapOutput(x, n)
    OBVIOUS
  <1> HIDE DEF g
  <1>6. PICK f \in [0..N -> S] : Loops(f, N, l, g)
    BY <1>1, <1>4, TypedLoopExists
  <1>7. \A n \in 0..N : (IF n = 0 THEN l ELSE g[<<f[n - 1], n>>]) =
                        IF n = 0 THEN l ELSE TrySnapOutput(f[n - 1], n)
    <2> SUFFICES ASSUME NEW n \in 0..N, n # 0
                 PROVE  g[<<f[n - 1], n>>] = TrySnapOutput(f[n - 1], n)
      OBVIOUS
    <2>1. n \in 1..N /\ f[n - 1] \in S
      BY <1>1, <1>6
    <2> QED BY <1>5, <2>1
  <1>8. Is(f)
    <2>1. f = [n \in 0..N |-> IF n = 0 THEN l ELSE g[<<f[n - 1], n>>]]
      BY <1>6 DEF Loops
    <2> QED BY <1>7, <2>1
  <1> DEFINE h == CHOOSE f2 : Is(f2)
  <1>9. Is(h)
    BY <1>8
  <1> HIDE DEF h
  <1>10. h[0] = l /\ \A n \in 1..N : h[n] = TrySnapOutput(h[n - 1], n)
    <2>1. 0 \in 0..N /\ \A n \in 1..N : n \in 0..N /\ n # 0
      BY <1>1
    <2> QED BY <1>9, <2>1
  <1>11. \A n \in 1..N : h[n - 1] \in S => h[n] \in S
    BY <1>3, <1>10
  <1>12. \A n \in 0..N : h[n] \in S
    BY <1>1, <1>10, <1>11, AllMembers
  <1> QED BY <1>2, <1>10, <1>12 DEF h, N, S

LEMMA SnapOutputsFacts ==
    ASSUME NEW l \in LayoutType
    PROVE  SnapOutputs(l) \in Rearranged(l)
  <1>1. l \in Rearranged(l) /\ NMonitors \in 0..NMonitors
    BY Parameters DEF Rearranged
  <1>2. Snapping(l)[NMonitors] \in Rearranged(l)
    BY <1>1, SnappingSteps
  <1> QED BY <1>1, <1>2 DEF SnapOutputs

\* The monitors of a layout are near enough for distances to count.
PairIsClose(l, zoom) == \A m \in l.useful, n \in l.useful : m # n => Close(l, m, n, zoom)

\* The two monitors of a pair are snapped one after the other.
LEMMA SnapOutputsOfPair ==
    ASSUME NEW l \in LayoutType, NEW a \in Monitors, NEW b \in Monitors, a < b,
           l.useful = {a, b}
    PROVE  LET k == Moved(l, a, FindBestSnapping(l, a, Settled))
           IN  /\ k \in Rearranged(l)
               /\ Snapping(l)[NMonitors] = Moved(k, b, FindBestSnapping(k, b, Settled))
  <1> DEFINE N == NMonitors
             S == Rearranged(l)
             f == Snapping(l)
             k == Moved(l, a, FindBestSnapping(l, a, Settled))
  <1>1. N \in Nat /\ Monitors = 1..N
    BY Parameters DEF Monitors
  <1>2. /\ a \in Nat /\ b \in Nat /\ a \in 1..N /\ b \in 1..N /\ a # b
        /\ a \in 0..N /\ b \in 0..N /\ a - 1 \in 0..N /\ b - 1 \in 0..N /\ a - 1 \in Nat
        /\ a \in 0..b - 1 /\ b - 1 \in Nat
    BY <1>1
  <1>3. /\ f[0] = l
        /\ \A n \in 0..N : f[n] \in S
        /\ \A n \in 1..N : f[n] = TrySnapOutput(f[n - 1], n)
    BY SnappingSteps
  <1> HIDE DEF f, N
  <1>4. \A n \in 1..N : n # a /\ n # b => f[n] = f[n - 1]
    <2> SUFFICES ASSUME NEW n \in 1..N, n # a, n # b PROVE f[n] = f[n - 1]
      OBVIOUS
    <2>1. n - 1 \in 0..N /\ n \in Monitors /\ n \notin l.useful
      BY <1>1
    <2>2. f[n - 1] \in Rearranged(l) /\ f[n] = TrySnapOutput(f[n - 1], n)
      BY <1>3, <2>1
    <2> QED BY <2>1, <2>2, TrySnapFacts
  <1>5. f[a - 1] = l
    <2> DEFINE T == {l}
               M == a - 1
    <2>1. f[0] \in T /\ M \in Nat
      BY <1>2, <1>3
    <2>2. \A n \in 1..M : n \in 1..N /\ n # a /\ n # b
      BY <1>1, <1>2
    <2>3. \A n \in 1..M : f[n - 1] \in T => f[n] \in T
      BY <1>4, <2>2
    <2> HIDE DEF T, M
    <2>4. f[M] \in T
      BY <2>1, <2>3, EveryMember
    <2> QED BY <2>4 DEF T, M
  <1>6. f[a] = k /\ k \in S
    <2>1. l \in Rearranged(l) /\ f[a] = TrySnapOutput(l, a)
      BY <1>2, <1>3, <1>5
    <2>2. f[a] \in S
      BY <1>2, <1>3
    <2> QED BY <2>1, <2>2, TrySnapFacts
  <1>7. f[b - 1] = f[a]
    <2> DEFINE T == {f[a]}
               M == b - 1
    <2>1. f[a] \in T /\ M \in Nat /\ a \in 0..M
      BY <1>2
    <2>2. \A n \in a + 1..M : n \in 1..N /\ n # a /\ n # b
      BY <1>1, <1>2
    <2>3. \A n \in a + 1..M : f[n - 1] \in T => f[n] \in T
      BY <1>4, <2>2
    <2> HIDE DEF T, M
    <2>4. f[M] \in T
      BY <2>1, <2>3, MembersFrom
    <2> QED BY <2>4 DEF T, M
  <1> HIDE DEF k
  <1>8. f[b] = Moved(k, b, FindBestSnapping(k, b, Settled))
    <2>1. k \in Rearranged(l) /\ f[b] = TrySnapOutput(k, b)
      BY <1>2, <1>3, <1>6, <1>7
    <2> QED BY <2>1, TrySnapFacts
  <1>9. f[N] = f[b]
    <2> DEFINE T == {f[b]}
    <2>1. f[b] \in T /\ N \in Nat /\ b \in 0..N
      BY <1>1, <1>2
    <2>2. \A n \in b + 1..N : n \in 1..N /\ n # a /\ n # b
      BY <1>1, <1>2
    <2>3. \A n \in b + 1..N : f[n - 1] \in T => f[n] \in T
      BY <1>4, <2>2
    <2> HIDE DEF T
    <2>4. f[N] \in T
      BY <2>1, <2>3, MembersFrom
    <2> QED BY <2>4 DEF T
  <1> QED BY <1>6, <1>8, <1>9 DEF f, N, k

\* To snap two monitors that are near enough to each other attaches them.
LEMMA SnapOutputsAttaches ==
    ASSUME NEW l \in LayoutType, Large(l), Cardinality(l.useful) = 2, PairIsClose(l, 1), Far > 0
    PROVE  Good(SnapOutputs(l))
  <1>1. l.useful \in SUBSET Monitors
    BY DEF LayoutType
  <1>2. PICK a, b \in Monitors : a < b /\ l.useful = {a, b}
    BY <1>1, PairFacts
  <1>3. a # b
    BY <1>2 DEF Monitors
  <1>4. Settled \in Reaches /\ Settled.free /\ Settled.zoom = 1 /\ 1 \in Nat /\ Far * 1 > 0
    BY Parameters DEF Settled, Reaches
  <1> DEFINE k == Moved(l, a, FindBestSnapping(l, a, Settled))
  <1>5. k \in Rearranged(l) /\ SnapOutputs(l) = Moved(k, b, FindBestSnapping(k, b, Settled))
    BY <1>2, SnapOutputsOfPair DEF SnapOutputs
  <1>6. k \in LayoutType /\ k.useful = {b, a} /\ k.size = l.size
    <2> HIDE DEF k
    <2> QED BY <1>2, <1>5 DEF Rearranged
  <1>7. Attached(k, a, b, MinOverlap)
    <2>1. Close(l, a, b, Settled.zoom)
      BY <1>2, <1>3, <1>4 DEF PairIsClose
    <2> QED BY <1>2, <1>3, <1>4, <2>1, SnappedPairIsGood
  <1> HIDE DEF k
  <1>8. Attached(k, b, a, MinOverlap)
    <2>1. MinOverlap \in Int
      BY Parameters
    <2> QED BY <1>6, <1>7, <2>1, AttachedIsMutual
  <1>9. Close(k, b, a, Settled.zoom) /\ Large(k)
    BY <1>4, <1>6, <1>8, AttachedIsClose DEF Large
  <1> QED BY <1>3, <1>4, <1>5, <1>6, <1>9, SnappedPairIsGood

(* Where two monitors come to rest *)

\* Snapping m beside n: u and v are their sizes and r is how far m starts from where n
\* starts, on the axis along which they touch.  Meets says that two places are near.

Meets(r, t) == AbsDiff(r, t) <= MinorSnap

\* The targets, with the halves hu and hv of the sizes
AtFinishes(u, v) == v - u
AtCentred(u, v) == v \div 2 - u \div 2
AtHangsLow(u) == MinOverlap - u
AtHangsHigh(v) == v - MinOverlap

NoCorner(a, u, v, r) ==
    ~Meets(r, 0) /\ ~Meets(r, AtFinishes(u, v)) /\ (a = "y" => ~Meets(r, AtCentred(u, v)))

\* From r it is snapped to q, the first of the targets that r is near to, if there is any.
Goes(a, u, v, r, q) ==
    \/ Meets(r, 0) /\ q = 0
    \/ ~Meets(r, 0) /\ Meets(r, AtFinishes(u, v)) /\ q = AtFinishes(u, v)
    \/ /\ a = "y" /\ ~Meets(r, 0) /\ ~Meets(r, AtFinishes(u, v)) /\ Meets(r, AtCentred(u, v))
       /\ q = AtCentred(u, v)
    \/ NoCorner(a, u, v, r) /\ Meets(r, AtHangsLow(u)) /\ q = AtHangsLow(u)
    \/ /\ NoCorner(a, u, v, r) /\ ~Meets(r, AtHangsLow(u)) /\ Meets(r, AtHangsHigh(v))
       /\ q = AtHangsHigh(v)
    \/ /\ NoCorner(a, u, v, r) /\ ~Meets(r, AtHangsLow(u)) /\ ~Meets(r, AtHangsHigh(v))
       /\ q = r
Rests(a, u, v, r) == Goes(a, u, v, r, r)
Target(a, u, v, r) ==
    \/ r \in {0, AtFinishes(u, v), AtHangsLow(u), AtHangsHigh(v)}
    \/ a = "y" /\ r = AtCentred(u, v)

Room(u) == u > MinOverlap + MinorSnap

LEMMA MeetsFacts ==
    ASSUME NEW r \in Int, NEW t \in Int
    PROVE  Meets(r, t) <=> r - t <= MinorSnap /\ t - r <= MinorSnap
  <1>1. MinorSnap \in Nat
    BY Parameters
  <1> QED BY <1>1 DEF Meets, AbsDiff

LEMMA TargetFacts ==
    ASSUME NEW u \in Int, NEW v \in Int
    PROVE  /\ AtFinishes(u, v) \in Int /\ AtCentred(u, v) \in Int
           /\ AtHangsLow(u) \in Int /\ AtHangsHigh(v) \in Int
  <1>1. u \div 2 \in Int /\ v \div 2 \in Int /\ MinOverlap \in Int
    BY Parameters
  <1> QED BY <1>1 DEF AtFinishes, AtCentred, AtHangsLow, AtHangsHigh

\* The targets of two sizes with room, and how far apart they are
LEMMA TargetsApart ==
    ASSUME NEW u \in Int, NEW v \in Int, Room(u), Room(v)
    PROVE  LET low  == AtHangsLow(u)
               high == AtHangsHigh(v)
           IN  /\ ~Meets(low, 0) /\ ~Meets(low, AtFinishes(u, v)) /\ ~Meets(low, AtCentred(u, v))
               /\ ~Meets(high, 0) /\ ~Meets(high, AtFinishes(u, v))
               /\ ~Meets(high, AtCentred(u, v))
               /\ \A r \in Int : ~(Meets(r, low) /\ Meets(r, high))
  <1> DEFINE hu == u \div 2
             hv == v \div 2
             low  == AtHangsLow(u)
             high == AtHangsHigh(v)
             f == AtFinishes(u, v)
             c == AtCentred(u, v)
  <1>1. /\ hu \in Int /\ 2 * hu <= u /\ u <= 2 * hu + 1
        /\ hv \in Int /\ 2 * hv <= v /\ v <= 2 * hv + 1
    OBVIOUS
  <1>2. MinOverlap \in Nat /\ MinorSnap \in Nat
    BY Parameters
  <1>3. u > MinOverlap + MinorSnap /\ v > MinOverlap + MinorSnap
    BY DEF Room
  <1>4. low = MinOverlap - u /\ high = v - MinOverlap /\ f = v - u /\ c = hv - hu
    BY DEF AtHangsLow, AtHangsHigh, AtFinishes, AtCentred
  <1>5. low \in Int /\ high \in Int /\ f \in Int /\ c \in Int
    BY TargetFacts
  <1> HIDE DEF low, high, f, c, hu, hv
  <1>6. /\ ~(low - 0 <= MinorSnap /\ 0 - low <= MinorSnap)
        /\ ~(low - f <= MinorSnap /\ f - low <= MinorSnap)
        /\ ~(low - c <= MinorSnap /\ c - low <= MinorSnap)
    BY <1>1, <1>2, <1>3, <1>4
  <1>7. /\ ~(high - 0 <= MinorSnap /\ 0 - high <= MinorSnap)
        /\ ~(high - f <= MinorSnap /\ f - high <= MinorSnap)
        /\ ~(high - c <= MinorSnap /\ c - high <= MinorSnap)
    BY <1>1, <1>2, <1>3, <1>4
  <1>8. \A r \in Int : ~(r - low <= MinorSnap /\ low - r <= MinorSnap
                         /\ r - high <= MinorSnap /\ high - r <= MinorSnap)
    BY <1>1, <1>2, <1>3, <1>4
  <1>9. /\ ~Meets(low, 0) /\ ~Meets(low, f) /\ ~Meets(low, c)
        /\ ~Meets(high, 0) /\ ~Meets(high, f) /\ ~Meets(high, c)
    BY <1>5, <1>6, <1>7, MeetsFacts
  <1>10. \A r \in Int : ~(Meets(r, low) /\ Meets(r, high))
    BY <1>5, <1>8, MeetsFacts
  <1> QED BY <1>9, <1>10 DEF low, high, f, c

LEMMA MeetsItself ==
    ASSUME NEW r \in Int
    PROVE  Meets(r, r)
  BY MeetsFacts, Parameters

\* The centre is no farther from the start than the finish.
LEMMA CentreBetween ==
    ASSUME NEW u \in Int, NEW v \in Int, Meets(AtFinishes(u, v), 0)
    PROVE  Meets(AtCentred(u, v), 0)
  <1> DEFINE hu == u \div 2
             hv == v \div 2
             f == AtFinishes(u, v)
             c == AtCentred(u, v)
  <1>1. /\ hu \in Int /\ 2 * hu <= u /\ u <= 2 * hu + 1
        /\ hv \in Int /\ 2 * hv <= v /\ v <= 2 * hv + 1
    OBVIOUS
  <1>2. f = v - u /\ c = hv - hu
    BY DEF AtFinishes, AtCentred
  <1>3. f \in Int /\ c \in Int /\ 0 \in Int /\ MinorSnap \in Nat
    BY TargetFacts, Parameters
  <1> HIDE DEF f, c, hu, hv
  <1>4. f - 0 <= MinorSnap /\ 0 - f <= MinorSnap
    BY <1>3, MeetsFacts DEF f
  <1>5. c - 0 <= MinorSnap /\ 0 - c <= MinorSnap
    BY <1>1, <1>2, <1>3, <1>4
  <1>6. Meets(c, 0)
    BY <1>3, <1>5, MeetsFacts
  <1> QED BY <1>6 DEF c

\* There is one place to go to.
LEMMA GoesOneWay ==
    ASSUME NEW a, NEW u, NEW v, NEW r, NEW q1, NEW q2, Goes(a, u, v, r, q1), Goes(a, u, v, r, q2)
    PROVE  q1 = q2
  BY DEF Goes, NoCorner

\* It is not far, ...
LEMMA GoesNear ==
    ASSUME NEW a, NEW u \in Int, NEW v \in Int, NEW r \in Int, NEW q, Goes(a, u, v, r, q)
    PROVE  q \in Int /\ r - q <= MinorSnap /\ q - r <= MinorSnap
  <1> DEFINE T == {0, AtFinishes(u, v), AtCentred(u, v), AtHangsLow(u), AtHangsHigh(v)}
  <1>0. T \subseteq Int
    BY TargetFacts
  <1>1. q = r \/ (\E t \in T : Meets(r, t) /\ q = t)
    BY DEF Goes
  <1>2. MinorSnap \in Nat
    BY Parameters
  <1> HIDE DEF T
  <1>3. CASE q = r
    BY <1>2, <1>3
  <1>4. ASSUME NEW t \in T, Meets(r, t), q = t
        PROVE  q \in Int /\ r - q <= MinorSnap /\ q - r <= MinorSnap
    BY <1>0, <1>4, MeetsFacts
  <1> QED BY <1>1, <1>3, <1>4

\* ... and, from a target or a place that rests, it rests.
LEMMA GoesToRest ==
    ASSUME NEW a, NEW u \in Int, NEW v \in Int, Room(u), Room(v), NEW r \in Int, NEW q,
           Target(a, u, v, r) \/ Rests(a, u, v, r), Goes(a, u, v, r, q)
    PROVE  Rests(a, u, v, q)
  <1> DEFINE low  == AtHangsLow(u)
             high == AtHangsHigh(v)
             f    == AtFinishes(u, v)
             c    == AtCentred(u, v)
  <1>1. low \in Int /\ high \in Int /\ f \in Int /\ c \in Int /\ 0 \in Int
    BY TargetFacts
  <1>2. /\ ~Meets(low, 0) /\ ~Meets(low, f) /\ ~Meets(low, c)
        /\ ~Meets(high, 0) /\ ~Meets(high, f) /\ ~Meets(high, c)
        /\ \A k \in Int : ~(Meets(k, low) /\ Meets(k, high))
    BY TargetsApart
  <1>3. Meets(f, 0) => Meets(c, 0)
    BY CentreBetween
  <1>4. Meets(low, low) /\ Meets(high, high) /\ Meets(f, f) /\ Meets(c, c) /\ Meets(0, 0)
    BY <1>1, MeetsItself
  <1>5. Goes(a, u, v, r, r) => r = q
    BY GoesOneWay
  <1>6. \A k : Rests(a, u, v, k) <=>
            \/ Meets(k, 0) /\ k = 0
            \/ ~Meets(k, 0) /\ Meets(k, f) /\ k = f
            \/ a = "y" /\ ~Meets(k, 0) /\ ~Meets(k, f) /\ Meets(k, c) /\ k = c
            \/ NoCorner(a, u, v, k) /\ Meets(k, low) /\ k = low
            \/ NoCorner(a, u, v, k) /\ ~Meets(k, low) /\ Meets(k, high) /\ k = high
            \/ NoCorner(a, u, v, k) /\ ~Meets(k, low) /\ ~Meets(k, high)
    BY DEF Rests, Goes
  <1>7. \A k : NoCorner(a, u, v, k) <=> ~Meets(k, 0) /\ ~Meets(k, f) /\ (a = "y" => ~Meets(k, c))
    BY DEF NoCorner
  <1>8. r = 0 \/ r = f \/ r = low \/ r = high \/ (a = "y" /\ r = c) \/ Rests(a, u, v, r)
    BY DEF Target
  <1>9. Rests(a, u, v, r) => r = q
    BY <1>5 DEF Rests
  <1>10. \/ Meets(r, 0) /\ q = 0
         \/ ~Meets(r, 0) /\ Meets(r, f) /\ q = f
         \/ a = "y" /\ ~Meets(r, 0) /\ ~Meets(r, f) /\ Meets(r, c) /\ q = c
         \/ NoCorner(a, u, v, r) /\ Meets(r, low) /\ q = low
         \/ NoCorner(a, u, v, r) /\ ~Meets(r, low) /\ Meets(r, high) /\ q = high
         \/ NoCorner(a, u, v, r) /\ ~Meets(r, low) /\ ~Meets(r, high) /\ q = r
    BY DEF Goes
  <1> HIDE DEF low, high, f, c
  <1>11. CASE Rests(a, u, v, r)
    BY <1>9, <1>11
  <1>12. CASE ~Rests(a, u, v, r)
    <2>1. CASE q = 0
      BY <1>4, <1>6, <2>1
    <2>2. CASE ~Meets(r, 0) /\ Meets(r, f) /\ q = f
      <3>1. ~Meets(f, 0)
        BY <1>2, <1>3, <1>4, <1>8, <1>12, <2>2
      <3> QED BY <1>4, <1>6, <2>2, <3>1
    <2>3. CASE a = "y" /\ ~Meets(r, 0) /\ ~Meets(r, f) /\ Meets(r, c) /\ q = c
      <3>1. r = c
        BY <1>2, <1>4, <1>8, <1>12, <2>3
      <3> QED BY <1>6, <2>3, <3>1
    <2>4. CASE q = low
      BY <1>2, <1>4, <1>6, <1>7, <2>4
    <2>5. CASE q = high
      <3>1. ~Meets(high, low)
        BY <1>1, <1>2, <1>4
      <3> QED BY <1>2, <1>4, <1>6, <1>7, <2>5, <3>1
    <2>6. CASE NoCorner(a, u, v, r) /\ ~Meets(r, low) /\ ~Meets(r, high) /\ q = r
      BY <1>6, <2>6
    <2> QED BY <1>10, <2>1, <2>2, <2>3, <2>4, <2>5, <2>6
  <1> QED BY <1>11, <1>12

\* From the other monitor's side it rests as well.
LEMMA RestsForBoth ==
    ASSUME NEW a, NEW u \in Int, NEW v \in Int, Room(u), Room(v), NEW r \in Int,
           Rests(a, u, v, r)
    PROVE  Rests(a, v, u, 0 - r)
  <1> DEFINE low  == AtHangsLow(u)
             high == AtHangsHigh(v)
             f    == AtFinishes(u, v)
             c    == AtCentred(u, v)
  <1>1. low \in Int /\ high \in Int /\ f \in Int /\ c \in Int /\ 0 - r \in Int
    BY TargetFacts
  <1>2. /\ AtHangsHigh(u) = 0 - low /\ AtHangsLow(v) = 0 - high
        /\ AtFinishes(v, u) = 0 - f /\ AtCentred(v, u) = 0 - c
    <2>1. u \div 2 \in Int /\ v \div 2 \in Int /\ MinOverlap \in Int
      BY Parameters
    <2> QED BY <2>1 DEF AtHangsHigh, AtHangsLow, AtFinishes, AtCentred
  <1>3. \A k \in Int : Meets(0 - r, 0 - k) <=> Meets(r, k)
    <2> SUFFICES ASSUME NEW k \in Int PROVE Meets(0 - r, 0 - k) <=> Meets(r, k)
      OBVIOUS
    <2>1. 0 - k \in Int /\ MinorSnap \in Int
      BY Parameters
    <2>2. (0 - r) - (0 - k) = k - r /\ (0 - k) - (0 - r) = r - k
      OBVIOUS
    <2> QED BY <1>1, <2>1, <2>2, MeetsFacts
  <1>4. Meets(0 - r, 0) <=> Meets(r, 0)
    <2>1. 0 - 0 = 0 /\ 0 \in Int
      OBVIOUS
    <2> QED BY <1>3, <2>1
  <1>5. ~(Meets(r, low) /\ Meets(r, high))
    BY TargetsApart
  <1>6. \A k \in Int : r = k => 0 - r = 0 - k
    OBVIOUS
  <1>6a. r = 0 => 0 - r = 0
    OBVIOUS
  <1>7. \/ Meets(r, 0) /\ r = 0
        \/ ~Meets(r, 0) /\ Meets(r, f) /\ r = f
        \/ a = "y" /\ ~Meets(r, 0) /\ ~Meets(r, f) /\ Meets(r, c) /\ r = c
        \/ NoCorner(a, u, v, r) /\ Meets(r, low) /\ r = low
        \/ NoCorner(a, u, v, r) /\ ~Meets(r, low) /\ Meets(r, high) /\ r = high
        \/ NoCorner(a, u, v, r) /\ ~Meets(r, low) /\ ~Meets(r, high)
    BY DEF Rests, Goes
  <1>8. NoCorner(a, u, v, r) <=> ~Meets(r, 0) /\ ~Meets(r, f) /\ (a = "y" => ~Meets(r, c))
    BY DEF NoCorner
  <1> HIDE DEF low, high, f, c
  <1> DEFINE s == 0 - r
  <1>9. /\ Meets(s, 0 - low) <=> Meets(r, low)
        /\ Meets(s, 0 - high) <=> Meets(r, high)
        /\ Meets(s, 0 - f) <=> Meets(r, f)
        /\ Meets(s, 0 - c) <=> Meets(r, c)
        /\ Meets(s, 0) <=> Meets(r, 0)
    BY <1>1, <1>3, <1>4
  <1>10. /\ r = low => s = 0 - low
         /\ r = high => s = 0 - high
         /\ r = f => s = 0 - f
         /\ r = c => s = 0 - c
         /\ r = 0 => s = 0
    BY <1>1, <1>6, <1>6a
  <1> HIDE DEF s
  <1>11. NoCorner(a, v, u, s) <=> NoCorner(a, u, v, r)
    BY <1>2, <1>8, <1>9 DEF NoCorner
  <1>12. Goes(a, v, u, s, s) <=>
            \/ Meets(r, 0) /\ s = 0
            \/ ~Meets(r, 0) /\ Meets(r, f) /\ s = 0 - f
            \/ a = "y" /\ ~Meets(r, 0) /\ ~Meets(r, f) /\ Meets(r, c) /\ s = 0 - c
            \/ NoCorner(a, u, v, r) /\ Meets(r, high) /\ s = 0 - high
            \/ NoCorner(a, u, v, r) /\ ~Meets(r, high) /\ Meets(r, low) /\ s = 0 - low
            \/ NoCorner(a, u, v, r) /\ ~Meets(r, high) /\ ~Meets(r, low) /\ s = s
    BY <1>2, <1>9, <1>11 DEF Goes
  <1>13. Goes(a, v, u, s, s)
    <2>1. CASE Meets(r, 0) /\ r = 0
      BY <1>10, <1>12, <2>1
    <2>2. CASE ~Meets(r, 0) /\ Meets(r, f) /\ r = f
      BY <1>10, <1>12, <2>2
    <2>3. CASE a = "y" /\ ~Meets(r, 0) /\ ~Meets(r, f) /\ Meets(r, c) /\ r = c
      BY <1>10, <1>12, <2>3
    <2>4. CASE NoCorner(a, u, v, r) /\ Meets(r, low) /\ r = low
      BY <1>5, <1>10, <1>12, <2>4
    <2>5. CASE NoCorner(a, u, v, r) /\ ~Meets(r, low) /\ Meets(r, high) /\ r = high
      BY <1>10, <1>12, <2>5
    <2>6. CASE NoCorner(a, u, v, r) /\ ~Meets(r, low) /\ ~Meets(r, high)
      BY <1>12, <2>6
    <2> QED BY <1>7, <2>1, <2>2, <2>3, <2>4, <2>5, <2>6
  <1> QED BY <1>13 DEF Rests, s

(* The first of a set in a sequence *)

NoneOf(s, R) == \A i \in 1..Len(s) : s[i] \notin R
FirstOf(s, R, x) ==
    \E j \in 1..Len(s) : s[j] = x /\ x \in R /\ \A k \in 1..j - 1 : s[k] \notin R

LEMMA FirstIsIn ==
    ASSUME NEW s, NEW R, NEW x, FirstOf(s, R, x)
    PROVE  In(x, s) /\ x \in R
  BY DEF FirstOf, In

LEMMA NoneIsIn ==
    ASSUME NEW s, NEW R
    PROVE  NoneOf(s, R) <=> \A c : In(c, s) => c \notin R
  BY DEF NoneOf, In

LEMMA FirstExists ==
    ASSUME NEW S, NEW s \in Seq(S), NEW R
    PROVE  NoneOf(s, R) \/ \E x : FirstOf(s, R, x)
  <1> DEFINE J == {j \in Nat : j \in 1..Len(s) /\ s[j] \in R}
  <1>1. CASE J = {}
    <2>1. \A i \in 1..Len(s) : i \in Nat
      OBVIOUS
    <2> QED BY <1>1, <2>1 DEF NoneOf
  <1>2. CASE J # {}
    <2>1. PICK j \in J : \A k \in J : j <= k
      BY <1>2, LeastNumber
    <2>2. j \in Nat /\ j \in 1..Len(s) /\ s[j] \in R /\ Len(s) \in Nat
      BY <2>1
    <2>3. \A k \in 1..j - 1 : s[k] \notin R
      <3> SUFFICES ASSUME NEW k \in 1..j - 1, s[k] \in R PROVE FALSE
        OBVIOUS
      <3>1. k \in Nat /\ k \in 1..Len(s) /\ k < j
        BY <2>2
      <3>2. k \in J
        BY <3>1
      <3> QED BY <2>1, <2>2, <3>1, <3>2
    <2>4. FirstOf(s, R, s[j])
      BY <2>2, <2>3 DEF FirstOf
    <2> QED BY <2>4
  <1> QED BY <1>1, <1>2

LEMMA FirstInConcat ==
    ASSUME NEW S, NEW s \in Seq(S), NEW t \in Seq(S), NEW R, NEW x, FirstOf(s \o t, R, x)
    PROVE  FirstOf(s, R, x) \/ (NoneOf(s, R) /\ FirstOf(t, R, x))
  <1>1. /\ Len(s) \in Nat /\ Len(t) \in Nat /\ Len(s \o t) = Len(s) + Len(t)
        /\ \A i \in 1..Len(s) : (s \o t)[i] = s[i]
        /\ \A i \in 1..Len(t) : (s \o t)[Len(s) + i] = t[i]
    BY ConcatElements
  <1>2. PICK j \in 1..Len(s \o t) :
            (s \o t)[j] = x /\ x \in R /\ \A k \in 1..j - 1 : (s \o t)[k] \notin R
    BY DEF FirstOf
  <1> DEFINE st == s \o t
  <1> HIDE DEF st
  <1>3. /\ j \in 1..Len(s) + Len(t) /\ st[j] = x /\ x \in R
        /\ \A k \in 1..j - 1 : st[k] \notin R
        /\ \A i \in 1..Len(s) : st[i] = s[i]
        /\ \A i \in 1..Len(t) : st[Len(s) + i] = t[i]
    BY <1>1, <1>2 DEF st
  <1>4. CASE j <= Len(s)
    <2>1. j \in 1..Len(s) /\ \A k \in 1..j - 1 : k \in 1..Len(s)
      BY <1>1, <1>3, <1>4
    <2>2. s[j] = x /\ \A k \in 1..j - 1 : s[k] \notin R
      BY <1>3, <2>1
    <2>3. FirstOf(s, R, x)
      BY <1>3, <2>1, <2>2 DEF FirstOf
    <2> QED BY <2>3
  <1>5. CASE ~(j <= Len(s))
    <2> DEFINE i == j - Len(s)
    <2>1. /\ i \in 1..Len(t) /\ Len(s) + i = j
          /\ \A k \in 1..i - 1 : k \in 1..Len(t) /\ Len(s) + k \in 1..j - 1
          /\ \A k \in 1..Len(s) : k \in 1..j - 1
      BY <1>1, <1>3, <1>5
    <2> HIDE DEF i
    <2>2. t[i] = x /\ \A k \in 1..i - 1 : t[k] \notin R
      BY <1>3, <2>1
    <2>3. NoneOf(s, R)
      BY <1>3, <2>1 DEF NoneOf
    <2>4. FirstOf(t, R, x)
      BY <1>3, <2>1, <2>2 DEF FirstOf
    <2> QED BY <2>3, <2>4
  <1> QED BY <1>4, <1>5

LEMMA FirstInFour ==
    ASSUME NEW S, NEW s1 \in Seq(S), NEW s2 \in Seq(S), NEW s3 \in Seq(S), NEW s4 \in Seq(S),
           NEW R, NEW x, FirstOf(Four(s1, s2, s3, s4), R, x)
    PROVE  \/ FirstOf(s1, R, x) \/ FirstOf(s2, R, x)
           \/ FirstOf(s3, R, x) \/ FirstOf(s4, R, x)
  <1> DEFINE t == s1 \o s2
             u == t \o s3
  <1>1. t \in Seq(S)
    BY InConcat
  <1>2. FirstOf(t, R, x) => FirstOf(s1, R, x) \/ FirstOf(s2, R, x)
    BY FirstInConcat
  <1>3. Four(s1, s2, s3, s4) = u \o s4
    BY DEF Four
  <1> HIDE DEF t
  <1>4. u \in Seq(S)
    BY <1>1, InConcat
  <1>5. FirstOf(u, R, x) => FirstOf(t, R, x) \/ FirstOf(s3, R, x)
    BY <1>1, FirstInConcat
  <1> HIDE DEF u
  <1>6. FirstOf(u \o s4, R, x)
    BY <1>3
  <1>7. FirstOf(u, R, x) \/ FirstOf(s4, R, x)
    BY <1>4, <1>6, FirstInConcat
  <1> QED BY <1>2, <1>5, <1>7

LEMMA FirstOfTwo ==
    ASSUME NEW c1, NEW c2, NEW R, NEW x, FirstOf(<<c1, c2>>, R, x)
    PROVE  x = c1 \/ (c1 \notin R /\ x = c2)
  <1> DEFINE s == <<c1, c2>>
  <1>1. Len(s) = 2 /\ s[1] = c1 /\ s[2] = c2
    OBVIOUS
  <1> HIDE DEF s
  <1>2. PICK j \in 1..Len(s) : s[j] = x /\ \A k \in 1..j - 1 : s[k] \notin R
    BY DEF FirstOf, s
  <1>3. CASE j = 1
    BY <1>1, <1>2, <1>3
  <1>4. CASE j = 2
    <2>1. 1 \in 1..j - 1
      BY <1>4
    <2> QED BY <1>1, <1>2, <1>4, <2>1
  <1> QED BY <1>1, <1>2, <1>3, <1>4

\* The ends that R holds are all at side i of n on axis a.
OnlySide(l, m, n, a, i, R) ==
    \A b \in Axes, j \in 1..2 : \A c : IsEnd(l, m, n, b, j, c) /\ c \in R => b = a /\ j = i

\* c is the first of the ends of that side that R holds.
IsFirst(l, m, n, a, i, R, c) ==
    LET c1 == End(l, m, n, a, i, Starts(l, m, n, Other(a)), 0)
        c2 == End(l, m, n, a, i, Finishes(l, m, n, Other(a)), 0)
        c3 == End(l, m, n, a, i, Centred(l, m, n, Other(a)), 0)
        h1 == End(l, m, n, a, i, HangsLow(l, m, n, Other(a)), 1)
        h2 == End(l, m, n, a, i, HangsHigh(l, m, n, Other(a)), -1)
    IN  /\ c \in R
        /\ \/ c = c1
           \/ c1 \notin R /\ c = c2
           \/ a = "y" /\ c1 \notin R /\ c2 \notin R /\ c = c3
           \/ /\ c1 \notin R /\ c2 \notin R /\ (a = "y" => c3 \notin R)
              /\ c = h1 \/ (h1 \notin R /\ c = h2)

LEMMA FirstEnd ==
    ASSUME NEW l \in LayoutType, NEW m \in Monitors, NEW n \in Monitors,
           NEW reach \in Reaches, NEW a \in Axes, NEW i \in 1..2, NEW R,
           OnlySide(l, m, n, a, i, R),
           NEW x, FirstOf(Ends(l, m, n, reach), R, x)
    PROVE  IsFirst(l, m, n, a, i, R, x)
  <1> DEFINE cs == AllCorners(l, m, n)
             hs == AllHanging(l, m, n)
             t  == IF reach.free THEN hs ELSE <<>>
             c1 == End(l, m, n, a, i, Starts(l, m, n, Other(a)), 0)
             c2 == End(l, m, n, a, i, Finishes(l, m, n, Other(a)), 0)
             c3 == End(l, m, n, a, i, Centred(l, m, n, Other(a)), 0)
             h1 == End(l, m, n, a, i, HangsLow(l, m, n, Other(a)), 1)
             h2 == End(l, m, n, a, i, HangsHigh(l, m, n, Other(a)), -1)
             C(b, j) == Corners(l, m, n, b, j)
             H(b, j) == Hanging(l, m, n, b, j)
  <1>1. "x" \in Axes /\ "y" \in Axes /\ 1 \in 1..2 /\ 2 \in 1..2
    BY AxesFacts
  <1>2. ASSUME NEW b \in Axes, NEW j \in 1..2
        PROVE  /\ C(b, j) \in Seq(CandidateType) /\ H(b, j) \in Seq(CandidateType)
               /\ FirstOf(C(b, j), R, x) => b = a /\ j = i
               /\ FirstOf(H(b, j), R, x) => b = a /\ j = i
    <2>1. C(b, j) \in Seq(CandidateType) /\ H(b, j) \in Seq(CandidateType)
      BY CornersFacts, HangingFacts
    <2>2. In(x, C(b, j)) \/ In(x, H(b, j)) => IsEnd(l, m, n, b, j, x)
      BY SideEnds
    <2> QED BY <2>1, <2>2, FirstIsIn DEF OnlySide
  <1>3. cs = Four(C("y", 1), C("y", 2), C("x", 1), C("x", 2))
        /\ hs = Four(H("y", 1), H("y", 2), H("x", 1), H("x", 2))
    BY DEF AllCorners, AllHanging, Four
  <1>4. Ends(l, m, n, reach) = cs \o t
    BY DEF Ends
  <1>5. C(a, i) \in Seq(CandidateType) /\ H(a, i) \in Seq(CandidateType)
    BY <1>2
  <1>6. C(a, i) = <<c1, c2>> \o (IF a = "y" THEN <<c3>> ELSE <<>>) /\ H(a, i) = <<h1, h2>>
    BY DEF Corners, Hanging, End, Starts, Finishes, Centred, HangsLow, HangsHigh
  <1>7. c1 \in CandidateType /\ c2 \in CandidateType /\ c3 \in CandidateType
    <2> DEFINE o == Other(a)
    <2>1. o \in Axes /\ 0 \in -1..1
      BY AxesFacts
    <2> HIDE DEF o
    <2>2. /\ End(l, m, n, a, i, Starts(l, m, n, o), 0) \in CandidateType
          /\ End(l, m, n, a, i, Finishes(l, m, n, o), 0) \in CandidateType
          /\ End(l, m, n, a, i, Centred(l, m, n, o), 0) \in CandidateType
      BY <2>1, QsAreNumbers, EndFacts
    <2> QED BY <2>2 DEF o
  <1> HIDE DEF cs, hs, C, H, c1, c2, c3, h1, h2
  <1>8. /\ cs \in Seq(CandidateType) /\ hs \in Seq(CandidateType)
        /\ FirstOf(cs, R, x) => FirstOf(C(a, i), R, x)
        /\ FirstOf(hs, R, x) => FirstOf(H(a, i), R, x)
        /\ \A c : In(c, C(a, i)) => In(c, cs)
    <2>1. /\ C("y", 1) \in Seq(CandidateType) /\ C("y", 2) \in Seq(CandidateType)
          /\ C("x", 1) \in Seq(CandidateType) /\ C("x", 2) \in Seq(CandidateType)
          /\ H("y", 1) \in Seq(CandidateType) /\ H("y", 2) \in Seq(CandidateType)
          /\ H("x", 1) \in Seq(CandidateType) /\ H("x", 2) \in Seq(CandidateType)
      BY <1>1, <1>2
    <2> DEFINE y1 == C("y", 1)
               y2 == C("y", 2)
               x1 == C("x", 1)
               x2 == C("x", 2)
               z1 == H("y", 1)
               z2 == H("y", 2)
               w1 == H("x", 1)
               w2 == H("x", 2)
    <2>2. /\ FirstOf(y1, R, x) => a = "y" /\ i = 1
          /\ FirstOf(y2, R, x) => a = "y" /\ i = 2
          /\ FirstOf(x1, R, x) => a = "x" /\ i = 1
          /\ FirstOf(x2, R, x) => a = "x" /\ i = 2
          /\ FirstOf(z1, R, x) => a = "y" /\ i = 1
          /\ FirstOf(z2, R, x) => a = "y" /\ i = 2
          /\ FirstOf(w1, R, x) => a = "x" /\ i = 1
          /\ FirstOf(w2, R, x) => a = "x" /\ i = 2
      BY <1>1, <1>2
    <2>3. /\ a = "y" /\ i = 1 => C(a, i) = y1 /\ H(a, i) = z1
          /\ a = "y" /\ i = 2 => C(a, i) = y2 /\ H(a, i) = z2
          /\ a = "x" /\ i = 1 => C(a, i) = x1 /\ H(a, i) = w1
          /\ a = "x" /\ i = 2 => C(a, i) = x2 /\ H(a, i) = w2
      OBVIOUS
    <2>4. cs = Four(y1, y2, x1, x2) /\ hs = Four(z1, z2, w1, w2)
      BY <1>3
    <2>5. C(a, i) = y1 \/ C(a, i) = y2 \/ C(a, i) = x1 \/ C(a, i) = x2
      BY <2>3, AxesFacts
    <2> HIDE DEF y1, y2, x1, x2, z1, z2, w1, w2
    <2>6. /\ y1 \in Seq(CandidateType) /\ y2 \in Seq(CandidateType)
          /\ x1 \in Seq(CandidateType) /\ x2 \in Seq(CandidateType)
          /\ z1 \in Seq(CandidateType) /\ z2 \in Seq(CandidateType)
          /\ w1 \in Seq(CandidateType) /\ w2 \in Seq(CandidateType)
      BY <2>1 DEF y1, y2, x1, x2, z1, z2, w1, w2
    <2>7. FirstOf(cs, R, x) => FirstOf(y1, R, x) \/ FirstOf(y2, R, x)
                               \/ FirstOf(x1, R, x) \/ FirstOf(x2, R, x)
      BY <2>4, <2>6, FirstInFour
    <2>8. FirstOf(hs, R, x) => FirstOf(z1, R, x) \/ FirstOf(z2, R, x)
                               \/ FirstOf(w1, R, x) \/ FirstOf(w2, R, x)
      BY <2>4, <2>6, FirstInFour
    <2>9. /\ cs \in Seq(CandidateType)
          /\ \A c : In(c, cs) <=> In(c, y1) \/ In(c, y2) \/ In(c, x1) \/ In(c, x2)
      BY <2>4, <2>6, InFour
    <2>10. hs \in Seq(CandidateType)
      BY <2>4, <2>6, InFour
    <2>11. FirstOf(cs, R, x) => FirstOf(C(a, i), R, x)
      BY <2>2, <2>3, <2>7
    <2>12. FirstOf(hs, R, x) => FirstOf(H(a, i), R, x)
      BY <2>2, <2>3, <2>8
    <2>13. \A c : In(c, C(a, i)) => In(c, cs)
      BY <2>5, <2>9
    <2> QED BY <2>9, <2>10, <2>11, <2>12, <2>13
  <1>9. t \in Seq(CandidateType) /\ (FirstOf(t, R, x) => FirstOf(hs, R, x))
    <2>1. CASE reach.free
      BY <1>8, <2>1
    <2>2. CASE ~reach.free
      BY <2>2 DEF FirstOf
    <2> QED BY <2>1, <2>2
  <1> HIDE DEF t
  <1>10. x \in R /\ (FirstOf(cs, R, x) \/ (NoneOf(cs, R) /\ FirstOf(t, R, x)))
    <2>1. FirstOf(cs \o t, R, x)
      BY <1>4
    <2> QED BY <1>8, <1>9, <2>1, FirstInConcat, FirstIsIn
  <1>11. CASE FirstOf(cs, R, x)
    <2> DEFINE d == <<c1, c2>>
               e == IF a = "y" THEN <<c3>> ELSE <<>>
    <2>1. FirstOf(d \o e, R, x)
      BY <1>6, <1>8, <1>11
    <2>2. d \in Seq(CandidateType) /\ e \in Seq(CandidateType)
      BY <1>7
    <2>3. FirstOf(d, R, x) \/ (NoneOf(d, R) /\ FirstOf(e, R, x))
      <3> HIDE DEF d, e
      <3> QED BY <2>1, <2>2, FirstInConcat
    <2>4. FirstOf(d, R, x) => x = c1 \/ (c1 \notin R /\ x = c2)
      BY FirstOfTwo
    <2>5. FirstOf(e, R, x) => a = "y" /\ x = c3
      BY DEF FirstOf
    <2>6. NoneOf(d, R) => c1 \notin R /\ c2 \notin R
      <3>1. In(c1, d) /\ In(c2, d)
        BY <1>7, InPair
      <3> QED BY <3>1, NoneIsIn
    <2> QED BY <1>10, <2>3, <2>4, <2>5, <2>6 DEF IsFirst, c1, c2, c3, h1, h2
  <1>12. CASE NoneOf(cs, R) /\ FirstOf(t, R, x)
    <2>1. FirstOf(<<h1, h2>>, R, x)
      BY <1>6, <1>8, <1>9, <1>12
    <2>2. x = h1 \/ (h1 \notin R /\ x = h2)
      BY <2>1, FirstOfTwo
    <2>3. \A c : In(c, C(a, i)) => c \notin R
      BY <1>8, <1>12, NoneIsIn
    <2>4. In(c1, C(a, i)) /\ In(c2, C(a, i)) /\ (a = "y" => In(c3, C(a, i)))
      BY CornersFacts DEF C, c1, c2, c3
    <2>5. c1 \notin R /\ c2 \notin R /\ (a = "y" => c3 \notin R)
      BY <2>3, <2>4
    <2> QED BY <1>10, <2>2, <2>5 DEF IsFirst, c1, c2, c3, h1, h2
  <1> QED BY <1>10, <1>11, <1>12

Roomy(l) == \A m \in Monitors, a \in Axes : Room(l.size[m][a])

\* m touches n at side i on axis a and shares enough of the edge.
TouchesAt(l, m, n, a, i) ==
    /\ l.pos[m][a] = Sides(l, m, n, a)[i]
    /\ Holds(l, m, n, Other(a), l.pos[m][Other(a)])

LEMMA SettledFacts ==
    /\ Settled \in Reaches /\ Settled.free /\ Settled.zoom = 1
    /\ \A d \in Int : BeyondMinor(d, Settled) <=> d > MinorSnap
    /\ \A d : ~BeyondMajor(d, Settled)
  <1>1. MinorSnap * 1 = MinorSnap
    BY Parameters
  <1> QED BY <1>1 DEF Settled, Reaches, BeyondMinor, BeyondMajor

\* What it means for the coordinates
LEMMA TouchFacts ==
    ASSUME NEW l \in LayoutType, Roomy(l), NEW m \in Monitors, NEW n \in Monitors,
           NEW a \in Axes, NEW i \in 1..2, TouchesAt(l, m, n, a, i)
    PROVE  LET o == Other(a)
               q == l.pos[m][o]
           IN  /\ o \in Axes /\ q \in Int /\ l.pos[m][a] \in Int
               /\ Sides(l, m, n, a)[1] # Sides(l, m, n, a)[2]
               /\ \A j \in 1..2 : /\ Sides(l, m, n, o)[j] \in Int
                                  /\ \/ q - Sides(l, m, n, o)[j] >= MinOverlap
                                     \/ Sides(l, m, n, o)[j] - q >= MinOverlap
               /\ HangsLow(l, m, n, o) <= q /\ q <= HangsHigh(l, m, n, o)
               /\ Share(l, m, n, o)
  <1> DEFINE o  == Other(a)
             q  == l.pos[m][o]
             pn == l.pos[n][o]
             u  == l.size[m][o]
             v  == l.size[n][o]
             s1 == Sides(l, m, n, o)[1]
             s2 == Sides(l, m, n, o)[2]
             low  == HangsLow(l, m, n, o)
             high == HangsHigh(l, m, n, o)
  <1>1. o \in Axes /\ l.pos[m][a] \in Int
    BY AxesFacts, Coordinates
  <1>2. q \in Int /\ pn \in Int /\ u \in Int /\ v \in Int /\ MinOverlap \in Nat /\ MinorSnap \in Nat
    BY <1>1, Coordinates, Parameters
  <1>3. q + u - pn >= MinOverlap /\ pn + v - q >= MinOverlap
    BY DEF TouchesAt, Holds
  <1>4. s1 = pn - u /\ s2 = pn + v /\ s1 \in Int /\ s2 \in Int
    BY <1>1, SidesFacts
  <1>5. low = pn - u + MinOverlap /\ high = pn + v - MinOverlap
    BY <1>2 DEF HangsLow, HangsHigh, Low, High
  <1>6. Share(l, m, n, o)
    <2>1. q <= pn + v /\ pn <= q + u
      BY <1>2, <1>3
    <2> QED BY <2>1 DEF Share, Low, High
  <1>7. Sides(l, m, n, a)[1] # Sides(l, m, n, a)[2]
    <2>1. /\ Sides(l, m, n, a)[1] = l.pos[n][a] - l.size[m][a]
          /\ Sides(l, m, n, a)[2] = l.pos[n][a] + l.size[n][a]
      BY SidesFacts
    <2>2. /\ l.pos[n][a] \in Int /\ l.size[m][a] \in Int /\ l.size[n][a] \in Int
          /\ l.size[m][a] > MinOverlap + MinorSnap /\ l.size[n][a] > MinOverlap + MinorSnap
      BY Coordinates DEF Roomy, Room
    <2> QED BY <1>2, <2>1, <2>2
  <1> HIDE DEF q, pn, u, v, s1, s2, low, high
  <1>8. /\ q - s1 >= MinOverlap /\ s2 - q >= MinOverlap
        /\ low <= q /\ q <= high
    BY <1>2, <1>3, <1>4, <1>5
  <1>9. \A j \in 1..2 : /\ Sides(l, m, n, o)[j] \in Int
                        /\ \/ q - Sides(l, m, n, o)[j] >= MinOverlap
                           \/ Sides(l, m, n, o)[j] - q >= MinOverlap
    <2> HIDE DEF o
    <2> SUFFICES ASSUME NEW j \in 1..2
                 PROVE  /\ Sides(l, m, n, o)[j] \in Int
                        /\ \/ q - Sides(l, m, n, o)[j] >= MinOverlap
                           \/ Sides(l, m, n, o)[j] - q >= MinOverlap
      OBVIOUS
    <2>1. CASE j = 1
      BY <1>4, <1>8, <2>1 DEF s1
    <2>2. CASE j = 2
      BY <1>4, <1>8, <2>2 DEF s2
    <2> QED BY <2>1, <2>2
  <1> QED BY <1>1, <1>2, <1>6, <1>7, <1>8, <1>9 DEF q, low, high

\* From there the edges are those on the axis on which they touch.
LEMMA TouchEdges ==
    ASSUME NEW l \in LayoutType, Roomy(l), NEW m \in Monitors, NEW n \in Monitors,
           NEW a \in Axes, NEW i \in 1..2, TouchesAt(l, m, n, a, i), Far > 0, MinOverlap > 0
    PROVE  Edges(l, m, n, 1) = EdgesOf(l, m, n, a)
  <1> DEFINE o == Other(a)
  <1>1. /\ o \in Axes /\ Other(o) = a /\ 1 \in Nat /\ Far * 1 = Far /\ Far \in Nat
        /\ MinOverlap \in Nat
    BY AxesFacts, Parameters
  <1>2. /\ l.pos[m][a] \in Int /\ l.pos[m][o] \in Int /\ Share(l, m, n, o)
        /\ \A j \in 1..2 : /\ Sides(l, m, n, o)[j] \in Int
                           /\ \/ l.pos[m][o] - Sides(l, m, n, o)[j] >= MinOverlap
                              \/ Sides(l, m, n, o)[j] - l.pos[m][o] >= MinOverlap
    BY TouchFacts
  <1>3. Gap(l, m, n, a, 1) = 0
    <2> DEFINE s1 == Sides(l, m, n, a)[1]
               s2 == Sides(l, m, n, a)[2]
               at == Low(l, m, a)
    <2>1. s1 \in Int /\ s2 \in Int /\ at \in Int /\ (at = s1 \/ at = s2)
      BY <1>2, SidesFacts DEF Low, TouchesAt
    <2>2. Gap(l, m, n, a, 1) = Least(AbsDiff(at, s1), AbsDiff(at, s2))
      BY <1>2 DEF Gap
    <2> HIDE DEF s1, s2, at
    <2>3. AbsDiff(at, s1) >= 0 /\ AbsDiff(at, s2) >= 0 /\ AbsDiff(at, s1) \in Int
          /\ AbsDiff(at, s2) \in Int /\ (AbsDiff(at, s1) = 0 \/ AbsDiff(at, s2) = 0)
      BY <2>1 DEF AbsDiff
    <2> QED BY <2>2, <2>3 DEF Least
  <1>4. Gap(l, m, n, o, 1) \in Int /\ Gap(l, m, n, o, 1) > 0
    <2>1. CASE ~Share(l, m, n, a)
      BY <1>1, <2>1 DEF Gap
    <2>2. CASE Share(l, m, n, a)
      <3> DEFINE s1 == Sides(l, m, n, o)[1]
                 s2 == Sides(l, m, n, o)[2]
                 at == Low(l, m, o)
      <3>1. /\ s1 \in Int /\ s2 \in Int /\ at \in Int
            /\ at - s1 >= MinOverlap \/ s1 - at >= MinOverlap
            /\ at - s2 >= MinOverlap \/ s2 - at >= MinOverlap
        BY <1>2 DEF Low
      <3>2. Gap(l, m, n, o, 1) = Least(AbsDiff(at, s1), AbsDiff(at, s2))
        BY <1>1, <2>2 DEF Gap
      <3> HIDE DEF s1, s2, at
      <3>3. AbsDiff(at, s1) > 0 /\ AbsDiff(at, s2) > 0 /\ AbsDiff(at, s1) \in Int
            /\ AbsDiff(at, s2) \in Int
        BY <1>1, <3>1 DEF AbsDiff
      <3> QED BY <3>2, <3>3 DEF Least
    <2> QED BY <2>1, <2>2
  <1> DEFINE gx == Gap(l, m, n, "x", 1)
             gy == Gap(l, m, n, "y", 1)
  <1>5. Edges(l, m, n, 1) = IF gy < gx THEN EdgesOf(l, m, n, "y")
                            ELSE IF gx < Far * 1 THEN EdgesOf(l, m, n, "x") ELSE <<>>
    BY DEF Edges, EdgesOf, Edge
  <1>6. CASE a = "x"
    <2>1. gx = 0 /\ gy \in Int /\ gy > 0
      BY <1>3, <1>4, <1>6, AxesFacts DEF Other
    <2> HIDE DEF gx, gy
    <2> QED BY <1>1, <1>5, <1>6, <2>1
  <1>7. CASE a = "y"
    <2>1. gy = 0 /\ gx \in Int /\ gx > 0
      BY <1>3, <1>4, <1>7, AxesFacts DEF Other
    <2> HIDE DEF gx, gy
    <2> QED BY <1>5, <1>7, <2>1
  <1> QED BY <1>6, <1>7, AxesFacts

\* The end has what it takes to be at side j of n on axis b.
LEMMA EndParts ==
    ASSUME NEW l \in LayoutType, NEW m \in Monitors, NEW n \in Monitors,
           NEW b \in Axes, NEW j \in 1..2, NEW c, IsEnd(l, m, n, b, j, c)
    PROVE  /\ c \in CandidateType /\ c.dirs = Axes /\ c.axis = b
           /\ c.to \in Points /\ c.to[b] = Sides(l, m, n, b)[j] /\ c.to[Other(b)] \in Int
           /\ c.hang \in -1..1
           /\ c.hang > 0 => c.to[Other(b)] = HangsLow(l, m, n, Other(b))
           /\ c.hang < 0 => c.to[Other(b)] = HangsHigh(l, m, n, Other(b))
  <1> DEFINE o == Other(b)
             side == Sides(l, m, n, b)[j]
             low == HangsLow(l, m, n, o)
             high == HangsHigh(l, m, n, o)
             Q == {Starts(l, m, n, o), Finishes(l, m, n, o), Centred(l, m, n, o), low, high}
  <1>1. o \in Axes /\ side \in Int
    BY AxesFacts, SidesFacts
  <1>2. Q \subseteq Int
    <2> HIDE DEF o
    <2> QED BY <1>1, QsAreNumbers
  <1>3. \E q \in Q, h \in -1..1 :
            /\ c = End(l, m, n, b, j, q, h)
            /\ h > 0 => q = low
            /\ h < 0 => q = high
    <2>1. /\ 0 \in -1..1 /\ 1 \in -1..1 /\ -1 \in -1..1
          /\ ~(0 > 0) /\ ~(0 < 0) /\ ~(1 < 0) /\ ~(-1 > 0)
      OBVIOUS
    <2>2. \E q \in Q : c = End(l, m, n, b, j, q, 0) \/ (c = End(l, m, n, b, j, q, 1) /\ q = low)
                       \/ (c = End(l, m, n, b, j, q, -1) /\ q = high)
      BY DEF IsEnd
    <2> HIDE DEF Q, low, high
    <2> QED BY <2>1, <2>2
  <1> HIDE DEF Q, low, high
  <1>4. PICK q \in Q : \E h \in -1..1 :
            c = End(l, m, n, b, j, q, h) /\ (h > 0 => q = low) /\ (h < 0 => q = high)
    BY <1>3
  <1>5. PICK h \in -1..1 :
            c = End(l, m, n, b, j, q, h) /\ (h > 0 => q = low) /\ (h < 0 => q = high)
    BY <1>4
  <1>6. q \in Int
    BY <1>2
  <1>7. c \in CandidateType /\ c.dirs = Axes /\ c.axis = b /\ c.hang = h /\ c.to = On(b, side, q)
    BY <1>5, <1>6, EndFacts
  <1> HIDE DEF side
  <1>8. On(b, side, q) \in Points /\ On(b, side, q)[b] = side /\ On(b, side, q)[Other(b)] = q
    BY <1>1, <1>6, OnFacts
  <1> QED BY <1>5, <1>6, <1>7, <1>8 DEF low, high, side

\* The ends that m, touching another monitor on axis a, may be snapped to
Reached(l, m, a) ==
    {c \in CandidateType : /\ c.axis = a /\ c.to[a] = l.pos[m][a]
                           /\ Meets(l.pos[m][Other(a)], c.to[Other(a)])}

\* The snap before the first of them, and after it
Untaken(l, m, a, u) ==
    /\ u \in Snaps /\ u.pos = l.pos[m] /\ u.snapped = {a}
    /\ u.dist[a] = 0 /\ u.dist[Other(a)] = 0
Taken(c, a, u) ==
    /\ u \in Snaps /\ u.pos = c.to /\ u.snapped = Axes
    /\ u.dist[a] = 0 /\ u.dist[Other(a)] <= MinorSnap

\* How far an end is from m, and when it may be used
LEMMA EndDistances ==
    ASSUME NEW l \in LayoutType, Roomy(l), NEW m \in Monitors, NEW n \in Monitors,
           NEW a \in Axes, NEW i \in 1..2, TouchesAt(l, m, n, a, i), MinorSnap < MinOverlap,
           NEW b \in Axes, NEW j \in 1..2, NEW c, IsEnd(l, m, n, b, j, c)
    PROVE  LET from == l.pos[m]
           IN  /\ \A e \in Axes : from[e] \in Int /\ c.to[e] \in Int
                                  /\ AbsDiff(from[e], c.to[e]) \in Nat
               /\ b # a => AbsDiff(from[Other(a)], c.to[Other(a)]) > MinorSnap
               /\ c \in Reached(l, m, a) =>
                    Allowed(from, c, Settled) /\ AbsDiff(from[a], c.to[a]) = 0
               /\ b = a /\ c.to[a] = from[a] /\ Allowed(from, c, Settled)
                    => c \in Reached(l, m, a)
  <1> DEFINE from == l.pos[m]
             o == Other(a)
             q == from[o]
             r == c.to[o]
             low == HangsLow(l, m, n, o)
             high == HangsHigh(l, m, n, o)
  <1>1. /\ c \in CandidateType /\ c.dirs = Axes /\ c.axis = b
        /\ c.to \in Points /\ c.to[b] = Sides(l, m, n, b)[j] /\ c.hang \in -1..1
        /\ c.hang > 0 => c.to[Other(b)] = HangsLow(l, m, n, Other(b))
        /\ c.hang < 0 => c.to[Other(b)] = HangsHigh(l, m, n, Other(b))
    BY EndParts
  <1>2. /\ o \in Axes /\ q \in Int /\ from[a] \in Int
        /\ \A k \in 1..2 : /\ Sides(l, m, n, o)[k] \in Int
                           /\ \/ q - Sides(l, m, n, o)[k] >= MinOverlap
                              \/ Sides(l, m, n, o)[k] - q >= MinOverlap
        /\ low <= q /\ q <= high
    BY TouchFacts
  <1>3. \A e \in Axes : from[e] \in Int /\ c.to[e] \in Int
    BY <1>1, Coordinates, PointFacts
  <1>4. \A x, y \in Int : AbsDiff(x, y) \in Nat /\ (x = y => AbsDiff(x, y) = 0)
    BY DEF AbsDiff
  <1>5. \A e \in Axes : AbsDiff(from[e], c.to[e]) \in Nat
    BY <1>3, <1>4
  <1>6. ASSUME b # a PROVE AbsDiff(q, r) > MinorSnap
    <2>1. b = o
      BY <1>6, AxesFacts
    <2>2. r = Sides(l, m, n, o)[j] /\ r \in Int
      BY <1>1, <1>3, <2>1
    <2>3. q - r >= MinOverlap \/ r - q >= MinOverlap
      BY <1>2, <2>2
    <2> HIDE DEF q, r
    <2> QED BY <1>2, <2>2, <2>3, Parameters DEF AbsDiff
  <1>7. low \in Int /\ high \in Int /\ r \in Int
    <2>1. r \in Int
      BY <1>2, <1>3
    <2> HIDE DEF o
    <2> QED BY <1>2, <2>1, QsAreNumbers DEF o
  <1>8. Allowed(from, c, Settled) <=>
            LET e == Other(b)
            IN  AbsDiff(from[e], c.to[e]) > MinorSnap =>
                    /\ c.to[e] > from[e] => c.hang > 0
                    /\ c.to[e] < from[e] => c.hang < 0
    <2>1. Other(b) \in Axes
      BY AxesFacts
    <2>2. AbsDiff(from[Other(b)], c.to[Other(b)]) \in Int
      BY <1>5, <2>1
    <2> HIDE DEF from
    <2> QED BY <1>1, <2>2, SettledFacts DEF Allowed
  <1>9. c \in Reached(l, m, a) <=> b = a /\ c.to[a] = from[a] /\ AbsDiff(q, r) <= MinorSnap
    BY <1>1 DEF Reached, Meets
  <1>10. AbsDiff(q, r) \in Nat /\ MinorSnap \in Nat
    BY <1>2, <1>4, <1>7, Parameters
  <1>11. c \in Reached(l, m, a) => Allowed(from, c, Settled) /\ AbsDiff(from[a], c.to[a]) = 0
    <2> SUFFICES ASSUME c \in Reached(l, m, a)
                 PROVE  Allowed(from, c, Settled) /\ AbsDiff(from[a], c.to[a]) = 0
      OBVIOUS
    <2>1. b = a /\ c.to[a] = from[a] /\ AbsDiff(q, r) <= MinorSnap
      BY <1>9
    <2>2. ~(AbsDiff(q, r) > MinorSnap)
      BY <1>10, <2>1
    <2>3. Allowed(from, c, Settled)
      BY <1>8, <2>1, <2>2
    <2>4. AbsDiff(from[a], c.to[a]) = 0
      BY <1>2, <1>4, <2>1
    <2> QED BY <2>3, <2>4
  <1>12. ASSUME b = a, c.to[a] = from[a], Allowed(from, c, Settled)
         PROVE  c \in Reached(l, m, a)
    <2>1. /\ AbsDiff(q, r) > MinorSnap => (r > q => c.hang > 0) /\ (r < q => c.hang < 0)
          /\ c.hang > 0 => r = low
          /\ c.hang < 0 => r = high
      BY <1>1, <1>8, <1>12
    <2>2. AbsDiff(q, r) <= MinorSnap
      <3>1. r = q => AbsDiff(q, r) = 0
        BY <1>2, <1>4, <1>7
      <3> HIDE DEF q, r, low, high
      <3> QED BY <1>2, <1>7, <1>10, <2>1, <3>1
    <2> QED BY <1>9, <1>12, <2>2
  <1> QED BY <1>3, <1>5, <1>6, <1>11, <1>12

\* The first end that is reached is taken, and the other ones change nothing.
LEMMA UntakenStep ==
    ASSUME NEW l \in LayoutType, Roomy(l), NEW m \in Monitors, NEW n \in Monitors,
           NEW a \in Axes, NEW i \in 1..2, TouchesAt(l, m, n, a, i), MinorSnap < MinOverlap,
           NEW b \in Axes, NEW j \in 1..2, NEW c, IsEnd(l, m, n, b, j, c),
           NEW u, Untaken(l, m, a, u)
    PROVE  LET t == MaybeUpdateSnap(u, l.pos[m], c, Settled)
           IN  IF c \in Reached(l, m, a) THEN Taken(c, a, t) ELSE t = u
  <1> DEFINE from == l.pos[m]
             t == MaybeUpdateSnap(u, from, c, Settled)
             o == Other(a)
  <1>1. /\ c \in CandidateType /\ c.dirs = Axes /\ c.axis = b /\ c.to \in Points
    BY EndParts
  <1>2. /\ \A e \in Axes : from[e] \in Int /\ c.to[e] \in Int /\ AbsDiff(from[e], c.to[e]) \in Nat
        /\ b # a => AbsDiff(from[o], c.to[o]) > MinorSnap
        /\ c \in Reached(l, m, a) => Allowed(from, c, Settled) /\ AbsDiff(from[a], c.to[a]) = 0
        /\ b = a /\ c.to[a] = from[a] /\ Allowed(from, c, Settled) => c \in Reached(l, m, a)
    BY EndDistances
  <1>3. u \in Snaps /\ u.pos = from /\ u.snapped = {a} /\ u.dist[a] = 0 /\ u.dist[o] = 0
    BY DEF Untaken
  <1>4. from \in Points /\ o \in Axes /\ o # a /\ Axes = {a, o} /\ Axes = {"x", "y"}
    BY AxesFacts DEF LayoutType
  <1>5. /\ Allowed(from, c, Settled) /\ Better(u, from, c) => Takes(t, u, from, c)
        /\ ~(Allowed(from, c, Settled) /\ Better(u, from, c)) => t = u
    BY <1>1, <1>3, <1>4, UpdateFacts
  <1> HIDE DEF t, from, o
  <1> DEFINE d == [e \in Axes |-> AbsDiff(from[e], c.to[e])]
  <1>6. /\ d[a] = AbsDiff(from[a], c.to[a]) /\ d[o] = AbsDiff(from[o], c.to[o])
        /\ d[a] \in Nat /\ d[o] \in Nat /\ MinorSnap \in Nat
    BY <1>2, <1>4, Parameters
  <1>7. Better(u, from, c) <=>
            \/ u.snapped = {}
            \/ d[c.axis] < u.dist[c.axis]
            \/ \E e \in Axes : u.snapped = {e} /\ Most(d.x, d.y) <= u.dist[e]
            \/ u.snapped = {c.axis} /\ c.to[c.axis] = u.pos[c.axis]
    BY <1>1 DEF Better
  <1>8. Most(d.x, d.y) <= 0 => d[a] <= 0 /\ d[o] <= 0
    <2>1. d["x"] \in Nat /\ d["y"] \in Nat /\ (a = "x" \/ a = "y") /\ (o = "x" \/ o = "y")
      BY <1>4, <1>6
    <2> HIDE DEF d
    <2>2. Most(d.x, d.y) <= 0 => d["x"] <= 0 /\ d["y"] <= 0
      BY <2>1 DEF Most
    <2> QED BY <2>1, <2>2
  <1> HIDE DEF d
  <1>9. CASE c \in Reached(l, m, a)
    <2>1. c.axis = a /\ c.to[a] = from[a] /\ Meets(from[o], c.to[o])
      BY <1>9 DEF Reached, from, o
    <2>2. Better(u, from, c)
      BY <1>3, <1>7, <2>1
    <2>3. Takes(t, u, from, c)
      BY <1>2, <1>5, <1>9, <2>2
    <2>4. /\ t \in Snaps /\ t.snapped = Axes
          /\ t.pos[a] = c.to[a] /\ t.pos[o] = c.to[o]
          /\ t.dist[a] = AbsDiff(from[a], c.to[a]) /\ t.dist[o] = AbsDiff(from[o], c.to[o])
      <3>1. \A e \in Axes : e \in c.dirs
        BY <1>1
      <3>2. {a} \cup Axes = Axes
        BY <1>4
      <3> QED BY <1>1, <1>3, <1>4, <2>3, <3>1, <3>2 DEF Takes
    <2>5. t.pos = c.to
      <3>1. t.pos \in [Axes -> Int] /\ c.to \in [Axes -> Int]
        BY <1>1, <2>4 DEF Snaps, Points
      <3>2. \A e \in Axes : t.pos[e] = c.to[e]
        BY <1>4, <2>4
      <3> QED BY <3>1, <3>2
    <2>6. t.dist[a] = 0 /\ t.dist[o] <= MinorSnap
      BY <1>2, <1>9, <2>1, <2>4 DEF Meets
    <2> QED BY <1>9, <2>4, <2>5, <2>6 DEF Taken, t, from, o
  <1>10. CASE c \notin Reached(l, m, a)
    <2>1. ASSUME Allowed(from, c, Settled), Better(u, from, c) PROVE FALSE
      <3>1. ~(b = a /\ c.to[a] = from[a])
        BY <1>2, <1>10, <2>1
      <3>2. ~(d[c.axis] < u.dist[c.axis])
        <4>1. b = a \/ b = o
          BY <1>4
        <4> QED BY <1>1, <1>3, <1>6, <4>1
      <3>3. ~ \E e \in Axes : u.snapped = {e} /\ Most(d.x, d.y) <= u.dist[e]
        <4> SUFFICES ASSUME NEW e \in Axes, u.snapped = {e}, Most(d.x, d.y) <= u.dist[e]
                     PROVE  FALSE
          OBVIOUS
        <4>1. e = a
          BY <1>3
        <4>2. d[a] = 0 /\ d[o] = 0
          BY <1>3, <1>6, <1>8, <4>1
        <4>3. b = a
          BY <1>2, <1>6, <4>2
        <4>4. c.to[a] = from[a]
          BY <1>2, <1>4, <1>6, <4>2 DEF AbsDiff
        <4> QED BY <3>1, <4>3, <4>4
      <3>4. ~(u.snapped = {c.axis} /\ c.to[c.axis] = u.pos[c.axis])
        BY <1>1, <1>3, <3>1
      <3> QED BY <1>3, <1>7, <2>1, <3>2, <3>3, <3>4
    <2> QED BY <1>5, <1>10, <2>1 DEF t, from
  <1> QED BY <1>9, <1>10

LEMMA TakenStep ==
    ASSUME NEW l \in LayoutType, Roomy(l), NEW m \in Monitors, NEW n \in Monitors,
           NEW a \in Axes, NEW i \in 1..2, TouchesAt(l, m, n, a, i), MinorSnap < MinOverlap,
           NEW b \in Axes, NEW j \in 1..2, NEW c, IsEnd(l, m, n, b, j, c),
           NEW x, NEW u, Taken(x, a, u)
    PROVE  MaybeUpdateSnap(u, l.pos[m], c, Settled) = u
  <1> DEFINE from == l.pos[m]
             t == MaybeUpdateSnap(u, from, c, Settled)
             o == Other(a)
  <1>1. /\ c \in CandidateType /\ c.dirs = Axes /\ c.axis = b /\ c.to \in Points
    BY EndParts
  <1>2. /\ \A e \in Axes : from[e] \in Int /\ c.to[e] \in Int /\ AbsDiff(from[e], c.to[e]) \in Nat
        /\ b # a => AbsDiff(from[o], c.to[o]) > MinorSnap
    BY EndDistances
  <1>3. u \in Snaps /\ u.snapped = Axes /\ u.dist[a] = 0 /\ u.dist[o] <= MinorSnap
        /\ u.dist[o] \in Int
    BY AxesFacts DEF Taken, Snaps, Points
  <1>4. from \in Points /\ o \in Axes /\ o # a /\ Axes = {a, o} /\ Axes = {"x", "y"}
    BY AxesFacts DEF LayoutType
  <1>5. ~(Allowed(from, c, Settled) /\ Better(u, from, c)) => t = u
    BY <1>1, <1>3, <1>4, UpdateFacts
  <1> HIDE DEF t, from, o
  <1> DEFINE d == [e \in Axes |-> AbsDiff(from[e], c.to[e])]
  <1>6. /\ d[a] = AbsDiff(from[a], c.to[a]) /\ d[o] = AbsDiff(from[o], c.to[o])
        /\ d[a] \in Nat /\ d[o] \in Nat /\ MinorSnap \in Nat
    BY <1>2, <1>4, Parameters
  <1>7. Better(u, from, c) <=>
            \/ u.snapped = {}
            \/ d[c.axis] < u.dist[c.axis]
            \/ \E e \in Axes : u.snapped = {e} /\ Most(d.x, d.y) <= u.dist[e]
            \/ u.snapped = {c.axis} /\ c.to[c.axis] = u.pos[c.axis]
    BY <1>1 DEF Better
  <1> HIDE DEF d
  <1>8. \A e \in Axes : u.snapped # {e}
    BY <1>3, AxesFacts
  <1>9. u.snapped # {}
    BY <1>3, AxesFacts
  <1>10. ~(d[c.axis] < u.dist[c.axis])
    <2>1. CASE b = a
      BY <1>1, <1>3, <1>6, <2>1
    <2>2. CASE b = o
      BY <1>1, <1>2, <1>3, <1>4, <1>6, <2>2
    <2> QED BY <1>4, <2>1, <2>2
  <1>11. ~Better(u, from, c)
    BY <1>1, <1>7, <1>8, <1>9, <1>10
  <1> QED BY <1>5, <1>11 DEF t, from

\* The edges leave m, which touches n, where it is.
LEMMA EdgesLeave ==
    ASSUME NEW l \in LayoutType, Roomy(l), NEW m \in Monitors, NEW n \in Monitors,
           NEW a \in Axes, NEW i \in 1..2, TouchesAt(l, m, n, a, i),
           Edges(l, m, n, 1) = EdgesOf(l, m, n, a)
    PROVE  Untaken(l, m, a, Trying(Unsnapped(l.pos[m]), l, m, n, Settled)[2])
  <1> DEFINE s  == Unsnapped(l.pos[m])
             es == Edges(l, m, n, 1)
             ds == Ends(l, m, n, Settled)
             cs == Candidates(l, m, n, Settled)
             f  == Trying(s, l, m, n, Settled)
             p  == l.pos[m]
             e1 == Edge(l, m, n, a, 1)
             e2 == Edge(l, m, n, a, 2)
             o  == Other(a)
  <1>0. /\ p \in Points /\ s \in Snaps /\ s.pos = p /\ s.snapped = {}
        /\ s.dist[a] = 0 /\ s.dist[o] = 0
    <2>1. p \in Points
      BY DEF LayoutType
    <2>2. s \in Snaps /\ s.pos = p /\ s.snapped = {}
      BY <2>1, UnsnappedFacts
    <2>3. s.dist = Place(0, 0) /\ (a = "x" \/ a = "y") /\ (o = "x" \/ o = "y")
      BY AxesFacts DEF Unsnapped, Other
    <2>4. Place(0, 0)["x"] = 0 /\ Place(0, 0)["y"] = 0
      BY DEF Place
    <2> HIDE DEF s, p, o
    <2> QED BY <2>1, <2>2, <2>3, <2>4
  <1>1. /\ es \in Seq(CandidateType) /\ ds \in Seq(CandidateType) /\ cs = es \o ds
        /\ cs \in Seq(CandidateType)
    BY CandidatesFacts, SettledFacts, ZenonT(40)
  <1>2. Len(es) = 2 /\ es[1] = e1 /\ es[2] = e2
    BY EdgesOfFacts
  <1>3. Len(cs) \in Nat /\ 2 <= Len(cs) /\ cs[1] = e1 /\ cs[2] = e2
    <2> HIDE DEF es, ds, cs, e1, e2
    <2>1. Len(cs) = Len(es) + Len(ds) /\ (\A k \in 1..Len(es) : cs[k] = es[k]) /\ Len(ds) \in Nat
      BY <1>1, ConcatElements
    <2> QED BY <1>1, <1>2, <2>1
  <1>4. /\ f[0] = s
        /\ \A k \in 0..Len(cs) : f[k] \in Snaps
        /\ \A k \in 1..Len(cs) : f[k] = MaybeUpdateSnap(f[k - 1], p, cs[k], Settled)
    <2> HIDE DEF s
    <2>1. Settled \in Reaches
      BY SettledFacts
    <2> QED BY <1>0, <2>1, TryingSteps
  <1> HIDE DEF f, cs
  <1>5. /\ f[1] = MaybeUpdateSnap(s, p, e1, Settled) /\ f[2] = MaybeUpdateSnap(f[1], p, e2, Settled)
        /\ f[1] \in Snaps /\ f[2] \in Snaps
    <2>1. 1 \in 1..Len(cs) /\ 2 \in 1..Len(cs) /\ 1 \in 0..Len(cs) /\ 2 \in 0..Len(cs)
          /\ 1 - 1 = 0 /\ 2 - 1 = 1
      BY <1>3
    <2> HIDE DEF p, e1, e2, s
    <2> QED BY <1>3, <1>4, <2>1
  <1>6. /\ e1 \in CandidateType /\ e1.dirs = {a} /\ e1.to[a] = Sides(l, m, n, a)[1]
        /\ e2 \in CandidateType /\ e2.dirs = {a} /\ e2.to[a] = Sides(l, m, n, a)[2]
    BY EdgeFacts
  <1>7. Allowed(p, e1, Settled) /\ Allowed(p, e2, Settled)
    <2>1. 1 \in 1..2 /\ 2 \in 1..2
      OBVIOUS
    <2> QED BY <2>1, SettledFacts, EdgeIsAllowed
  <1>8. Axes # {a} /\ o \in Axes /\ o # a
    BY AxesFacts
  <1>9. /\ p[a] \in Int /\ e1.to[a] \in Int /\ e2.to[a] \in Int /\ e1.to[a] # e2.to[a]
        /\ p[a] = e1.to[a] \/ p[a] = e2.to[a]
    <2>1. /\ Sides(l, m, n, a)[1] # Sides(l, m, n, a)[2]
          /\ Sides(l, m, n, a)[1] \in Int /\ Sides(l, m, n, a)[2] \in Int
      BY TouchFacts, SidesFacts
    <2>2. p[a] \in Int /\ (p[a] = Sides(l, m, n, a)[1] \/ p[a] = Sides(l, m, n, a)[2])
      BY Coordinates DEF TouchesAt
    <2> HIDE DEF p, e1, e2
    <2> QED BY <1>6, <2>1, <2>2
  <1> HIDE DEF e1, e2, p, s, o
  <1>10. Better(s, p, e1)
    BY <1>0, <1>6, <1>8 DEF Better
  <1>11. Takes(f[1], s, p, e1)
    BY <1>0, <1>5, <1>6, <1>7, <1>10, UpdateFacts
  <1>12. /\ f[1].snapped = {a} /\ f[1].pos[a] = e1.to[a] /\ f[1].pos[o] = p[o]
         /\ f[1].dist[a] = AbsDiff(p[a], e1.to[a]) /\ f[1].dist[o] = 0
    BY <1>0, <1>6, <1>8, <1>11 DEF Takes
  <1>13. Better(f[1], p, e2) <=> AbsDiff(p[a], e2.to[a]) < f[1].dist[a]
    <2> DEFINE d == [e \in Axes |-> AbsDiff(p[e], e2.to[e])]
    <2>1. d[a] = AbsDiff(p[a], e2.to[a])
      OBVIOUS
    <2>2. Better(f[1], p, e2) <=>
            \E e \in e2.dirs : d[e] < f[1].dist[e] \/ e \notin f[1].snapped
      BY <1>6, <1>8 DEF Better
    <2> HIDE DEF d
    <2> QED BY <1>6, <1>12, <2>1, <2>2
  <1>14. /\ f[2].snapped = {a} /\ f[2].pos[a] = p[a] /\ f[2].pos[o] = p[o]
         /\ f[2].dist[a] = 0 /\ f[2].dist[o] = 0
    <2>1. CASE p[a] = e1.to[a]
      <3>1. f[1].dist[a] = 0 /\ AbsDiff(p[a], e2.to[a]) >= 0 /\ AbsDiff(p[a], e2.to[a]) \in Int
        BY <1>9, <1>12, <2>1 DEF AbsDiff
      <3>2. ~Better(f[1], p, e2)
        BY <1>13, <3>1
      <3>3. f[2] = f[1]
        BY <1>0, <1>5, <1>6, <3>2, UpdateFacts
      <3> QED BY <1>12, <2>1, <3>1, <3>3
    <2>2. CASE p[a] = e2.to[a]
      <3>1. AbsDiff(p[a], e2.to[a]) = 0 /\ AbsDiff(p[a], e1.to[a]) > 0
        BY <1>9, <2>2 DEF AbsDiff
      <3>2. Better(f[1], p, e2)
        BY <1>12, <1>13, <3>1
      <3>3. Takes(f[2], f[1], p, e2)
        BY <1>0, <1>5, <1>6, <1>7, <3>2, UpdateFacts
      <3> QED BY <1>6, <1>8, <1>12, <2>2, <3>1, <3>3 DEF Takes
    <2> QED BY <1>9, <2>1, <2>2
  <1>15. f[2].pos = p
    <2>1. f[2].pos \in [Axes -> Int] /\ p \in [Axes -> Int]
      BY <1>0, <1>5 DEF Snaps, Points
    <2>2. \A e \in Axes : f[2].pos[e] = p[e]
      BY <1>14, AxesFacts DEF o
    <2> QED BY <2>1, <2>2
  <1> QED BY <1>5, <1>14, <1>15 DEF Untaken, f, s, p, o

\* So m is put at the first end that is reached, or left where it is.
LEMMA FirstIsTaken ==
    ASSUME NEW l \in LayoutType, Roomy(l), NEW m \in Monitors, NEW n \in Monitors,
           NEW a \in Axes, NEW i \in 1..2, TouchesAt(l, m, n, a, i),
           Far > 0, MinorSnap < MinOverlap
    PROVE  LET u  == Near(Unsnapped(l.pos[m]), l, m, n, Settled)
               ds == Ends(l, m, n, Settled)
               R  == Reached(l, m, a)
           IN  \/ NoneOf(ds, R) /\ u.pos = l.pos[m]
               \/ \E x : FirstOf(ds, R, x) /\ u.pos = x.to
  <1> DEFINE s  == Unsnapped(l.pos[m])
             p  == l.pos[m]
             es == Edges(l, m, n, 1)
             ds == Ends(l, m, n, Settled)
             cs == Candidates(l, m, n, Settled)
             f  == Trying(s, l, m, n, Settled)
             N  == Len(cs)
             D  == Len(ds)
             R  == Reached(l, m, a)
  <1>0. MinOverlap > 0
    BY Parameters
  <1>1. /\ es \in Seq(CandidateType) /\ ds \in Seq(CandidateType) /\ cs = es \o ds
    BY CandidatesFacts, SettledFacts, ZenonT(40)
  <1>2. es = EdgesOf(l, m, n, a)
    BY <1>0, TouchEdges
  <1>3. Len(es) = 2
    BY <1>2, EdgesOfFacts
  <1>4. Untaken(l, m, a, f[2])
    BY <1>2, EdgesLeave
  <1>5. \A k \in 1..N : f[k] = MaybeUpdateSnap(f[k - 1], p, cs[k], Settled)
    <2>1. s \in Snaps /\ Settled \in Reaches
      BY UnsnappedFacts, SettledFacts DEF LayoutType
    <2> HIDE DEF s
    <2> QED BY <2>1, TryingSteps
  <1>6. Near(s, l, m, n, Settled) = f[N]
    BY DEF Near
  <1>7. \A c : In(c, ds) => \E b \in Axes, j \in 1..2 : IsEnd(l, m, n, b, j, c)
    BY SettledFacts, EndsFacts
  <1> HIDE DEF f, cs, ds, es, s
  <1>8. /\ D \in Nat /\ N \in Nat /\ N = 2 + D
        /\ \A k \in 1..D : cs[2 + k] = ds[k]
    <2>1. Len(cs) = Len(es) + Len(ds) /\ \A k \in 1..Len(ds) : cs[Len(es) + k] = ds[k]
      BY <1>1, ConcatElements
    <2>2. Len(ds) \in Nat
      BY <1>1
    <2> QED BY <1>3, <2>1, <2>2
  <1> DEFINE g == [k \in 0..D |-> f[2 + k]]
  <1>9. g[0] = f[2] /\ g[D] = f[N]
    <2>1. 0 \in 0..D /\ D \in 0..D /\ 2 + 0 = 2
      BY <1>8
    <2> HIDE DEF D, N
    <2> QED BY <1>8, <2>1
  <1>10. \A k \in 1..D : g[k] = MaybeUpdateSnap(g[k - 1], p, ds[k], Settled)
    <2> SUFFICES ASSUME NEW k \in 1..D
                 PROVE  g[k] = MaybeUpdateSnap(g[k - 1], p, ds[k], Settled)
      OBVIOUS
    <2>1. k \in 0..D /\ k - 1 \in 0..D /\ 2 + k \in 1..N /\ (2 + k) - 1 = 2 + (k - 1)
      BY <1>8
    <2>2. g[k] = f[2 + k] /\ g[k - 1] = f[2 + (k - 1)]
      BY <2>1
    <2> HIDE DEF g, D, N, p
    <2>3. f[2 + k] = MaybeUpdateSnap(f[(2 + k) - 1], p, cs[2 + k], Settled)
      BY <1>5, <2>1
    <2> QED BY <1>8, <2>1, <2>2, <2>3
  <1> HIDE DEF g, N
  <1>11. ASSUME NEW k \in 1..D PROVE In(ds[k], ds)
    BY DEF In
  <1>12. ASSUME NEW k \in 1..D, Untaken(l, m, a, g[k - 1])
         PROVE  IF ds[k] \in R THEN Taken(ds[k], a, g[k]) ELSE g[k] = g[k - 1]
    <2>1. PICK b \in Axes, j \in 1..2 : IsEnd(l, m, n, b, j, ds[k])
      BY <1>7, <1>11
    <2>2. LET t == MaybeUpdateSnap(g[k - 1], l.pos[m], ds[k], Settled)
          IN  IF ds[k] \in Reached(l, m, a) THEN Taken(ds[k], a, t) ELSE t = g[k - 1]
      BY <1>12, <2>1, UntakenStep
    <2> QED BY <1>10, <2>2
  <1>13. ASSUME NEW k \in 1..D, NEW x, Taken(x, a, g[k - 1])
         PROVE  g[k] = g[k - 1]
    <2>1. PICK b \in Axes, j \in 1..2 : IsEnd(l, m, n, b, j, ds[k])
      BY <1>7, <1>11
    <2>2. MaybeUpdateSnap(g[k - 1], l.pos[m], ds[k], Settled) = g[k - 1]
      BY <1>13, <2>1, TakenStep
    <2> QED BY <1>10, <2>2
  <1> HIDE DEF R
  <1>14. CASE NoneOf(ds, R)
    <2> DEFINE T == {f[2]}
    <2>1. g[0] \in T
      BY <1>9
    <2>2. \A k \in 1..D : g[k - 1] \in T => g[k] \in T
      BY <1>4, <1>12, <1>14 DEF NoneOf, D
    <2> HIDE DEF T
    <2>3. g[D] \in T
      BY <1>8, <2>1, <2>2, EveryMember
    <2>4. f[N].pos = l.pos[m]
      BY <1>4, <1>9, <2>3 DEF T, Untaken
    <2> QED BY <1>6, <1>14, <2>4 DEF s, ds, R
  <1>15. ASSUME NEW x, FirstOf(ds, R, x)
         PROVE  f[N].pos = x.to
    <2>1. PICK j \in 1..D : ds[j] = x /\ x \in R /\ \A k \in 1..j - 1 : ds[k] \notin R
      BY <1>15 DEF FirstOf, D
    <2>2. j \in Nat /\ j - 1 \in Nat /\ j \in 0..D /\ \A k \in 1..j - 1 : k \in 1..D
      BY <1>8, <2>1
    <2> DEFINE T == {f[2]}
               U == {g[j]}
               M == j - 1
    <2>3. g[M] \in T
      <3>1. g[0] \in T
        BY <1>9
      <3>2. \A k \in 1..M : g[k - 1] \in T => g[k] \in T
        BY <1>4, <1>12, <2>1, <2>2
      <3>3. M \in Nat
        BY <2>2
      <3> HIDE DEF T, M
      <3> QED BY <3>1, <3>2, <3>3, EveryMember
    <2>4. Taken(x, a, g[j])
      BY <1>4, <1>12, <2>1, <2>3
    <2>5. g[D] \in U
      <3>1. g[j] \in U
        OBVIOUS
      <3>2. \A k \in j + 1..D : k \in 1..D
        BY <1>8, <2>2
      <3>3. \A k \in j + 1..D : g[k - 1] \in U => g[k] \in U
        BY <1>13, <2>4, <3>2
      <3> HIDE DEF U
      <3> QED BY <1>8, <2>2, <3>1, <3>3, MembersFrom
    <2> QED BY <1>9, <2>4, <2>5 DEF Taken
  <1>16. NoneOf(ds, R) \/ \E x : FirstOf(ds, R, x)
    BY <1>1, FirstExists
  <1> QED BY <1>6, <1>14, <1>15, <1>16 DEF s, ds, R

\* How far m starts from where n starts, along the edge
Offset(l, m, n, a) == l.pos[m][Other(a)] - l.pos[n][Other(a)]
Extent(l, m, a) == l.size[m][Other(a)]

LEMMA MeetsShifted ==
    ASSUME NEW q \in Int, NEW at \in Int, NEW t \in Int
    PROVE  Meets(q, at + t) <=> Meets(q - at, t)
  <1>1. q - at \in Int /\ at + t \in Int /\ MinorSnap \in Int
    BY Parameters
  <1>2. q - (at + t) = (q - at) - t /\ (at + t) - q = t - (q - at)
    OBVIOUS
  <1> QED BY <1>1, <1>2, MeetsFacts

\* The targets are the candidates along the edge.
LEMMA EndsAreTargets ==
    ASSUME NEW l \in LayoutType, NEW m \in Monitors, NEW n \in Monitors, NEW a \in Axes
    PROVE  LET o  == Other(a)
               u  == Extent(l, m, a)
               v  == Extent(l, n, a)
               at == l.pos[n][o]
           IN  /\ o \in Axes /\ u \in Int /\ v \in Int /\ at \in Int
               /\ Starts(l, m, n, o) = at + 0
               /\ Finishes(l, m, n, o) = at + AtFinishes(u, v)
               /\ Centred(l, m, n, o) = at + AtCentred(u, v)
               /\ HangsLow(l, m, n, o) = at + AtHangsLow(u)
               /\ HangsHigh(l, m, n, o) = at + AtHangsHigh(v)
  <1> DEFINE o  == Other(a)
             u  == l.size[m][o]
             v  == l.size[n][o]
             at == l.pos[n][o]
             hu == u \div 2
             hv == v \div 2
  <1>1. o \in Axes
    BY AxesFacts
  <1>2. u \in Int /\ v \in Int /\ at \in Int /\ MinOverlap \in Int
    BY <1>1, Coordinates, Parameters
  <1>3. hu \in Int /\ hv \in Int
    BY <1>2
  <1>4a. /\ Low(l, n, o) = at /\ High(l, n, o) = at + v
         /\ l.size[m][o] = u /\ l.size[n][o] = v
    BY DEF Low, High
  <1>4b. /\ l.size[n][o] \div 2 = hv /\ l.size[m][o] \div 2 = hu
    BY <1>4a
  <1>5. /\ AtFinishes(u, v) = v - u /\ AtCentred(u, v) = hv - hu
        /\ AtHangsLow(u) = MinOverlap - u /\ AtHangsHigh(v) = v - MinOverlap
    BY DEF AtFinishes, AtCentred, AtHangsLow, AtHangsHigh
  <1>6. u = Extent(l, m, a) /\ v = Extent(l, n, a)
    BY DEF Extent
  <1> HIDE DEF hu, hv, u, v, at, o
  <1>4. /\ Starts(l, m, n, o) = at /\ Finishes(l, m, n, o) = (at + v) - u
        /\ Centred(l, m, n, o) = at + (hv - hu)
        /\ HangsLow(l, m, n, o) = (at - u) + MinOverlap
        /\ HangsHigh(l, m, n, o) = (at + v) - MinOverlap
    <2>1. /\ Starts(l, m, n, o) = at /\ Finishes(l, m, n, o) = (at + v) - u
          /\ HangsLow(l, m, n, o) = (at - u) + MinOverlap
          /\ HangsHigh(l, m, n, o) = (at + v) - MinOverlap
      BY <1>2, <1>4a DEF Starts, Finishes, HangsLow, HangsHigh
    <2>2. Centred(l, m, n, o) = Low(l, n, o) + (l.size[n][o] \div 2 - l.size[m][o] \div 2)
      BY DEF Centred
    <2>3. Centred(l, m, n, o) = at + (hv - hu)
      BY <1>4a, <1>4b, <2>2
    <2> QED BY <2>1, <2>3
  <1>7. /\ at = at + 0
        /\ (at + v) - u = at + (v - u)
        /\ (at - u) + MinOverlap = at + (MinOverlap - u)
        /\ (at + v) - MinOverlap = at + (v - MinOverlap)
    BY <1>2, <1>3
  <1>8. /\ Starts(l, m, n, o) = at + 0
        /\ Finishes(l, m, n, o) = at + AtFinishes(u, v)
        /\ Centred(l, m, n, o) = at + AtCentred(u, v)
        /\ HangsLow(l, m, n, o) = at + AtHangsLow(u)
        /\ HangsHigh(l, m, n, o) = at + AtHangsHigh(v)
    BY <1>4, <1>5, <1>7
  <1> QED BY <1>1, <1>2, <1>6, <1>8 DEF o, at

\* An end of the side that m touches is reached when m is near to it.
LEMMA EndIsReached ==
    ASSUME NEW l \in LayoutType, NEW m \in Monitors, NEW n \in Monitors,
           NEW a \in Axes, NEW i \in 1..2, l.pos[m][a] = Sides(l, m, n, a)[i],
           NEW t \in Int, NEW hang \in -1..1
    PROVE  LET c == End(l, m, n, a, i, t, hang)
           IN  /\ c.to \in Points /\ c.to[a] = l.pos[m][a] /\ c.to[Other(a)] = t
               /\ c \in Reached(l, m, a) <=> Meets(l.pos[m][Other(a)], t)
  <1> DEFINE c == End(l, m, n, a, i, t, hang)
             side == Sides(l, m, n, a)[i]
  <1>1. c \in CandidateType /\ c.axis = a /\ c.to = On(a, side, t)
    BY EndFacts
  <1>2. side \in Int
    BY SidesFacts
  <1> HIDE DEF c
  <1>3. c.to \in Points /\ c.to[a] = side /\ c.to[Other(a)] = t
    <2> HIDE DEF side
    <2>1. On(a, side, t) \in Points /\ On(a, side, t)[a] = side /\ On(a, side, t)[Other(a)] = t
      BY <1>2, OnFacts
    <2> QED BY <1>1, <2>1
  <1> QED BY <1>1, <1>3 DEF Reached, c

\* Where m, which touches n, goes
LEMMA SnapBeside ==
    ASSUME NEW l \in LayoutType, Roomy(l), NEW m \in Monitors, NEW n \in Monitors,
           NEW a \in Axes, NEW i \in 1..2, TouchesAt(l, m, n, a, i),
           Far > 0, MinorSnap < MinOverlap
    PROVE  LET p == Near(Unsnapped(l.pos[m]), l, m, n, Settled).pos
           IN  /\ p[a] = l.pos[m][a]
               /\ Goes(a, Extent(l, m, a), Extent(l, n, a), Offset(l, m, n, a),
                       p[Other(a)] - l.pos[n][Other(a)])
  <1> DEFINE p  == Near(Unsnapped(l.pos[m]), l, m, n, Settled).pos
             ds == Ends(l, m, n, Settled)
             R  == Reached(l, m, a)
             o  == Other(a)
             q  == l.pos[m][o]
             at == l.pos[n][o]
             u  == Extent(l, m, a)
             v  == Extent(l, n, a)
             r  == q - at
             E(t, h) == End(l, m, n, a, i, at + t, h)
             f  == AtFinishes(u, v)
             c  == AtCentred(u, v)
             low  == AtHangsLow(u)
             high == AtHangsHigh(v)
  <1>1. /\ o \in Axes /\ u \in Int /\ v \in Int /\ at \in Int /\ q \in Int
        /\ Starts(l, m, n, o) = at + 0
        /\ Finishes(l, m, n, o) = at + f
        /\ Centred(l, m, n, o) = at + c
        /\ HangsLow(l, m, n, o) = at + low
        /\ HangsHigh(l, m, n, o) = at + high
    <2>1. q \in Int
      BY AxesFacts, Coordinates
    <2> QED BY <2>1, EndsAreTargets
  <1>2. 0 \in Int /\ f \in Int /\ c \in Int /\ low \in Int /\ high \in Int
        /\ 0 \in -1..1 /\ 1 \in -1..1 /\ -1 \in -1..1
    BY <1>1, TargetFacts
  <1>3. ASSUME NEW t \in Int, NEW h \in -1..1
        PROVE  /\ E(t, h) \in R <=> Meets(r, t)
               /\ E(t, h).to[a] = l.pos[m][a] /\ E(t, h).to[o] - at = t
    <2>1. l.pos[m][a] = Sides(l, m, n, a)[i] /\ at + t \in Int
      BY <1>1 DEF TouchesAt
    <2>2. LET x == End(l, m, n, a, i, at + t, h)
          IN  /\ x.to[a] = l.pos[m][a] /\ x.to[Other(a)] = at + t
              /\ x \in Reached(l, m, a) <=> Meets(l.pos[m][Other(a)], at + t)
      <3> HIDE DEF at
      <3> QED BY <2>1, EndIsReached
    <2>3. Meets(q, at + t) <=> Meets(r, t)
      BY <1>1, MeetsShifted
    <2>4. (at + t) - at = t
      BY <1>1
    <2> QED BY <2>2, <2>3, <2>4
  <1>4. \/ NoneOf(ds, R) /\ p = l.pos[m]
        \/ \E x : FirstOf(ds, R, x) /\ p = x.to
    BY FirstIsTaken
  <1>5. \A b \in Axes, j \in 1..2 : \A x : IsEnd(l, m, n, b, j, x) /\ x \in R => b = a /\ j = i
    <2> SUFFICES ASSUME NEW b \in Axes, NEW j \in 1..2, NEW x, IsEnd(l, m, n, b, j, x), x \in R
                 PROVE  b = a /\ j = i
      OBVIOUS
    <2>1. x.axis = b /\ x.to[b] = Sides(l, m, n, b)[j]
      BY EndParts
    <2>2. x.axis = a /\ x.to[a] = l.pos[m][a]
      BY DEF Reached
    <2>3. Sides(l, m, n, a)[j] = Sides(l, m, n, a)[i]
      BY <2>1, <2>2 DEF TouchesAt
    <2>4. Sides(l, m, n, a)[1] # Sides(l, m, n, a)[2]
      BY TouchFacts
    <2> QED BY <2>1, <2>2, <2>3, <2>4
  <1>6. IsEnd(l, m, n, a, i, E(0, 0)) /\ IsEnd(l, m, n, a, i, E(f, 0))
        /\ (a = "y" => IsEnd(l, m, n, a, i, E(c, 0)))
        /\ IsEnd(l, m, n, a, i, E(low, 1)) /\ IsEnd(l, m, n, a, i, E(high, -1))
    BY <1>1 DEF IsEnd
  <1>7. \A x : IsEnd(l, m, n, a, i, x) => In(x, ds)
    BY SettledFacts, EndsFacts
  <1>8. /\ E(0, 0) \in R <=> Meets(r, 0)
        /\ E(f, 0) \in R <=> Meets(r, f)
        /\ E(c, 0) \in R <=> Meets(r, c)
        /\ E(low, 1) \in R <=> Meets(r, low)
        /\ E(high, -1) \in R <=> Meets(r, high)
    <2> HIDE DEF E, f, c, low, high, R, r
    <2> QED BY <1>2, <1>3
  <1>9. Offset(l, m, n, a) = r
    BY DEF Offset
  <1>10. \A k : Goes(a, u, v, r, k) <=>
            \/ Meets(r, 0) /\ k = 0
            \/ ~Meets(r, 0) /\ Meets(r, f) /\ k = f
            \/ a = "y" /\ ~Meets(r, 0) /\ ~Meets(r, f) /\ Meets(r, c) /\ k = c
            \/ /\ ~Meets(r, 0) /\ ~Meets(r, f) /\ (a = "y" => ~Meets(r, c))
               /\ \/ Meets(r, low) /\ k = low
                  \/ ~Meets(r, low) /\ Meets(r, high) /\ k = high
                  \/ ~Meets(r, low) /\ ~Meets(r, high) /\ k = r
    BY DEF Goes, NoCorner
  <1>11. CASE NoneOf(ds, R) /\ p = l.pos[m]
    <2>1. \A x : IsEnd(l, m, n, a, i, x) => x \notin R
      BY <1>7, <1>11, NoneIsIn
    <2>2. p[a] = l.pos[m][a] /\ p[o] - at = r
      BY <1>11
    <2>3. /\ ~Meets(r, 0) /\ ~Meets(r, f) /\ (a = "y" => ~Meets(r, c))
          /\ ~Meets(r, low) /\ ~Meets(r, high)
      <3> HIDE DEF E, f, c, low, high, R, r
      <3> QED BY <1>6, <1>8, <2>1
    <2>4. Goes(a, u, v, r, p[o] - at)
      <3> HIDE DEF f, c, low, high, r, p, at, u, v, o
      <3> QED BY <1>10, <2>2, <2>3
    <2> QED BY <1>9, <2>2, <2>4
  <1>12. ASSUME NEW x, FirstOf(ds, R, x), p = x.to
         PROVE  p[a] = l.pos[m][a] /\ Goes(a, u, v, r, p[o] - at)
    <2>1. IsFirst(l, m, n, a, i, R, x)
      <3>1. OnlySide(l, m, n, a, i, R)
        BY <1>5 DEF OnlySide
      <3>2. FirstOf(Ends(l, m, n, Settled), R, x) /\ Settled \in Reaches
        BY <1>12, SettledFacts
      <3> HIDE DEF R
      <3> QED BY <3>1, <3>2, FirstEnd
    <2>2. /\ x \in R
          /\ \/ x = E(0, 0)
             \/ E(0, 0) \notin R /\ x = E(f, 0)
             \/ a = "y" /\ E(0, 0) \notin R /\ E(f, 0) \notin R /\ x = E(c, 0)
             \/ /\ E(0, 0) \notin R /\ E(f, 0) \notin R /\ (a = "y" => E(c, 0) \notin R)
                /\ x = E(low, 1) \/ (E(low, 1) \notin R /\ x = E(high, -1))
      <3> HIDE DEF R, f, c, low, high
      <3> QED BY <1>1, <2>1 DEF IsFirst
    <2>3. \E t \in {0, f, c, low, high} : \E h \in -1..1 : x = E(t, h)
      <3> HIDE DEF E, R, f, c, low, high
      <3> QED BY <1>2, <2>2
    <2>4. PICK t \in {0, f, c, low, high} : \E h \in -1..1 : x = E(t, h)
      BY <2>3
    <2>5. PICK h \in -1..1 : x = E(t, h)
      BY <2>4
    <2>6. p[a] = l.pos[m][a]
      <3> HIDE DEF E, f, c, low, high, p
      <3> QED BY <1>2, <1>3, <1>12, <2>5
    <2> DEFINE k == x.to[o] - at
    <2>7. \A w \in Int, g \in -1..1 : x = E(w, g) => k = w
      <3> HIDE DEF E
      <3> QED BY <1>3
    <2> HIDE DEF k
    <2>8. /\ x = E(0, 0) => k = 0 /\ Meets(r, 0)
          /\ x = E(f, 0) => k = f /\ Meets(r, f)
          /\ x = E(c, 0) => k = c /\ Meets(r, c)
          /\ x = E(low, 1) => k = low /\ Meets(r, low)
          /\ x = E(high, -1) => k = high /\ Meets(r, high)
      <3> HIDE DEF E, f, c, low, high, R, r
      <3> QED BY <1>2, <1>8, <2>2, <2>7
    <2>9. Goes(a, u, v, r, k)
      <3> HIDE DEF E, f, c, low, high, R, r, u, v
      <3> QED BY <1>8, <1>10, <2>2, <2>8
    <2> QED BY <1>12, <2>6, <2>9 DEF k
  <1> QED BY <1>4, <1>9, <1>11, <1>12

\* m touches n and to snap it does not move it.
AtRest(l, m, n) ==
    \E a \in Axes, i \in 1..2 :
        /\ TouchesAt(l, m, n, a, i)
        /\ Rests(a, Extent(l, m, a), Extent(l, n, a), Offset(l, m, n, a))
\* m touches n at a target, or where it rests.
Landed(l, m, n) ==
    \E a \in Axes, i \in 1..2 :
        /\ TouchesAt(l, m, n, a, i)
        /\ \/ Target(a, Extent(l, m, a), Extent(l, n, a), Offset(l, m, n, a))
           \/ Rests(a, Extent(l, m, a), Extent(l, n, a), Offset(l, m, n, a))

LEMMA RoomyIsLarge ==
    ASSUME NEW l \in LayoutType, Roomy(l)
    PROVE  /\ Large(l)
           /\ \A m \in Monitors, a \in Axes : Extent(l, m, a) \in Int /\ Room(Extent(l, m, a))
  <1>1. Large(l)
    <2> SUFFICES ASSUME NEW m \in Monitors, NEW a \in Axes PROVE l.size[m][a] >= MinOverlap
      BY DEF Large
    <2>1. /\ l.size[m][a] \in Int /\ l.size[m][a] > MinOverlap + MinorSnap
          /\ MinOverlap \in Nat /\ MinorSnap \in Nat
      BY Coordinates, Parameters DEF Roomy, Room
    <2> QED BY <2>1
  <1>2. ASSUME NEW m \in Monitors, NEW a \in Axes
        PROVE  Extent(l, m, a) \in Int /\ Room(Extent(l, m, a))
    BY AxesFacts, Coordinates DEF Roomy, Extent
  <1> QED BY <1>1, <1>2

LEMMA OffsetFacts ==
    ASSUME NEW l \in LayoutType, NEW m \in Monitors, NEW n \in Monitors, NEW a \in Axes
    PROVE  Offset(l, m, n, a) \in Int /\ Offset(l, n, m, a) = 0 - Offset(l, m, n, a)
  <1>1. l.pos[m][Other(a)] \in Int /\ l.pos[n][Other(a)] \in Int
    BY AxesFacts, Coordinates
  <1> QED BY <1>1 DEF Offset

\* Touching is mutual, ...
LEMMA TouchesMutual ==
    ASSUME NEW l \in LayoutType, NEW m \in Monitors, NEW n \in Monitors,
           NEW a \in Axes, NEW i \in 1..2, TouchesAt(l, m, n, a, i)
    PROVE  \E j \in 1..2 : TouchesAt(l, n, m, a, j)
  <1> DEFINE o == Other(a)
             pm == l.pos[m][o]
             pn == l.pos[n][o]
             u  == l.size[m][o]
             v  == l.size[n][o]
  <1>1. /\ pm \in Int /\ pn \in Int /\ u \in Int /\ v \in Int
        /\ l.pos[m][a] \in Int /\ l.size[m][a] \in Int
        /\ l.pos[n][a] \in Int /\ l.size[n][a] \in Int
    BY AxesFacts, Coordinates
  <1>2. /\ pm + u - pm >= MinOverlap /\ pm + u - pn >= MinOverlap
        /\ pn + v - pm >= MinOverlap /\ v >= MinOverlap
    BY DEF TouchesAt, Holds
  <1>3. Holds(l, n, m, o, pn)
    <2> HIDE DEF pm, pn, u, v
    <2>1. /\ pn + v - pn >= MinOverlap /\ pn + v - pm >= MinOverlap
          /\ pm + u - pn >= MinOverlap /\ u >= MinOverlap
      BY <1>1, <1>2, Parameters
    <2> QED BY <2>1 DEF Holds, pm, pn, u, v
  <1>4. /\ Sides(l, m, n, a)[1] = l.pos[n][a] - l.size[m][a]
        /\ Sides(l, m, n, a)[2] = l.pos[n][a] + l.size[n][a]
        /\ Sides(l, n, m, a)[1] = l.pos[m][a] - l.size[n][a]
        /\ Sides(l, n, m, a)[2] = l.pos[m][a] + l.size[m][a]
    BY SidesFacts
  <1>5. l.pos[m][a] = Sides(l, m, n, a)[i]
    BY DEF TouchesAt
  <1>6. \E j \in 1..2 : l.pos[n][a] = Sides(l, n, m, a)[j]
    <2>1. CASE i = 1
      BY <1>1, <1>4, <1>5, <2>1
    <2>2. CASE i = 2
      BY <1>1, <1>4, <1>5, <2>2
    <2> QED BY <2>1, <2>2
  <1> QED BY <1>3, <1>6 DEF TouchesAt

\* ... and so is having a target or resting.
LEMMA TargetForBoth ==
    ASSUME NEW a, NEW u \in Int, NEW v \in Int, NEW r \in Int, Target(a, u, v, r)
    PROVE  Target(a, v, u, 0 - r)
  <1>1. /\ AtHangsHigh(u) = 0 - AtHangsLow(u) /\ AtHangsLow(v) = 0 - AtHangsHigh(v)
        /\ AtFinishes(v, u) = 0 - AtFinishes(u, v) /\ AtCentred(v, u) = 0 - AtCentred(u, v)
        /\ 0 = 0 - 0
    <2>1. u \div 2 \in Int /\ v \div 2 \in Int /\ MinOverlap \in Int
      BY Parameters
    <2> QED BY <2>1 DEF AtHangsHigh, AtHangsLow, AtFinishes, AtCentred
  <1>2. \/ r = 0 \/ r = AtFinishes(u, v) \/ r = AtHangsLow(u) \/ r = AtHangsHigh(v)
        \/ a = "y" /\ r = AtCentred(u, v)
    BY DEF Target
  <1> DEFINE s == 0 - r
  <1>3. \/ s = 0 \/ s = AtFinishes(v, u) \/ s = AtHangsLow(v) \/ s = AtHangsHigh(u)
        \/ a = "y" /\ s = AtCentred(v, u)
    BY <1>1, <1>2
  <1> HIDE DEF s
  <1>4. Target(a, v, u, s)
    BY <1>3 DEF Target
  <1> QED BY <1>4 DEF s

LEMMA AtRestForBoth ==
    ASSUME NEW l \in LayoutType, Roomy(l), NEW m \in Monitors, NEW n \in Monitors
    PROVE  /\ AtRest(l, m, n) => AtRest(l, n, m)
           /\ Landed(l, m, n) => Landed(l, n, m)
  <1>1. ASSUME NEW a \in Axes, NEW i \in 1..2, TouchesAt(l, m, n, a, i)
        PROVE  /\ \E j \in 1..2 : TouchesAt(l, n, m, a, j)
               /\ Rests(a, Extent(l, m, a), Extent(l, n, a), Offset(l, m, n, a))
                    => Rests(a, Extent(l, n, a), Extent(l, m, a), Offset(l, n, m, a))
               /\ Target(a, Extent(l, m, a), Extent(l, n, a), Offset(l, m, n, a))
                    => Target(a, Extent(l, n, a), Extent(l, m, a), Offset(l, n, m, a))
    <2> DEFINE u == Extent(l, m, a)
               v == Extent(l, n, a)
               r == Offset(l, m, n, a)
    <2>1. u \in Int /\ v \in Int /\ Room(u) /\ Room(v) /\ r \in Int
          /\ Offset(l, n, m, a) = 0 - r
      BY RoomyIsLarge, OffsetFacts
    <2> HIDE DEF u, v, r
    <2>2. Rests(a, u, v, r) => Rests(a, v, u, 0 - r)
      BY <2>1, RestsForBoth
    <2>3. Target(a, u, v, r) => Target(a, v, u, 0 - r)
      BY <2>1, TargetForBoth
    <2>4. \E j \in 1..2 : TouchesAt(l, n, m, a, j)
      BY <1>1, TouchesMutual
    <2> QED BY <2>1, <2>2, <2>3, <2>4 DEF u, v, r
  <1>2. ASSUME AtRest(l, m, n) PROVE AtRest(l, n, m)
    <2>1. PICK a \in Axes, i \in 1..2 :
              /\ TouchesAt(l, m, n, a, i)
              /\ Rests(a, Extent(l, m, a), Extent(l, n, a), Offset(l, m, n, a))
      BY <1>2 DEF AtRest
    <2> QED BY <1>1, <2>1 DEF AtRest
  <1>3. ASSUME Landed(l, m, n) PROVE Landed(l, n, m)
    <2>1. PICK a \in Axes, i \in 1..2 :
              /\ TouchesAt(l, m, n, a, i)
              /\ \/ Target(a, Extent(l, m, a), Extent(l, n, a), Offset(l, m, n, a))
                 \/ Rests(a, Extent(l, m, a), Extent(l, n, a), Offset(l, m, n, a))
      BY <1>3 DEF Landed
    <2> QED BY <1>1, <2>1 DEF Landed
  <1> QED BY <1>2, <1>3

\* m put at side i of n on axis a, at q on the other one
LEMMA PutBeside ==
    ASSUME NEW l \in LayoutType, NEW m \in Monitors, NEW n \in Monitors, m # n,
           NEW a \in Axes, NEW i \in 1..2, NEW p \in Points, p[a] = Sides(l, m, n, a)[i],
           Holds(l, m, n, Other(a), p[Other(a)])
    PROVE  LET k == Moved(l, m, p)
           IN  /\ k \in LayoutType /\ (Roomy(l) => Roomy(k)) /\ k.useful = l.useful
               /\ k.pos[m] = p /\ k.pos[n] = l.pos[n]
               /\ TouchesAt(k, m, n, a, i)
               /\ Extent(k, m, a) = Extent(l, m, a) /\ Extent(k, n, a) = Extent(l, n, a)
               /\ Offset(k, m, n, a) = p[Other(a)] - l.pos[n][Other(a)]
  <1> DEFINE k == Moved(l, m, p)
  <1>1. /\ k \in LayoutType /\ k.useful = l.useful /\ k.size = l.size
        /\ k.pos[m] = p /\ k.pos[n] = l.pos[n]
    BY MovedFacts
  <1> HIDE DEF k
  <1>2. Roomy(l) => Roomy(k)
    BY <1>1 DEF Roomy
  <1>3. Sides(k, m, n, a) = Sides(l, m, n, a)
    BY <1>1 DEF Sides, Low, High
  <1>4. Holds(k, m, n, Other(a), p[Other(a)])
    BY <1>1 DEF Holds
  <1>5. TouchesAt(k, m, n, a, i)
    BY <1>1, <1>3, <1>4 DEF TouchesAt
  <1>6. /\ Extent(k, m, a) = Extent(l, m, a) /\ Extent(k, n, a) = Extent(l, n, a)
        /\ Offset(k, m, n, a) = p[Other(a)] - l.pos[n][Other(a)]
    BY <1>1 DEF Extent, Offset
  <1> QED BY <1>1, <1>2, <1>5, <1>6 DEF k

\* Targets are places where m shares enough of the edge.
LEMMA TargetHolds ==
    ASSUME NEW l \in LayoutType, Large(l), NEW m \in Monitors, NEW n \in Monitors,
           NEW a \in Axes, NEW q \in Int,
           Target(a, Extent(l, m, a), Extent(l, n, a), q - l.pos[n][Other(a)])
    PROVE  Holds(l, m, n, Other(a), q)
  <1> DEFINE o  == Other(a)
             u  == Extent(l, m, a)
             v  == Extent(l, n, a)
             at == l.pos[n][o]
             T  == {Starts(l, m, n, o), Finishes(l, m, n, o), Centred(l, m, n, o),
                    HangsLow(l, m, n, o), HangsHigh(l, m, n, o)}
  <1>1. /\ o \in Axes /\ u \in Int /\ v \in Int /\ at \in Int
        /\ Starts(l, m, n, o) = at + 0
        /\ Finishes(l, m, n, o) = at + AtFinishes(u, v)
        /\ Centred(l, m, n, o) = at + AtCentred(u, v)
        /\ HangsLow(l, m, n, o) = at + AtHangsLow(u)
        /\ HangsHigh(l, m, n, o) = at + AtHangsHigh(v)
    BY EndsAreTargets
  <1>2. /\ AtFinishes(u, v) \in Int /\ AtCentred(u, v) \in Int
        /\ AtHangsLow(u) \in Int /\ AtHangsHigh(v) \in Int
    BY <1>1, TargetFacts
  <1>3. \A x \in T : Holds(l, m, n, o, x)
    <2> HIDE DEF o
    <2> QED BY <1>1, EveryEndHolds
  <1>4. \/ q - at = 0 \/ q - at = AtFinishes(u, v) \/ q - at = AtHangsLow(u)
        \/ q - at = AtHangsHigh(v) \/ q - at = AtCentred(u, v)
    BY DEF Target
  <1>5. \A t \in Int : q - at = t => q = at + t
    BY <1>1
  <1> HIDE DEF u, v, at
  <1>6. q = at + 0 \/ q = at + AtFinishes(u, v) \/ q = at + AtHangsLow(u)
        \/ q = at + AtHangsHigh(v) \/ q = at + AtCentred(u, v)
    BY <1>2, <1>4, <1>5
  <1>7. q \in T
    <2> HIDE DEF o
    <2> QED BY <1>1, <1>6
  <1> QED BY <1>3, <1>7

LEMMA GoesToTarget ==
    ASSUME NEW a, NEW u, NEW v, NEW r, NEW q, Goes(a, u, v, r, q)
    PROVE  q = r \/ Target(a, u, v, q)
  BY DEF Goes, Target

\* To snap m where it touches n moves it along the edge, not far, and they still touch.
LEMMA SnapAlong ==
    ASSUME NEW l \in LayoutType, Roomy(l), NEW m \in Monitors, NEW n \in Monitors, m # n,
           l.useful = {m, n}, NEW a \in Axes, NEW i \in 1..2, TouchesAt(l, m, n, a, i),
           Far > 0, MinorSnap < MinOverlap
    PROVE  LET k == Moved(l, m, FindBestSnapping(l, m, Settled))
           IN  /\ k \in LayoutType /\ Roomy(k) /\ k.useful = l.useful
               /\ TouchesAt(k, m, n, a, i)
               /\ Extent(k, m, a) = Extent(l, m, a) /\ Extent(k, n, a) = Extent(l, n, a)
               /\ Goes(a, Extent(l, m, a), Extent(l, n, a), Offset(l, m, n, a),
                       Offset(k, m, n, a))
               /\ \A b \in Axes : AbsDiff(l.pos[m][b], k.pos[m][b]) <= MinorSnap
               /\ k.pos[n] = l.pos[n]
  <1> DEFINE p == FindBestSnapping(l, m, Settled)
             k == Moved(l, m, p)
             o == Other(a)
             u == Extent(l, m, a)
             v == Extent(l, n, a)
             at == l.pos[n][o]
             r == Offset(l, m, n, a)
  <1>1. p \in Points
    BY SettledFacts, BestIsPoint
  <1>2. p = Near(Unsnapped(l.pos[m]), l, m, n, Settled).pos
    BY SettledFacts, OnlyNeighbour
  <1>3. /\ p[a] = l.pos[m][a]
        /\ Goes(a, u, v, r, p[o] - at)
    BY <1>2, SnapBeside
  <1> HIDE DEF p
  <1>4. /\ o \in Axes /\ p[o] \in Int /\ p[a] \in Int /\ at \in Int /\ l.pos[m][o] \in Int
        /\ l.pos[m][a] \in Int /\ u \in Int /\ v \in Int /\ r \in Int /\ r = l.pos[m][o] - at
        /\ MinorSnap \in Nat
    <2>1. o \in Axes
      BY AxesFacts
    <2>2. r = l.pos[m][o] - at
      BY DEF Offset
    <2> QED BY <1>1, <2>1, <2>2, PointFacts, Coordinates, RoomyIsLarge, OffsetFacts, Parameters
  <1>5. Holds(l, m, n, o, p[o])
    <2>1. p[o] - at = r \/ Target(a, u, v, p[o] - at)
      <3> HIDE DEF u, v, r, at, o
      <3> QED BY <1>3, GoesToTarget
    <2>2. CASE p[o] - at = r
      <3>1. p[o] = l.pos[m][o]
        <4> HIDE DEF at, r, o
        <4> QED BY <1>4, <2>2
      <3> QED BY <3>1 DEF TouchesAt
    <2>3. CASE Target(a, u, v, p[o] - at)
      BY <1>4, <2>3, RoomyIsLarge, TargetHolds
    <2> QED BY <2>1, <2>2, <2>3
  <1>6. p[a] = Sides(l, m, n, a)[i]
    BY <1>3 DEF TouchesAt
  <1>7. /\ k \in LayoutType /\ Roomy(k) /\ k.useful = l.useful
        /\ k.pos[m] = p /\ k.pos[n] = l.pos[n]
        /\ TouchesAt(k, m, n, a, i)
        /\ Extent(k, m, a) = u /\ Extent(k, n, a) = v
        /\ Offset(k, m, n, a) = p[o] - at
    BY <1>1, <1>5, <1>6, PutBeside
  <1>8. \A b \in Axes : AbsDiff(l.pos[m][b], p[b]) <= MinorSnap
    <2>1. AbsDiff(l.pos[m][a], p[a]) <= MinorSnap
      BY <1>3, <1>4 DEF AbsDiff
    <2>2. AbsDiff(l.pos[m][o], p[o]) <= MinorSnap
      <3> DEFINE q == p[o] - at
      <3>1. r - q <= MinorSnap /\ q - r <= MinorSnap
        <4> HIDE DEF q, u, v, r
        <4> QED BY <1>3, <1>4, GoesNear DEF q
      <3> HIDE DEF at, r, o
      <3>2. l.pos[m][o] - p[o] <= MinorSnap /\ p[o] - l.pos[m][o] <= MinorSnap
        BY <1>4, <3>1
      <3> QED BY <1>4, <3>2 DEF AbsDiff
    <2> QED BY <2>1, <2>2, AxesFacts
  <1> HIDE DEF k
  <1>9. Goes(a, u, v, r, Offset(k, m, n, a))
    BY <1>3, <1>7
  <1> QED BY <1>7, <1>8, <1>9 DEF k, p

\* Where m rests it stays.
LEMMA AtRestStays ==
    ASSUME NEW l \in LayoutType, Roomy(l), NEW m \in Monitors, NEW n \in Monitors, m # n,
           l.useful = {m, n}, AtRest(l, m, n), Far > 0, MinorSnap < MinOverlap
    PROVE  Moved(l, m, FindBestSnapping(l, m, Settled)) = l
  <1>1. PICK a \in Axes, i \in 1..2 :
            /\ TouchesAt(l, m, n, a, i)
            /\ Rests(a, Extent(l, m, a), Extent(l, n, a), Offset(l, m, n, a))
    BY DEF AtRest
  <1> DEFINE p == FindBestSnapping(l, m, Settled)
             o == Other(a)
             r == Offset(l, m, n, a)
             at == l.pos[n][o]
  <1>2. p \in Points /\ l.pos[m] \in Points
    BY SettledFacts, BestIsPoint DEF LayoutType
  <1>3. p = Near(Unsnapped(l.pos[m]), l, m, n, Settled).pos
    BY SettledFacts, OnlyNeighbour
  <1>4. /\ p[a] = l.pos[m][a]
        /\ Goes(a, Extent(l, m, a), Extent(l, n, a), r, p[o] - at)
    BY <1>1, <1>3, SnapBeside
  <1> HIDE DEF p
  <1>5. p[o] - at = r
    BY <1>1, <1>4, GoesOneWay DEF Rests
  <1>6. p[o] = l.pos[m][o]
    <2>1. o \in Axes
      BY AxesFacts
    <2>2. p[o] \in Int /\ at \in Int /\ l.pos[m][o] \in Int /\ r = l.pos[m][o] - at
      BY <1>2, <2>1, PointFacts, Coordinates DEF Offset
    <2> HIDE DEF r, at, o
    <2> QED BY <1>5, <2>2
  <1>7. p = l.pos[m]
    BY <1>2, <1>4, <1>6, PointIsOn
  <1>8. Moved(l, m, l.pos[m]) = l
    <2>1. [l.pos EXCEPT ![m] = l.pos[m]] = l.pos
      BY DEF LayoutType
    <2>2. [l EXCEPT !.pos = l.pos] = l
      BY DEF LayoutType
    <2>3. Moved(l, m, l.pos[m]) = [l EXCEPT !.pos = [l.pos EXCEPT ![m] = l.pos[m]]]
      BY DEF Moved
    <2> QED BY <2>1, <2>2, <2>3
  <1> QED BY <1>7, <1>8 DEF p

\* From where m has landed, to snap it brings it to rest.
LEMMA LandedComesToRest ==
    ASSUME NEW l \in LayoutType, Roomy(l), NEW m \in Monitors, NEW n \in Monitors, m # n,
           l.useful = {m, n}, Landed(l, m, n), Far > 0, MinorSnap < MinOverlap
    PROVE  AtRest(Moved(l, m, FindBestSnapping(l, m, Settled)), m, n)
  <1>1. PICK a \in Axes, i \in 1..2 :
            /\ TouchesAt(l, m, n, a, i)
            /\ \/ Target(a, Extent(l, m, a), Extent(l, n, a), Offset(l, m, n, a))
               \/ Rests(a, Extent(l, m, a), Extent(l, n, a), Offset(l, m, n, a))
    BY DEF Landed
  <1> DEFINE k == Moved(l, m, FindBestSnapping(l, m, Settled))
             u == Extent(l, m, a)
             v == Extent(l, n, a)
             r == Offset(l, m, n, a)
             q == Offset(k, m, n, a)
  <1>2. /\ TouchesAt(k, m, n, a, i)
        /\ Extent(k, m, a) = u /\ Extent(k, n, a) = v
        /\ Goes(a, u, v, r, q)
    BY <1>1, SnapAlong
  <1>3. u \in Int /\ v \in Int /\ Room(u) /\ Room(v) /\ r \in Int
    BY RoomyIsLarge, OffsetFacts
  <1> HIDE DEF k, u, v, r, q
  <1>4. Target(a, u, v, r) \/ Rests(a, u, v, r)
    BY <1>1 DEF u, v, r
  <1>5. Rests(a, u, v, q)
    BY <1>2, <1>3, <1>4, GoesToRest
  <1>6. AtRest(k, m, n)
    BY <1>2, <1>5 DEF AtRest, q
  <1> QED BY <1>6 DEF k

\* The ends are at targets.
LEMMA EndIsTarget ==
    ASSUME NEW l \in LayoutType, NEW m \in Monitors, NEW n \in Monitors,
           NEW a \in Axes, NEW i \in 1..2, NEW c, IsEnd(l, m, n, a, i, c)
    PROVE  Target(a, Extent(l, m, a), Extent(l, n, a), c.to[Other(a)] - l.pos[n][Other(a)])
  <1> DEFINE o  == Other(a)
             u  == Extent(l, m, a)
             v  == Extent(l, n, a)
             at == l.pos[n][o]
             f  == AtFinishes(u, v)
             e  == AtCentred(u, v)
             low  == AtHangsLow(u)
             high == AtHangsHigh(v)
             T  == {Starts(l, m, n, o), Finishes(l, m, n, o), HangsLow(l, m, n, o),
                    HangsHigh(l, m, n, o)}
             q  == c.to[o]
  <1>1. /\ o \in Axes /\ u \in Int /\ v \in Int /\ at \in Int
        /\ Starts(l, m, n, o) = at + 0
        /\ Finishes(l, m, n, o) = at + f
        /\ Centred(l, m, n, o) = at + e
        /\ HangsLow(l, m, n, o) = at + low
        /\ HangsHigh(l, m, n, o) = at + high
    BY EndsAreTargets
  <1>2. f \in Int /\ e \in Int /\ low \in Int /\ high \in Int
    BY <1>1, TargetFacts
  <1>3. ASSUME NEW t \in Int, NEW h \in -1..1, c = End(l, m, n, a, i, t, h)
        PROVE  q = t
    <2> HIDE DEF at
    <2>1. Sides(l, m, n, a)[i] \in Int
      BY SidesFacts
    <2>2. c.to = On(a, Sides(l, m, n, a)[i], t)
      BY <1>3, EndFacts
    <2> QED BY <2>1, <2>2, OnFacts
  <1>4. /\ 0 \in -1..1 /\ 1 \in -1..1 /\ -1 \in -1..1
        /\ T \subseteq Int /\ Centred(l, m, n, o) \in Int
    <2> HIDE DEF o
    <2> QED BY <1>1, QsAreNumbers
  <1>5. q \in T \/ (a = "y" /\ q = Centred(l, m, n, o))
    <2>1. \/ \E t \in T, h \in -1..1 : c = End(l, m, n, a, i, t, h)
          \/ a = "y" /\ c = End(l, m, n, a, i, Centred(l, m, n, o), 0)
      BY <1>4 DEF IsEnd
    <2> HIDE DEF T, q, o
    <2> QED BY <1>3, <1>4, <2>1
  <1>6. \A t \in Int : q = at + t => q - at = t
    BY <1>1
  <1> HIDE DEF q, at, u, v, f, e, low, high
  <1>7. \/ q = at + 0 \/ q = at + f \/ q = at + low \/ q = at + high
        \/ a = "y" /\ q = at + e
    <2> HIDE DEF o
    <2> QED BY <1>1, <1>5
  <1>8. \/ q - at \in {0, f, low, high}
        \/ a = "y" /\ q - at = e
    BY <1>2, <1>6, <1>7
  <1> QED BY <1>8 DEF Target, q, at, u, v, f, e, low, high

\* An end that m would be put straight beside may be used when it is near.
LEMMA NearIsAllowed ==
    ASSUME NEW from \in Points, NEW c \in CandidateType,
           Meets(from[Other(c.axis)], c.to[Other(c.axis)])
    PROVE  Allowed(from, c, Settled)
  <1> DEFINE o == Other(c.axis)
             d == AbsDiff(from[o], c.to[o])
  <1>1. from[o] \in Int /\ c.to[o] \in Int /\ MinorSnap \in Nat
    BY AxesFacts, PointFacts, Parameters DEF CandidateType
  <1>2. d \in Int /\ d <= MinorSnap
    BY <1>1 DEF AbsDiff, Meets
  <1> HIDE DEF d
  <1>3. ~ BeyondMinor(d, Settled)
    BY <1>1, <1>2, SettledFacts
  <1> QED BY <1>3, SettledFacts DEF Allowed, d

\* Put straight beside n where no end may be used, m is near to no target.
LEMMA StraightRests ==
    ASSUME NEW l \in LayoutType, NEW m \in Monitors, NEW n \in Monitors,
           NEW a \in Axes, NEW i \in 1..2, NEW p, LandsStraight(l, m, n, Settled, p, a, i)
    PROVE  Rests(a, Extent(l, m, a), Extent(l, n, a), Offset(l, m, n, a))
  <1> DEFINE o  == Other(a)
             q  == l.pos[m][o]
             at == l.pos[n][o]
             u  == Extent(l, m, a)
             v  == Extent(l, n, a)
             r  == q - at
             E(t, h) == End(l, m, n, a, i, at + t, h)
             f  == AtFinishes(u, v)
             c  == AtCentred(u, v)
             low  == AtHangsLow(u)
             high == AtHangsHigh(v)
  <1>1. /\ o \in Axes /\ u \in Int /\ v \in Int /\ at \in Int /\ q \in Int
        /\ Starts(l, m, n, o) = at + 0
        /\ Finishes(l, m, n, o) = at + f
        /\ Centred(l, m, n, o) = at + c
        /\ HangsLow(l, m, n, o) = at + low
        /\ HangsHigh(l, m, n, o) = at + high
    <2>1. q \in Int
      BY AxesFacts, Coordinates
    <2> QED BY <2>1, EndsAreTargets
  <1>2. 0 \in Int /\ f \in Int /\ c \in Int /\ low \in Int /\ high \in Int
        /\ 0 \in -1..1 /\ 1 \in -1..1 /\ -1 \in -1..1
    BY <1>1, TargetFacts
  <1>3. IsEnd(l, m, n, a, i, E(0, 0)) /\ IsEnd(l, m, n, a, i, E(f, 0))
        /\ (a = "y" => IsEnd(l, m, n, a, i, E(c, 0)))
        /\ IsEnd(l, m, n, a, i, E(low, 1)) /\ IsEnd(l, m, n, a, i, E(high, -1))
    BY <1>1 DEF IsEnd
  <1>4. ASSUME NEW t \in Int, NEW h \in -1..1, IsEnd(l, m, n, a, i, E(t, h))
        PROVE  ~Meets(r, t)
    <2> DEFINE e == E(t, h)
               side == Sides(l, m, n, a)[i]
    <2>1. at + t \in Int /\ side \in Int
      BY <1>1, SidesFacts
    <2>2. e \in CandidateType /\ e.axis = a /\ e.to = On(a, side, at + t)
      <3> HIDE DEF at
      <3> QED BY <2>1, EndFacts
    <2>3. In(e, Ends(l, m, n, Settled))
      BY <1>4, SettledFacts, EndsFacts
    <2> HIDE DEF e
    <2>4. e.to[a] = side /\ e.to[o] = at + t
      <3> HIDE DEF side, at
      <3> QED BY <2>1, <2>2, OnFacts
    <2>5. ~ Allowed(l.pos[m], e, Settled)
      BY <2>2, <2>3, <2>4 DEF LandsStraight
    <2>6. l.pos[m] \in Points
      BY DEF LayoutType
    <2>7. ~ Meets(q, at + t)
      <3>1. Other(e.axis) = o
        BY <2>2
      <3> HIDE DEF o, at
      <3> QED BY <2>2, <2>4, <2>5, <2>6, <3>1, NearIsAllowed
    <2> QED BY <1>1, <2>7, MeetsShifted
  <1>5. /\ ~Meets(r, 0) /\ ~Meets(r, f) /\ (a = "y" => ~Meets(r, c))
        /\ ~Meets(r, low) /\ ~Meets(r, high)
    <2> HIDE DEF E, f, c, low, high, r
    <2> QED BY <1>2, <1>3, <1>4
  <1>6. Rests(a, u, v, r)
    BY <1>5 DEF Rests, Goes, NoCorner
  <1> QED BY <1>6 DEF Offset

\* Wherever it is snapped from, m lands.
LEMMA SnapLandsBeside ==
    ASSUME NEW l \in LayoutType, Roomy(l), NEW m \in Monitors, NEW n \in Monitors, m # n,
           l.useful = {m, n}, Close(l, m, n, 1)
    PROVE  LET k == Moved(l, m, FindBestSnapping(l, m, Settled))
           IN  /\ k \in LayoutType /\ Roomy(k) /\ k.useful = l.useful
               /\ Landed(k, m, n)
  <1> DEFINE p == FindBestSnapping(l, m, Settled)
             k == Moved(l, m, p)
             o(a) == Other(a)
  <1>1. p \in Points
    BY SettledFacts, BestIsPoint
  <1>2. Large(l)
    BY RoomyIsLarge
  <1>3. Lands(l, m, n, Settled, p)
    <2>1. p = Near(Unsnapped(l.pos[m]), l, m, n, Settled).pos
      BY SettledFacts, OnlyNeighbour
    <2> HIDE DEF p
    <2> QED BY <1>2, <2>1, SettledFacts, NearLands
  <1> HIDE DEF p
  <1>4. ASSUME NEW a \in Axes, NEW i \in 1..2, p[a] = Sides(l, m, n, a)[i],
               Holds(l, m, n, Other(a), p[Other(a)]),
               \/ Target(a, Extent(l, m, a), Extent(l, n, a), p[Other(a)] - l.pos[n][Other(a)])
               \/ Rests(a, Extent(l, m, a), Extent(l, n, a), p[Other(a)] - l.pos[n][Other(a)])
        PROVE  k \in LayoutType /\ Roomy(k) /\ k.useful = l.useful /\ Landed(k, m, n)
    <2>1. /\ k \in LayoutType /\ Roomy(k) /\ k.useful = l.useful
          /\ TouchesAt(k, m, n, a, i)
          /\ Extent(k, m, a) = Extent(l, m, a) /\ Extent(k, n, a) = Extent(l, n, a)
          /\ Offset(k, m, n, a) = p[Other(a)] - l.pos[n][Other(a)]
      BY <1>1, <1>4, PutBeside
    <2> HIDE DEF k
    <2> QED BY <1>4, <2>1 DEF Landed
  <1>5. ASSUME NEW c, In(c, Ends(l, m, n, Settled)), p = c.to
        PROVE  k \in LayoutType /\ Roomy(k) /\ k.useful = l.useful /\ Landed(k, m, n)
    <2>1. PICK a \in Axes, i \in 1..2 : IsEnd(l, m, n, a, i, c)
      BY <1>5, SettledFacts, EndsFacts
    <2>2. p[a] = Sides(l, m, n, a)[i] /\ p[Other(a)] \in Int
      BY <1>5, <2>1, EndParts
    <2>3. Target(a, Extent(l, m, a), Extent(l, n, a), p[Other(a)] - l.pos[n][Other(a)])
      BY <1>5, <2>1, EndIsTarget
    <2>4. Holds(l, m, n, Other(a), p[Other(a)])
      BY <1>2, <2>2, <2>3, TargetHolds
    <2> HIDE DEF k
    <2> QED BY <1>4, <2>2, <2>3, <2>4
  <1>6. ASSUME NEW a \in Axes, NEW i \in 1..2, LandsStraight(l, m, n, Settled, p, a, i)
        PROVE  k \in LayoutType /\ Roomy(k) /\ k.useful = l.useful /\ Landed(k, m, n)
    <2> DEFINE q == l.pos[m][Other(a)]
               side == Sides(l, m, n, a)[i]
    <2>1. p = On(a, side, q) /\ Holds(l, m, n, Other(a), q)
      BY <1>6 DEF LandsStraight
    <2>2. side \in Int /\ q \in Int
      BY AxesFacts, SidesFacts, Coordinates
    <2>3. p[a] = side /\ p[Other(a)] = q
      <3> HIDE DEF side, q
      <3> QED BY <2>1, <2>2, OnFacts
    <2>4. Rests(a, Extent(l, m, a), Extent(l, n, a), p[Other(a)] - l.pos[n][Other(a)])
      BY <1>6, <2>3, StraightRests DEF Offset
    <2> HIDE DEF k
    <2> QED BY <1>4, <2>1, <2>3, <2>4
  <1> QED BY <1>3, <1>5, <1>6 DEF Lands, k, p

\* Attached monitors touch.
LEMMA AttachedTouches ==
    ASSUME NEW l \in LayoutType, Large(l), NEW m \in Monitors, NEW n \in Monitors,
           Attached(l, m, n, MinOverlap)
    PROVE  \E a \in Axes, i \in 1..2 : TouchesAt(l, m, n, a, i)
  <1>1. PICK a \in Axes :
            /\ Low(l, m, a) \in {Low(l, n, a) - l.size[m][a], High(l, n, a)}
            /\ Least(High(l, m, Other(a)), High(l, n, Other(a)))
                - Most(Low(l, m, Other(a)), Low(l, n, Other(a))) >= MinOverlap
    BY DEF Attached
  <1> DEFINE o == Other(a)
             pm == l.pos[m][o]
             pn == l.pos[n][o]
             u  == l.size[m][o]
             v  == l.size[n][o]
  <1>2. /\ pm \in Int /\ pn \in Int /\ u \in Int /\ v \in Int /\ MinOverlap \in Nat
        /\ u >= MinOverlap /\ v >= MinOverlap
    BY AxesFacts, Coordinates, Parameters DEF Large
  <1>3. /\ Low(l, m, o) = pm /\ Low(l, n, o) = pn /\ High(l, m, o) = pm + u
        /\ High(l, n, o) = pn + v
    BY DEF Low, High
  <1>4. Holds(l, m, n, o, pm)
    <2>1. Least(pm + u, pn + v) - Most(pm, pn) >= MinOverlap
      BY <1>1, <1>3
    <2> HIDE DEF pm, pn, u, v
    <2>2. pm + u \in Int /\ pn + v \in Int
      BY <1>2
    <2>3. pm + u - pm >= MinOverlap /\ pm + u - pn >= MinOverlap /\ pn + v - pm >= MinOverlap
      BY <1>2, <2>1, <2>2, LeastAndMost
    <2> QED BY <1>2, <2>3 DEF Holds, pm, pn, u, v
  <1>5. \E i \in 1..2 : l.pos[m][a] = Sides(l, m, n, a)[i]
    BY <1>1 DEF Sides, Low
  <1> QED BY <1>4, <1>5 DEF TouchesAt

\* Two monitors come to rest, and near to where they are attached already.
LEMMA PairComesToRest ==
    ASSUME NEW l \in LayoutType, Roomy(l), Cardinality(l.useful) = 2, PairIsClose(l, 1),
           Far > 0, MinorSnap < MinOverlap
    PROVE  LET settled == SnapOutputs(l)
           IN  /\ SnapOutputs(settled) = settled
               /\ Good(l) => \A m \in l.useful, a \in Axes :
                    AbsDiff(l.pos[m][a], settled.pos[m][a]) <= MinorSnap
  <1>1. l.useful \in SUBSET Monitors
    BY DEF LayoutType
  <1>2. PICK b, c \in Monitors : b < c /\ l.useful = {b, c}
    BY <1>1, PairFacts
  <1>3. b # c /\ l.useful = {c, b}
    BY <1>2 DEF Monitors
  <1> DEFINE k == Moved(l, b, FindBestSnapping(l, b, Settled))
             e == Moved(k, c, FindBestSnapping(k, c, Settled))
  <1>4. SnapOutputs(l) = e
    BY <1>2, SnapOutputsOfPair DEF SnapOutputs
  <1>5. /\ k \in LayoutType /\ Roomy(k) /\ k.useful = {b, c} /\ k.useful = {c, b}
        /\ Landed(k, b, c)
    BY <1>2, <1>3, SnapLandsBeside DEF PairIsClose
  <1>6. Landed(k, c, b)
    <2> HIDE DEF k
    <2> QED BY <1>5, AtRestForBoth
  <1>7. e \in LayoutType /\ Roomy(e) /\ e.useful = {b, c} /\ e.useful = {c, b}
    <2>1. PICK a \in Axes, i \in 1..2 : TouchesAt(k, c, b, a, i)
      BY <1>6 DEF Landed
    <2> HIDE DEF k
    <2>2. e \in LayoutType /\ Roomy(e) /\ e.useful = k.useful
      BY <1>3, <1>5, <2>1, SnapAlong
    <2> QED BY <1>5, <2>2
  <1>8. AtRest(e, c, b)
    <2> HIDE DEF k
    <2> QED BY <1>3, <1>5, <1>6, LandedComesToRest
  <1>9. SnapOutputs(e) = e
    <2> HIDE DEF e
    <2>1. AtRest(e, b, c)
      BY <1>7, <1>8, AtRestForBoth
    <2>2. Moved(e, b, FindBestSnapping(e, b, Settled)) = e
      BY <1>3, <1>7, <2>1, AtRestStays
    <2>3. Moved(e, c, FindBestSnapping(e, c, Settled)) = e
      BY <1>3, <1>7, <1>8, AtRestStays
    <2>4. Snapping(e)[NMonitors] = e
      BY <1>2, <1>7, <2>2, <2>3, SnapOutputsOfPair
    <2> QED BY <2>4 DEF SnapOutputs
  <1>10. ASSUME Good(l), NEW m \in l.useful, NEW a \in Axes
         PROVE  AbsDiff(l.pos[m][a], e.pos[m][a]) <= MinorSnap
    <2>1. PICK x \in l.useful \ {b} : Attached(l, b, x, MinOverlap)
      BY <1>2, <1>10 DEF Good
    <2>2. Attached(l, b, c, MinOverlap)
      BY <1>2, <2>1
    <2>3. PICK d \in Axes, i \in 1..2 : TouchesAt(l, b, c, d, i)
      BY <2>2, RoomyIsLarge, AttachedTouches
    <2>4. /\ k \in LayoutType /\ TouchesAt(k, b, c, d, i)
          /\ \A f \in Axes : AbsDiff(l.pos[b][f], k.pos[b][f]) <= MinorSnap
          /\ k.pos[c] = l.pos[c]
      BY <1>2, <1>3, <2>3, SnapAlong
    <2> HIDE DEF k
    <2>5. PICK j \in 1..2 : TouchesAt(k, c, b, d, j)
      BY <2>4, TouchesMutual
    <2>6. /\ \A f \in Axes : AbsDiff(k.pos[c][f], e.pos[c][f]) <= MinorSnap
          /\ e.pos[b] = k.pos[b]
      BY <1>3, <1>5, <2>5, SnapAlong
    <2> HIDE DEF e
    <2> QED BY <1>2, <2>4, <2>6
  <1> HIDE DEF e
  <1> QED BY <1>4, <1>9, <1>10

(* The drawing *)

\* No monitor is ever smaller than the part of an edge it has to share with another.
LargeMonitors ==
    /\ \A l \in Layouts : Large(l)
    /\ \A m \in Monitors : \A size \in Sizes[m] : \A a \in Axes : size[a] >= MinOverlap

\* Every monitor is longer than the part of an edge it has to share and the small distance
\* of snapping together.
RoomyMonitors ==
    /\ \A l \in Layouts : Roomy(l)
    /\ \A m \in Monitors : \A size \in Sizes[m] : \A a \in Axes : Room(size[a])

\* Nowhere the pointer may go is so far from the other monitors that distances do not count.
SpotsAreNear ==
    \A m \in layout.useful, n \in layout.useful, to \in Spots :
        m # n => Close(Moved(layout, m, to), m, n, Zoom)

\* Two monitors are never so far apart that distances do not count.
PairsAreNear == Cardinality(layout.useful) = 2 => PairIsClose(layout, 1)

DrawingInv ==
    /\ TypeOK
    /\ LargeMonitors => Large(layout)
    /\ RoomyMonitors => Roomy(layout)

LEMMA TypedLayout ==
    ASSUME TypeOK
    PROVE  layout \in LayoutType
  BY DEF TypeOK, LayoutType

LEMMA ResizedFacts ==
    ASSUME NEW l \in LayoutType, NEW m \in Monitors, NEW size \in Points
    PROVE  LET k == [l EXCEPT !.size[m] = size]
           IN  /\ k \in LayoutType /\ k.useful = l.useful
               /\ Large(l) /\ (\A a \in Axes : size[a] >= MinOverlap) => Large(k)
               /\ Roomy(l) /\ (\A a \in Axes : Room(size[a])) => Roomy(k)
  <1> DEFINE sizes == [l.size EXCEPT ![m] = size]
             k     == [l EXCEPT !.size = sizes]
  <1>1. /\ sizes \in [Monitors -> Points] /\ sizes[m] = size
        /\ \A n \in Monitors : n # m => sizes[n] = l.size[n]
    BY DEF LayoutType
  <1> HIDE DEF sizes
  <1>2. k \in LayoutType /\ k.useful = l.useful /\ k.size = sizes
    BY <1>1 DEF LayoutType
  <1> HIDE DEF k
  <1>3. Large(l) /\ (\A a \in Axes : size[a] >= MinOverlap) => Large(k)
    BY <1>1, <1>2 DEF Large
  <1>4. Roomy(l) /\ (\A a \in Axes : Room(size[a])) => Roomy(k)
    BY <1>1, <1>2 DEF Roomy
  <1> QED BY <1>2, <1>3, <1>4 DEF k, sizes

LEMMA UsefulFacts ==
    ASSUME NEW l \in LayoutType, NEW U \in SUBSET Monitors
    PROVE  LET k == [l EXCEPT !.useful = U]
           IN  k \in LayoutType /\ k.useful = U /\ k.size = l.size
  BY DEF LayoutType

LEMMA AppendFacts ==
    ASSUME NEW l \in LayoutType, NEW m \in Monitors, NEW k \in AppendRight(l, m)
    PROVE  k \in Rearranged(l)
  <1>1. PICK n \in l.useful \ {m} : k = Moved(l, m, Place(High(l, n, "x"), Low(l, n, "y")))
    BY DEF AppendRight, Moved
  <1>2. High(l, n, "x") \in Int /\ Low(l, n, "y") \in Int
    <2>1. n \in Monitors /\ "x" \in Axes /\ "y" \in Axes
      BY <1>1, AxesFacts DEF LayoutType
    <2> QED BY <2>1, Coordinates DEF High, Low
  <1> DEFINE p == Place(High(l, n, "x"), Low(l, n, "y"))
  <1>3. p \in Points
    <2>1. Points = [{"x", "y"} -> Int]
      BY AxesFacts DEF Points
    <2> QED BY <1>2, <2>1, PointFacts
  <1> HIDE DEF p
  <1>4. Moved(l, m, p) \in Rearranged(l)
    BY <1>3, MovedFacts DEF Rearranged
  <1> QED BY <1>1, <1>4 DEF p

LEMMA MotionFacts ==
    ASSUME NEW l \in LayoutType, NEW m \in Monitors, NEW to \in Points, NEW free \in BOOLEAN
    PROVE  LET k == Moved(l, m, to)
           IN  /\ k \in Rearranged(l) /\ k \in LayoutType /\ Dragged(free) \in Reaches
               /\ Moved(k, m, FindBestSnapping(k, m, Dragged(free))) \in Rearranged(l)
  <1> DEFINE k == Moved(l, m, to)
             p == FindBestSnapping(k, m, Dragged(free))
  <1>1. k \in LayoutType /\ k.useful = l.useful /\ k.size = l.size
    BY MovedFacts
  <1>2. Dragged(free) \in Reaches
    BY Parameters DEF Dragged, Reaches
  <1> HIDE DEF k
  <1>3. p \in Points
    BY <1>1, <1>2, BestIsPoint
  <1> HIDE DEF p
  <1>4. Moved(k, m, p) \in Rearranged(l)
    BY <1>1, <1>3, MovedFacts DEF Rearranged
  <1> QED BY <1>1, <1>2, <1>4 DEF k, p, Rearranged

LEMMA DrawingInvInit ==
    Init => DrawingInv
  <1> SUFFICES ASSUME Init PROVE DrawingInv
    OBVIOUS
  <1>1. layout \in LayoutType
    BY ArrangementAssumption DEF Init, LayoutType
  <1>2. 0 \in 0..MaxSteps
    BY Parameters
  <1> QED BY <1>1, <1>2 DEF Init, DrawingInv, TypeOK, LayoutType, LargeMonitors, RoomyMonitors

LEMMA DrawingInvStep ==
    DrawingInv /\ [Next]_vars => DrawingInv'
  <1> SUFFICES ASSUME DrawingInv, [Next]_vars PROVE DrawingInv'
    OBVIOUS
  <1>1. /\ layout \in LayoutType /\ layout.useful \in SUBSET Monitors
        /\ drag # None => drag \in layout.useful /\ Cardinality(layout.useful) > 1
        /\ unlimited \in BOOLEAN /\ steps \in 0..MaxSteps
        /\ LargeMonitors => Large(layout)
        /\ RoomyMonitors => Roomy(layout)
    BY DEF DrawingInv, TypeOK, LayoutType
  <1>2. Step => steps' \in 0..MaxSteps
    BY <1>1, Parameters DEF Step
  <1>3. ASSUME NEW l \in LayoutType, NEW k \in Rearranged(l)
        PROVE  /\ k \in LayoutType /\ k.useful = l.useful
               /\ (Large(l) => Large(k)) /\ (Roomy(l) => Roomy(k))
    BY DEF Rearranged, Large, Roomy
  <1>4. \A l : Reach(l) \in BOOLEAN
    BY DEF Reach
  <1>5. ASSUME layout' \in LayoutType, LargeMonitors => Large(layout'),
               RoomyMonitors => Roomy(layout'), steps' \in 0..MaxSteps, unlimited' \in BOOLEAN,
               drag' # None => drag' \in layout'.useful /\ Cardinality(layout'.useful) > 1
        PROVE  DrawingInv'
    <2>1. (LargeMonitors' <=> LargeMonitors) /\ (RoomyMonitors' <=> RoomyMonitors)
      BY DEF LargeMonitors, Large, RoomyMonitors, Roomy, Room
    <2>2. Large(layout)' <=> Large(layout')
      BY DEF Large
    <2>3. Roomy(layout)' <=> Roomy(layout')
      BY DEF Roomy, Room
    <2> QED BY <1>5, <2>1, <2>2, <2>3 DEF DrawingInv, TypeOK, LayoutType
  <1>6. ASSUME NEW m \in Monitors, Pressed(m) PROVE DrawingInv'
    BY <1>1, <1>2, <1>5, <1>6 DEF Pressed, Step
  <1>7. ASSUME NEW m \in Monitors, Switched(m) PROVE DrawingInv'
    <2>1. unlimited' \in BOOLEAN /\ drag' = None /\ steps' \in 0..MaxSteps
      BY <1>2, <1>4, <1>7 DEF Switched
    <2>2. CASE m \in layout.useful
      <3> DEFINE U == layout.useful \ {m}
                 k == [layout EXCEPT !.useful = U]
      <3>1. layout' = SnapOutputs(k)
        BY <1>7, <2>2 DEF Switched
      <3>2. k \in LayoutType /\ k.size = layout.size
        BY <1>1, UsefulFacts
      <3> HIDE DEF k
      <3>3. layout' \in Rearranged(k)
        BY <3>1, <3>2, SnapOutputsFacts
      <3> QED BY <1>1, <1>3, <1>5, <2>1, <3>2, <3>3 DEF Large, Roomy
    <2>3. CASE m \notin layout.useful
      <3> DEFINE U == layout.useful \cup {m}
                 k == [layout EXCEPT !.useful = U]
      <3>1. PICK l \in AppendRight(k, m) : layout' = SnapOutputs(l)
        BY <1>7, <2>3 DEF Switched
      <3>2. k \in LayoutType /\ k.size = layout.size
        BY <1>1, UsefulFacts
      <3> HIDE DEF k
      <3>3. l \in Rearranged(k)
        BY <3>1, <3>2, AppendFacts
      <3>4. l \in LayoutType /\ (Large(k) => Large(l)) /\ (Roomy(k) => Roomy(l))
        BY <1>3, <3>2, <3>3
      <3>5. layout' \in Rearranged(l)
        BY <3>1, <3>4, SnapOutputsFacts
      <3>6. /\ layout' \in LayoutType
            /\ (Large(l) => Large(layout')) /\ (Roomy(l) => Roomy(layout'))
        BY <1>3, <3>4, <3>5
      <3> QED BY <1>1, <1>5, <2>1, <3>2, <3>4, <3>6 DEF Large, Roomy
    <2> QED BY <2>2, <2>3
  <1>8. ASSUME NEW m \in Monitors, NEW size \in Sizes[m], Resized(m, size) PROVE DrawingInv'
    <2> DEFINE k == [layout EXCEPT !.size[m] = size]
    <2>1. unlimited' \in BOOLEAN /\ drag' = None /\ steps' \in 0..MaxSteps
          /\ layout' = SnapOutputs(k)
      BY <1>2, <1>4, <1>8 DEF Resized
    <2>2. size \in Points
      BY ArrangementAssumption
    <2>3. k \in LayoutType /\ (LargeMonitors => Large(k)) /\ (RoomyMonitors => Roomy(k))
      BY <1>1, <2>2, ResizedFacts DEF LargeMonitors, RoomyMonitors
    <2> HIDE DEF k
    <2>4. layout' \in Rearranged(k)
      BY <2>1, <2>3, SnapOutputsFacts
    <2> QED BY <1>3, <1>5, <2>1, <2>3, <2>4
  <1>9. ASSUME NEW to \in Spots, Motion(to) PROVE DrawingInv'
    <2> DEFINE k == Moved(layout, drag, to)
               e == Moved(k, drag, FindBestSnapping(k, drag, Dragged(unlimited)))
    <2>1. drag # None /\ drag' = drag /\ steps' \in 0..MaxSteps /\ layout' = e
      BY <1>2, <1>9 DEF Motion, Moved
    <2>2. unlimited' \in BOOLEAN
      BY <1>1, <1>4, <1>9 DEF Motion
    <2>3. drag \in Monitors /\ to \in Points
      BY <1>1, <2>1, ArrangementAssumption
    <2>4. e \in Rearranged(layout)
      BY <1>1, <2>3, MotionFacts
    <2> HIDE DEF e
    <2> QED BY <1>1, <1>3, <1>5, <2>1, <2>2, <2>4
  <1>10. CASE Released
    BY <1>1, <1>2, <1>5, <1>10 DEF Released
  <1>11. ASSUME NEW l \in Layouts, SetConfig(l) PROVE DrawingInv'
    <2>1. l \in LayoutType /\ (LargeMonitors => Large(l)) /\ (RoomyMonitors => Roomy(l))
      BY ArrangementAssumption DEF LayoutType, LargeMonitors, RoomyMonitors
    <2> QED BY <1>1, <1>2, <1>5, <1>11, <2>1 DEF SetConfig
  <1>12. CASE UNCHANGED vars
    BY <1>1, <1>5, <1>12 DEF vars
  <1> QED BY <1>6, <1>7, <1>8, <1>9, <1>10, <1>11, <1>12 DEF Next

LEMMA DrawingInvHolds == Spec => []DrawingInv
  BY DrawingInvInit, DrawingInvStep, PTL DEF Spec

\* The variables keep their types, and what is dragged is one of several monitors that are
\* on: the motion handler never works on a monitor that a new configuration has taken away.
THEOREM DrawingTypes == Spec => []TypeOK
  <1>1. DrawingInv => TypeOK
    BY DEF DrawingInv
  <1> QED BY <1>1, DrawingInvHolds, PTL

\* Without limit, a motion leaves two monitors attached (find_best_snapping).
LEMMA MotionAttaches ==
    ASSUME DrawingInv, LargeMonitors, SpotsAreNear, NEW to \in Spots, Motion(to), unlimited,
           Cardinality(layout.useful) = 2
    PROVE  Good(layout')
  <1> DEFINE k     == Moved(layout, drag, to)
             reach == Dragged(unlimited)
  <1>1. drag # None /\ layout' = Moved(k, drag, FindBestSnapping(k, drag, reach))
    BY DEF Motion, Moved
  <1>2. layout \in LayoutType /\ layout.useful \in SUBSET Monitors /\ Large(layout)
        /\ drag \in layout.useful /\ drag \in Monitors
    BY <1>1 DEF DrawingInv, TypeOK, LayoutType
  <1>3. to \in Points
    BY ArrangementAssumption
  <1>4. PICK a, b \in Monitors : a < b /\ layout.useful = {a, b}
    BY <1>2, PairFacts
  <1>5. a # b
    BY <1>4 DEF Monitors
  <1>6. PICK n \in Monitors : n # drag /\ layout.useful = {drag, n}
    <2>1. CASE drag = a
      BY <1>4, <1>5, <2>1
    <2>2. CASE drag = b
      BY <1>4, <1>5, <2>2
    <2> QED BY <1>2, <1>4, <2>1, <2>2
  <1>7. k \in LayoutType /\ k.useful = {drag, n} /\ k.size = layout.size /\ Large(k)
    <2>1. k \in LayoutType /\ k.useful = layout.useful /\ k.size = layout.size
      BY <1>2, <1>3, MovedFacts
    <2> HIDE DEF k
    <2> QED BY <1>2, <1>6, <2>1 DEF Large
  <1>8. reach \in Reaches /\ reach.free /\ reach.zoom = Zoom
    BY Parameters DEF Dragged, Reaches
  <1>9. Close(k, drag, n, Zoom)
    BY <1>6 DEF SpotsAreNear
  <1> HIDE DEF k, reach
  <1>10. Close(k, drag, n, reach.zoom)
    BY <1>8, <1>9
  <1> QED BY <1>1, <1>2, <1>6, <1>7, <1>8, <1>10, SnappedPairIsGood

\* "To prevent detachment": while the user drags one of two monitors without limit, it stays
\* attached to the other, as long as the pointer does not go farther than distances count.
THEOREM PairStaysAttachedHolds ==
    ASSUME LargeMonitors
    PROVE  Spec /\ []SpotsAreNear => PairStaysAttached
  <1> DEFINE Kept == /\ unlimited /\ drag # None /\ drag' = drag
                     /\ Cardinality(layout.useful) = 2
                     => Good(layout')
  <1>1. ASSUME DrawingInv, SpotsAreNear, [Next]_vars
        PROVE  [Kept]_vars
    <2>1. ASSUME unlimited, drag # None, drag' = drag, Cardinality(layout.useful) = 2, Next
          PROVE  Good(layout')
      <3>1. ASSUME NEW m \in Monitors, Pressed(m) \/ Switched(m) PROVE FALSE
        BY <2>1, <3>1 DEF Pressed, Switched
      <3>2. ASSUME NEW m \in Monitors, NEW size \in Sizes[m], Resized(m, size) PROVE FALSE
        BY <2>1, <3>2 DEF Resized
      <3>3. ASSUME NEW to \in Spots, Motion(to) PROVE Good(layout')
        BY <1>1, <2>1, <3>3, LargeMonitors, MotionAttaches
      <3>4. CASE Released
        BY <2>1, <3>4 DEF Released
      <3>5. ASSUME NEW l \in Layouts, SetConfig(l) PROVE FALSE
        BY <2>1, <3>5 DEF SetConfig
      <3> QED BY <2>1, <3>1, <3>2, <3>3, <3>4, <3>5 DEF Next
    <2> QED BY <1>1, <2>1
  <1> QED BY <1>1, DrawingInvHolds, PTL DEF Spec, PairStaysAttached

\* To snap two monitors after a change of their settings attaches them, in every state in
\* which they are near enough for distances to count (cc_display_config_snap_outputs).
THEOREM SettlingAttaches ==
    ASSUME LargeMonitors, Far > 0
    PROVE  Spec => [](Cardinality(layout.useful) = 2 /\ PairIsClose(layout, 1)
                        => Good(SnapOutputs(layout)))
  <1>1. DrawingInv => (Cardinality(layout.useful) = 2 /\ PairIsClose(layout, 1)
                        => Good(SnapOutputs(layout)))
    BY SnapOutputsAttaches, TypedLayout DEF DrawingInv
  <1> QED BY <1>1, DrawingInvHolds, PTL

\* What a change of the settings leaves of two monitors is attached, the next change moves
\* nothing, and two that were attached before are moved no farther than the small distance
\* of snapping (cc_display_config_snap_outputs): for monitors of any sizes that are longer
\* than what they share of an edge and that distance, wherever the drags have left them
\* near enough for distances to count.
THEOREM PairSettlesHolds ==
    ASSUME RoomyMonitors, Far > 0, MinorSnap < MinOverlap
    PROVE  Spec /\ []PairsAreNear => []PairSettles
  <1>1. ASSUME DrawingInv, PairsAreNear
        PROVE  PairSettles
    <2>1. layout \in LayoutType /\ Roomy(layout) /\ Large(layout)
      BY <1>1, RoomyMonitors, TypedLayout, RoomyIsLarge DEF DrawingInv
    <2> SUFFICES ASSUME Cardinality(layout.useful) = 2
                 PROVE  LET settled == SnapOutputs(layout)
                        IN  /\ Good(settled)
                            /\ SnapOutputs(settled) = settled
                            /\ Good(layout) => \A m \in layout.useful, a \in Axes :
                                AbsDiff(layout.pos[m][a], settled.pos[m][a]) <= MinorSnap
      BY DEF PairSettles
    <2>2. PairIsClose(layout, 1)
      BY <1>1 DEF PairsAreNear
    <2>3. Good(SnapOutputs(layout))
      BY <2>1, <2>2, SnapOutputsAttaches
    <2> QED BY <2>1, <2>2, <2>3, PairComesToRest
  <1> QED BY <1>1, DrawingInvHolds, PTL

==============================================================================
