------------------------ MODULE CcDisplayConfigProofs ------------------------
(***************************************************************************)
(* The display configuration library, for any number of monitors, modes    *)
(* and positions: the flags of the logical monitors and the primary monitor *)
(* agree, the library does what DisplayLayout says, and monitors that stop *)
(* mirroring each other are placed side by side.                           *)
(*                                                                         *)
(* Every change of what is on, what mirrors what and which is the primary  *)
(* is a sequence of calls of SetLogicalMonitor, so the argument is about   *)
(* that operator (MoveFacts) and then about sequences of it (Moved).  What *)
(* the loop that places them keeps is Row.                                 *)
(***************************************************************************)
EXTENDS CcDisplayConfig, FiniteSetTheorems, WellFoundedInduction, TLAPS

Shape(c) ==
    /\ c = [lm |-> c.lm, mode |-> c.mode, flag |-> c.flag, x |-> c.x, primary |-> c.primary]
    /\ c.lm \in [Monitors -> LogicalMonitors \cup {None}]
    /\ c.flag \in [LogicalMonitors -> BOOLEAN]
    /\ c.primary \in Monitors \cup {None}

\* The flag is set on the logical monitor of the primary and on no other, not even
\* on one that is out of use: an object that is created later is not marked.
FlagOfPrimary(c) ==
    \A i \in LogicalMonitors : c.flag[i] <=> c.primary # None /\ c.lm[c.primary] = i

Good(c) ==
    /\ Shape(c)
    /\ FlagOfPrimary(c)
    /\ c.primary # None => c.lm[c.primary] # None
    /\ c.primary = None => \A m \in Monitors : c.lm[m] = None

First(S) == CHOOSE m \in S : \A n \in S : m <= n

------------------------------------------------------------------------------
(* Monitors and logical monitors *)

LEMMA Numbers ==
    /\ Monitors \subseteq Nat /\ None \notin Monitors
    /\ LogicalMonitors \subseteq Nat /\ None \notin LogicalMonitors
  BY NMonitorsAssumption DEF Monitors, LogicalMonitors, None

LEMMA LeastNumber ==
    ASSUME NEW S \in SUBSET Nat, S # {}
    PROVE  \E m \in S : \A n \in S : m <= n
<1>1. \E m \in S : \A n \in S : ~ (<<n, m>> \in OpToRel(<, Nat))
  BY NatLessThanWellFounded, WFMin
<1>2. \A m, n \in Nat : ~ (<<n, m>> \in OpToRel(<, Nat)) => m <= n
  BY DEF OpToRel
<1> QED BY <1>1, <1>2

LEMMA FirstIsLeast ==
    ASSUME NEW S \in SUBSET Monitors, S # {}
    PROVE  First(S) \in S /\ \A n \in S : First(S) <= n
<1>1. \E m \in S : \A n \in S : m <= n
  BY Numbers, LeastNumber
<1> QED BY <1>1 DEF First

\* There is always a logical monitor that is not in use: they are one more than
\* the monitors.
LEMMA FreshIsUnused ==
    ASSUME NEW c, c.lm \in [Monitors -> LogicalMonitors \cup {None}]
    PROVE  /\ Fresh(c) \in LogicalMonitors
           /\ \A m \in Monitors : c.lm[m] # Fresh(c)
<1> DEFINE T == {c.lm[m] : m \in Monitors}
<1>1. IsFiniteSet(Monitors) /\ Cardinality(Monitors) = NMonitors
  BY NMonitorsAssumption, FS_Interval DEF Monitors
<1>2. c.lm \in Surjection(Monitors, T)
  BY DEF Surjection
<1>3. IsFiniteSet(T) /\ Cardinality(T) <= NMonitors
  <2> HIDE DEF T
  <2> QED BY <1>1, <1>2, FS_Surjection
<1>4. IsFiniteSet(LogicalMonitors) /\ Cardinality(LogicalMonitors) = NMonitors + 1
  BY NMonitorsAssumption, FS_Interval DEF LogicalMonitors
<1>5. ~ (LogicalMonitors \subseteq T)
  <2> HIDE DEF T
  <2>1. ASSUME LogicalMonitors \in SUBSET T PROVE FALSE
    <3>1. Cardinality(LogicalMonitors) <= Cardinality(T)
      BY <2>1, <1>3, FS_Subset
    <3>2. Cardinality(T) \in Nat
      BY <1>3, FS_CardinalityType
    <3> QED BY <3>1, <3>2, <1>3, <1>4, NMonitorsAssumption
  <2> QED BY <2>1
<1>6. PICK i \in LogicalMonitors : i \notin T
  BY <1>5
<1>7. i \notin Registered(c)
  BY <1>6 DEF Registered, Members
<1>8. Fresh(c) \in LogicalMonitors /\ Fresh(c) \notin Registered(c)
  BY <1>6, <1>7 DEF Fresh
<1> QED BY <1>8 DEF Registered, Members

------------------------------------------------------------------------------
(* The operators *)

\* Only lm, flag and primary matter to a good configuration.
LEMMA ModesAndPositions ==
    ASSUME NEW c, Good(c), NEW mode, NEW x,
           NEW d, d = [lm |-> c.lm, mode |-> mode, flag |-> c.flag, x |-> x,
                       primary |-> c.primary]
    PROVE  Good(d) /\ LayoutOf(d) = LayoutOf(c)
<1>1. d.lm = c.lm /\ d.flag = c.flag /\ d.primary = c.primary
      /\ d.mode = mode /\ d.x = x
  OBVIOUS
<1>2. Good(d)
  BY <1>1 DEF Good, Shape, FlagOfPrimary
<1>3. \A i \in LogicalMonitors : Members(d, i) = Members(c, i)
  BY <1>1 DEF Members
<1>4. Registered(d) = Registered(c)
  BY <1>3 DEF Registered
<1> QED BY <1>1, <1>2, <1>3, <1>4 DEF LayoutOf, Registered

\* The monitor that is made the primary is, if it is on, and no other logical
\* monitor stays marked.
LEMMA SetPrimaryFacts ==
    ASSUME NEW c, Shape(c), FlagOfPrimary(c), NEW m \in Monitors
    PROVE  LET d == SetPrimary(c, m)
           IN  /\ Shape(d) /\ FlagOfPrimary(d)
               /\ d.lm = c.lm /\ d.mode = c.mode /\ d.x = c.x
               /\ d.primary = IF c.lm[m] = None THEN c.primary ELSE m
<1>1. CASE c.primary = m \/ c.lm[m] = None
  BY <1>1 DEF SetPrimary
<1>2. CASE c.primary # m /\ c.lm[m] # None
  <2> DEFINE old == IF c.primary = None THEN None ELSE c.lm[c.primary]
             flag == [i \in LogicalMonitors |-> i = c.lm[m] \/ (i # old /\ c.flag[i])]
             d == SetPrimary(c, m)
  <2>1. d = [c EXCEPT !.primary = m, !.flag = flag]
    BY <1>2 DEF SetPrimary
  <2>2. d = [lm |-> c.lm, mode |-> c.mode, flag |-> flag, x |-> c.x, primary |-> m]
    BY <2>1 DEF Shape
  <2>3. \A i \in LogicalMonitors : flag[i] <=> i = c.lm[m]
    BY DEF FlagOfPrimary
  <2>4. flag \in [LogicalMonitors -> BOOLEAN]
    BY DEF FlagOfPrimary
  <2> HIDE DEF d, flag
  <2>5. Shape(d)
    BY <2>2, <2>4 DEF Shape
  <2>6. FlagOfPrimary(d)
    BY <2>2, <2>3, Numbers DEF FlagOfPrimary
  <2> QED BY <1>2, <2>2, <2>5, <2>6 DEF d
<1> QED BY <1>1, <1>2

\* What moving monitor m to logical monitor i makes the primary.
Heir(c, m, i) ==
    LET others == ActiveMonitors(c) \ {m}
    IN  IF i # None
        THEN IF c.primary = None \/ c.lm[c.primary] = c.lm[m] THEN m ELSE c.primary
        ELSE IF c.primary # m THEN c.primary
        ELSE IF others = {} THEN None ELSE First(others)

\* The old logical monitor of m when m is the only one there: it is freed.
Freed(c, old) ==
    IF ~ (old \in LogicalMonitors \ Registered(c)) THEN c
    ELSE [c EXCEPT !.flag[old] = FALSE, !.x[old] = 0]

LEMMA FreedFacts ==
    ASSUME NEW c, Shape(c), NEW old
    PROVE  LET d == Freed(c, old)
           IN  /\ Shape(d) /\ d.lm = c.lm /\ d.primary = c.primary
               /\ \A i \in LogicalMonitors :
                    d.flag[i] <=> c.flag[i] /\ (i = old => i \in Registered(c))
<1>1. CASE ~ (old \in LogicalMonitors \ Registered(c))
  BY <1>1 DEF Freed
<1>2. CASE old \in LogicalMonitors \ Registered(c)
  <2> DEFINE d == Freed(c, old)
             flag == [c.flag EXCEPT ![old] = FALSE]
             x == [c.x EXCEPT ![old] = 0]
  <2>1. d = [lm |-> c.lm, mode |-> c.mode, flag |-> flag, x |-> x, primary |-> c.primary]
    BY <1>2 DEF Freed, Shape
  <2>2. flag \in [LogicalMonitors -> BOOLEAN]
    BY DEF Shape
  <2>3. \A i \in LogicalMonitors : flag[i] <=> c.flag[i] /\ i # old
    BY <1>2 DEF Shape
  <2> HIDE DEF d, flag, x
  <2>4. Shape(d)
    BY <2>1, <2>2 DEF Shape
  <2> QED BY <1>2, <2>1, <2>3, <2>4 DEF d
<1> QED BY <1>1, <1>2

\* Monitor m at logical monitor i.
Placed(c, m, i) == [c EXCEPT !.lm[m] = i]

LEMMA PlacedFacts ==
    ASSUME NEW c, Shape(c), NEW m \in Monitors, NEW i \in LogicalMonitors \cup {None}
    PROVE  LET d == Placed(c, m, i)
           IN  /\ Shape(d) /\ d.lm = [c.lm EXCEPT ![m] = i]
               /\ d.primary = c.primary /\ d.flag = c.flag
<1> DEFINE d == Placed(c, m, i)
           lm == [c.lm EXCEPT ![m] = i]
<1>1. d = [lm |-> lm, mode |-> c.mode, flag |-> c.flag, x |-> c.x, primary |-> c.primary]
  BY DEF Placed, Shape
<1>2. lm \in [Monitors -> LogicalMonitors \cup {None}]
  BY DEF Shape
<1> HIDE DEF d, lm
<1>3. Shape(d)
  BY <1>1, <1>2 DEF Shape
<1> QED BY <1>1, <1>3 DEF d, lm

\* SetLogicalMonitor in terms of these steps.
LEMMA MoveSteps ==
    ASSUME NEW c, NEW m, NEW i
    PROVE  SetLogicalMonitor(c, m, i) =
             LET was == c.lm[m] # None /\ c.flag[c.lm[m]]
                 b   == IF was THEN UnsetPrimary(c, m) ELSE c
                 d   == Freed(Placed(b, m, i), c.lm[m])
             IN  CASE i = None         -> d
                   [] i # None /\ was  -> SetPrimary(d, m)
                   [] i # None /\ ~was -> UnsetPrimary(d, None)
  BY DEF SetLogicalMonitor, Freed, Placed

LEMMA UnsetPrimaryFacts ==
    ASSUME NEW c, Good(c), NEW m \in Monitors
    PROVE  LET b      == UnsetPrimary(c, m)
               others == ActiveMonitors(c) \ {m}
           IN  /\ Shape(b) /\ b.lm = c.lm /\ b.primary = Heir(c, m, None)
               /\ c.primary # m \/ others # {} => FlagOfPrimary(b)
               /\ c.primary = m /\ others = {} => b.flag = c.flag
<1> DEFINE b == UnsetPrimary(c, m)
           others == ActiveMonitors(c) \ {m}
<1>1. CASE c.primary # m
  BY <1>1 DEF Good, UnsetPrimary, Heir
<1>2. CASE c.primary = m /\ others = {}
  <2>1. b = [c EXCEPT !.primary = None]
    BY <1>2 DEF UnsetPrimary
  <2>2. b = [lm |-> c.lm, mode |-> c.mode, flag |-> c.flag, x |-> c.x, primary |-> None]
    BY <2>1 DEF Good, Shape
  <2> HIDE DEF b
  <2>3. Shape(b)
    BY <2>2 DEF Good, Shape
  <2> QED BY <1>2, <2>2, <2>3 DEF b, Heir
<1>3. CASE c.primary = m /\ others # {}
  <2>1. others \in SUBSET Monitors
    BY DEF ActiveMonitors
  <2>2. First(others) \in others
    BY <1>3, <2>1, FirstIsLeast
  <2>3. b = SetPrimary(c, First(others))
    BY <1>3 DEF UnsetPrimary, First
  <2>4. First(others) \in Monitors /\ c.lm[First(others)] # None
    BY <2>2 DEF ActiveMonitors
  <2>5. Heir(c, m, None) = First(others)
    BY <1>3 DEF Heir
  <2> HIDE DEF b, others
  <2>6. /\ Shape(b) /\ FlagOfPrimary(b) /\ b.lm = c.lm /\ b.primary = First(others)
    BY <2>3, <2>4, SetPrimaryFacts DEF Good
  <2> QED BY <1>3, <2>5, <2>6 DEF b, others
<1> QED BY <1>1, <1>2, <1>3

\* A monitor that leaves the primary's logical monitor.
LEMMA LeavingPrimary ==
    ASSUME NEW c, Good(c), NEW m \in Monitors, c.lm[m] # None, c.flag[c.lm[m]],
           NEW i \in LogicalMonitors \cup {None}, i # c.lm[m]
    PROVE  LET d == Freed(Placed(UnsetPrimary(c, m), m, i), c.lm[m])
           IN  /\ Shape(d) /\ FlagOfPrimary(d) /\ d.lm = [c.lm EXCEPT ![m] = i]
               /\ d.primary = Heir(c, m, None) /\ d.primary # m
               /\ c.primary # None /\ c.lm[c.primary] = c.lm[m]
<1> DEFINE b == UnsetPrimary(c, m)
           p == Placed(b, m, i)
           d == Freed(p, c.lm[m])
           others == ActiveMonitors(c) \ {m}
<1>1. c.lm[m] \in LogicalMonitors
  BY DEF Good, Shape
<1>2. c.primary # None /\ c.lm[c.primary] = c.lm[m] /\ c.primary \in Monitors
  BY <1>1 DEF Good, Shape, FlagOfPrimary
<1>3. /\ Shape(b) /\ b.lm = c.lm /\ b.primary = Heir(c, m, None)
      /\ c.primary # m \/ others # {} => FlagOfPrimary(b)
      /\ c.primary = m /\ others = {} => b.flag = c.flag
  BY UnsetPrimaryFacts
<1> HIDE DEF b
<1>4. /\ Shape(p) /\ p.lm = [c.lm EXCEPT ![m] = i] /\ p.primary = b.primary
      /\ p.flag = b.flag
  BY <1>3, PlacedFacts
<1> HIDE DEF p
<1>5. /\ Shape(d) /\ d.lm = p.lm /\ d.primary = p.primary
      /\ \A j \in LogicalMonitors :
            d.flag[j] <=> p.flag[j] /\ (j = c.lm[m] => j \in Registered(p))
  BY <1>4, FreedFacts
<1> HIDE DEF d
<1>6. /\ \A n \in Monitors \ {m} : d.lm[n] = c.lm[n] /\ p.lm[n] = c.lm[n]
      /\ d.lm[m] = i /\ p.lm[m] = i
  BY <1>4, <1>5 DEF Good, Shape
<1>7. CASE c.primary = m /\ others = {}
  <2>1. \A n \in Monitors \ {m} : c.lm[n] = None
    BY <1>7 DEF ActiveMonitors
  <2>2. c.lm[m] \notin Registered(p)
    BY <1>1, <1>6, <2>1, Numbers DEF Registered, Members
  <2>3. \A j \in LogicalMonitors : ~ d.flag[j]
    BY <1>2, <1>3, <1>4, <1>5, <1>7, <2>2 DEF Good, FlagOfPrimary
  <2>4. d.primary = None
    BY <1>3, <1>4, <1>5, <1>7 DEF Heir
  <2> QED BY <1>2, <1>3, <1>4, <1>5, <2>3, <2>4, Numbers DEF FlagOfPrimary, b, p, d
<1>8. CASE c.primary # m \/ others # {}
  <2>1. /\ b.primary \in Monitors /\ b.primary # m /\ b.primary # None
    <3>1. CASE c.primary # m
      BY <1>2, <1>3, <3>1, Numbers DEF Heir
    <3>2. CASE c.primary = m /\ others # {}
      <4>1. others \in SUBSET Monitors
        BY DEF ActiveMonitors
      <4>2. First(others) \in others
        BY <3>2, <4>1, FirstIsLeast
      <4>3. b.primary = First(others)
        BY <1>3, <3>2 DEF Heir
      <4> QED BY <4>1, <4>2, <4>3, Numbers
    <3> QED BY <1>8, <3>1, <3>2
  <2>2. d.primary = b.primary /\ d.lm[b.primary] = c.lm[b.primary]
        /\ p.lm[b.primary] = c.lm[b.primary]
    BY <1>4, <1>5, <1>6, <2>1
  <2>3. \A j \in LogicalMonitors : p.flag[j] <=> c.lm[b.primary] = j
    BY <1>3, <1>4, <1>8, <2>1 DEF FlagOfPrimary
  <2>4. \A j \in LogicalMonitors : c.lm[b.primary] = j => j \in Registered(p)
    BY <2>1, <2>2 DEF Registered, Members
  <2>5. FlagOfPrimary(d)
    BY <1>5, <2>1, <2>2, <2>3, <2>4 DEF FlagOfPrimary
  <2> QED BY <1>2, <1>3, <1>4, <1>5, <2>1, <2>2, <2>5 DEF b, p, d
<1> QED BY <1>7, <1>8

\* A monitor that leaves another logical monitor than the primary's, or none.
LEMMA LeavingOther ==
    ASSUME NEW c, Good(c), NEW m \in Monitors, ~ (c.lm[m] # None /\ c.flag[c.lm[m]]),
           NEW i \in LogicalMonitors \cup {None}
    PROVE  LET d == Freed(Placed(c, m, i), c.lm[m])
           IN  /\ Shape(d) /\ FlagOfPrimary(d) /\ d.lm = [c.lm EXCEPT ![m] = i]
               /\ d.primary = c.primary /\ c.primary # m
               /\ c.primary # None => c.lm[c.primary] # c.lm[m]
<1> DEFINE p == Placed(c, m, i)
           d == Freed(p, c.lm[m])
<1>1. c.primary # None => c.primary \in Monitors /\ c.lm[c.primary] \in LogicalMonitors
  BY DEF Good, Shape
<1>2. c.primary # None => c.lm[c.primary] # c.lm[m] /\ c.primary # m
  BY <1>1, Numbers DEF Good, FlagOfPrimary
<1>3. /\ Shape(p) /\ p.lm = [c.lm EXCEPT ![m] = i] /\ p.primary = c.primary
      /\ p.flag = c.flag
  BY PlacedFacts DEF Good
<1> HIDE DEF p
<1>4. /\ Shape(d) /\ d.lm = p.lm /\ d.primary = p.primary
      /\ \A j \in LogicalMonitors :
            d.flag[j] <=> p.flag[j] /\ (j = c.lm[m] => j \in Registered(p))
  BY <1>3, FreedFacts
<1> HIDE DEF d
<1>5. \A j \in LogicalMonitors : d.flag[j] <=> c.flag[j]
  BY <1>3, <1>4, Numbers
<1>6. c.primary # None => d.lm[c.primary] = c.lm[c.primary]
  BY <1>1, <1>2, <1>3, <1>4 DEF Good, Shape
<1>7. FlagOfPrimary(d)
  BY <1>3, <1>4, <1>5, <1>6 DEF Good, FlagOfPrimary
<1>8. c.primary # m
  BY <1>2, Numbers
<1> QED BY <1>2, <1>3, <1>4, <1>7, <1>8 DEF d, p

\* A move keeps the two records of the primary in agreement, and passes the role on
\* as Heir says.
LEMMA MoveFacts ==
    ASSUME NEW c, Good(c), NEW m \in Monitors, NEW i \in LogicalMonitors \cup {None},
           i = None \/ i # c.lm[m]
    PROVE  LET q == SetLogicalMonitor(c, m, i)
           IN  Good(q) /\ q.lm = [c.lm EXCEPT ![m] = i] /\ q.primary = Heir(c, m, i)
<1> DEFINE q   == SetLogicalMonitor(c, m, i)
           was == c.lm[m] # None /\ c.flag[c.lm[m]]
           others == ActiveMonitors(c) \ {m}
<1>0. /\ \A n \in Monitors \ {m} : [c.lm EXCEPT ![m] = i][n] = c.lm[n]
      /\ [c.lm EXCEPT ![m] = i][m] = i
      /\ c.primary \in Monitors \cup {None} /\ None \notin Monitors
  BY Numbers DEF Good, Shape
<1>1. CASE was
  <2> DEFINE d == Freed(Placed(UnsetPrimary(c, m), m, i), c.lm[m])
  <2>1. q = IF i = None THEN d ELSE SetPrimary(d, m)
    BY <1>1, MoveSteps
  <2>2. /\ Shape(d) /\ FlagOfPrimary(d) /\ d.lm = [c.lm EXCEPT ![m] = i]
        /\ d.primary = Heir(c, m, None) /\ d.primary # m
        /\ c.primary # None /\ c.lm[c.primary] = c.lm[m]
    <3>1. i # c.lm[m]
      BY <1>1
    <3> QED BY <1>1, <3>1, LeavingPrimary
  <2> HIDE DEF d, q
  <2>3. CASE i = None
    <3>1. d.primary \in Monitors \cup {None}
      BY <2>2 DEF Shape
    <3>2. others \in SUBSET Monitors
      BY DEF ActiveMonitors
    <3>3. d.primary # None => d.lm[d.primary] # None
      <4>1. CASE c.primary # m
        BY <4>1, <2>2, <1>0 DEF Heir, Good
      <4>2. CASE c.primary = m /\ others = {}
        BY <4>2, <2>2, <2>3 DEF Heir
      <4>3. CASE c.primary = m /\ others # {}
        <5>1. First(others) \in others
          BY <3>2, <4>3, FirstIsLeast
        <5>2. d.primary = First(others)
          BY <2>2, <4>3 DEF Heir
        <5> QED BY <5>1, <5>2, <2>2, <1>0 DEF ActiveMonitors
      <4> QED BY <4>1, <4>2, <4>3
    <3>4. d.primary = None => \A n \in Monitors : d.lm[n] = None
      <4> SUFFICES ASSUME d.primary = None PROVE \A n \in Monitors : d.lm[n] = None
        OBVIOUS
      <4>1. c.primary = m
        BY <2>2 DEF Heir
      <4>2. others = {}
        <5>1. others # {} => First(others) \in others
          BY <3>2, FirstIsLeast
        <5>2. others # {} => d.primary = First(others)
          BY <2>2, <4>1 DEF Heir
        <5> QED BY <5>1, <5>2, <1>0, <3>2
      <4> QED BY <4>2, <1>0, <2>2, <2>3 DEF ActiveMonitors
    <3>5. Good(d)
      BY <2>2, <3>3, <3>4 DEF Good
    <3> QED BY <2>1, <2>2, <2>3, <3>5 DEF q
  <2>4. CASE i # None
    <3>1. d.lm[m] # None
      BY <1>0, <2>2, <2>4
    <3>2. /\ Shape(q) /\ FlagOfPrimary(q) /\ q.lm = d.lm /\ q.primary = m
      BY <2>1, <2>2, <2>4, <3>1, SetPrimaryFacts
    <3>3. Good(q)
      BY <3>1, <3>2, <1>0 DEF Good
    <3>4. Heir(c, m, i) = m
      BY <2>2, <2>4 DEF Heir
    <3> QED BY <2>2, <3>2, <3>3, <3>4 DEF q
  <2> QED BY <2>3, <2>4
<1>2. CASE ~was
  <2> DEFINE d == Freed(Placed(c, m, i), c.lm[m])
  <2>1. q = IF i = None THEN d ELSE UnsetPrimary(d, None)
    BY <1>2, MoveSteps
  <2>2. /\ Shape(d) /\ FlagOfPrimary(d) /\ d.lm = [c.lm EXCEPT ![m] = i]
        /\ d.primary = c.primary /\ c.primary # m
        /\ c.primary # None => c.lm[c.primary] # c.lm[m]
    BY <1>2, LeavingOther
  <2> HIDE DEF d, q
  <2>3. d.primary # None => d.lm[d.primary] # None
    BY <1>0, <2>2 DEF Good
  <2>4. CASE i = None
    <3>1. d.primary = None => \A n \in Monitors : d.lm[n] = None
      BY <1>0, <2>2, <2>4 DEF Good
    <3> QED BY <2>1, <2>2, <2>3, <2>4, <3>1 DEF q, Good, Heir
  <2>5. CASE i # None /\ c.primary # None
    <3>1. q = d
      BY <2>1, <2>2, <2>5 DEF UnsetPrimary
    <3>2. Good(d)
      BY <2>2, <2>3, <2>5 DEF Good
    <3> QED BY <2>2, <2>5, <3>1, <3>2 DEF q, Heir
  <2>6. CASE i # None /\ c.primary = None
    <3>1. \A n \in Monitors \ {m} : d.lm[n] = None
      BY <1>0, <2>2, <2>6 DEF Good
    <3>2. ActiveMonitors(d) \ {None} = {m}
      BY <1>0, <2>2, <2>6, <3>1 DEF ActiveMonitors
    <3>3. m <= m
      BY Numbers
    <3>4. q = SetPrimary(d, m)
      BY <2>1, <2>2, <2>6, <3>2, <3>3 DEF UnsetPrimary
    <3>5. /\ Shape(q) /\ FlagOfPrimary(q) /\ q.lm = d.lm /\ q.primary = m
      BY <1>0, <2>2, <2>6, <3>4, SetPrimaryFacts
    <3>6. Good(q)
      BY <1>0, <2>2, <2>6, <3>5 DEF Good
    <3> QED BY <2>2, <2>6, <3>5, <3>6 DEF q, Heir
  <2> QED BY <2>4, <2>5, <2>6
<1> QED BY <1>1, <1>2

------------------------------------------------------------------------------
(* Sequences of moves: all monitors, from the first to the last *)

\* The primary once every monitor has been moved: the first one of the monitors
\* that mirror the primary; the first of all if there was none.
Settled(c) ==
    IF c.primary = None THEN 1
    ELSE First({n \in Monitors : c.lm[n] = c.lm[c.primary]})

\* The first n monitors have been moved to logical monitors that the others do not
\* use; d is c after that.
Moved(c, d, n) ==
    /\ Good(d)
    /\ \A k \in Monitors : k > n => d.lm[k] = c.lm[k]
    /\ \A k \in Monitors : k <= n =>
            d.lm[k] # None /\ \A j \in Monitors : j > n => d.lm[j] # d.lm[k]
    /\ d.primary = IF n >= Settled(c) THEN Settled(c) ELSE c.primary

LEMMA SettledFacts ==
    ASSUME NEW c, Good(c)
    PROVE  /\ Settled(c) \in Nat /\ Settled(c) >= 1
           /\ Monitors # {} => Settled(c) \in Monitors
           /\ c.primary = None => Settled(c) = 1
           /\ c.primary # None =>
                /\ c.lm[Settled(c)] = c.lm[c.primary] /\ Settled(c) <= c.primary
                /\ \A k \in Monitors : c.lm[k] = c.lm[c.primary] => Settled(c) <= k
<1>1. CASE c.primary = None
  BY <1>1, NMonitorsAssumption DEF Settled, Monitors
<1>2. CASE c.primary # None
  <2> DEFINE S == {n \in Monitors : c.lm[n] = c.lm[c.primary]}
  <2>1. c.primary \in S
    BY <1>2 DEF Good, Shape
  <2>2. First(S) \in S /\ \A n \in S : First(S) <= n
    BY <2>1, FirstIsLeast
  <2>3. Settled(c) = First(S)
    BY <1>2 DEF Settled
  <2>4. S \subseteq Nat \ {0}
    BY NMonitorsAssumption DEF Monitors
  <2> QED BY <1>2, <2>1, <2>2, <2>3, <2>4
<1> QED BY <1>1, <1>2

LEMMA NothingMoved ==
    ASSUME NEW c, Good(c)
    PROVE  Moved(c, c, 0)
  BY SettledFacts, NMonitorsAssumption DEF Moved, Monitors

LEMMA MovedStep ==
    ASSUME NEW c, Good(c), NEW n \in Nat, n + 1 \in Monitors, NEW d, Moved(c, d, n),
           NEW i \in LogicalMonitors, \A j \in Monitors : j > n => d.lm[j] # i
    PROVE  LET q == SetLogicalMonitor(d, n + 1, i)
           IN  Moved(c, q, n + 1) /\ q.lm = [d.lm EXCEPT ![n + 1] = i]
<1> DEFINE q == SetLogicalMonitor(d, n + 1, i)
           s == Settled(c)
<1>0. /\ \A k \in Monitors : k > n => d.lm[k] = c.lm[k]
      /\ \A k \in Monitors : k <= n =>
            d.lm[k] # None /\ \A j \in Monitors : j > n => d.lm[j] # d.lm[k]
      /\ d.primary = IF n >= s THEN s ELSE c.primary
  BY DEF Moved
<1>1. Good(d) /\ i # None /\ i # d.lm[n + 1] /\ n + 1 > n
  BY Numbers DEF Moved
<1>2. Good(q) /\ q.lm = [d.lm EXCEPT ![n + 1] = i] /\ q.primary = Heir(d, n + 1, i)
  BY <1>1, MoveFacts
<1> HIDE DEF q
<1>3. /\ \A k \in Monitors \ {n + 1} : q.lm[k] = d.lm[k]
      /\ q.lm[n + 1] = i
  BY <1>1, <1>2 DEF Good, Shape
<1>4. \A k \in Monitors : k > n + 1 => q.lm[k] = c.lm[k]
  <2> SUFFICES ASSUME NEW k \in Monitors, k > n + 1 PROVE q.lm[k] = c.lm[k]
    OBVIOUS
  <2>1. k \in Nat /\ k # n + 1 /\ k > n
    BY Numbers
  <2> QED BY <1>0, <1>3, <2>1
<1>5. \A k \in Monitors : k <= n + 1 =>
            q.lm[k] # None /\ \A j \in Monitors : j > n + 1 => q.lm[j] # q.lm[k]
  BY <1>1, <1>3, Numbers DEF Moved
<1>6. q.primary = IF d.primary = None \/ d.lm[d.primary] = d.lm[n + 1]
                  THEN n + 1 ELSE d.primary
  BY <1>1, <1>2 DEF Heir
<1>7. q.primary = IF n + 1 >= s THEN s ELSE c.primary
  <2>1. /\ s \in Nat /\ s \in Monitors
        /\ c.primary = None => s = 1
        /\ c.primary # None =>
                /\ c.lm[s] = c.lm[c.primary] /\ s <= c.primary
                /\ \A k \in Monitors : c.lm[k] = c.lm[c.primary] => s <= k
    BY SettledFacts
  <2>2. c.primary \in Monitors \cup {None} /\ Monitors \subseteq Nat /\ None \notin Monitors
    BY Numbers DEF Good, Shape
  <2> HIDE DEF s
  <2>3. CASE n >= s
    <3>1. d.primary = s /\ s <= n
      BY <2>1, <2>3 DEF Moved, s
    <3>2. d.lm[n + 1] # d.lm[s]
      BY <1>1, <2>1, <3>1 DEF Moved
    <3> QED BY <1>6, <2>1, <2>2, <2>3, <3>1, <3>2
  <2>4. CASE n + 1 = s
    <3>0. ~ (n >= s) /\ n + 1 >= s
      <4>1. \A k \in Nat : n + 1 = k => ~ (n >= k) /\ n + 1 >= k
        OBVIOUS
      <4> QED BY <2>1, <2>4, <4>1
    <3>1. d.primary = c.primary
      BY <1>0, <3>0
    <3>2. c.primary # None => d.lm[d.primary] = c.lm[c.primary] /\ d.lm[n + 1] = c.lm[s]
      <4> SUFFICES ASSUME c.primary # None
                   PROVE  d.lm[d.primary] = c.lm[c.primary] /\ d.lm[n + 1] = c.lm[s]
        OBVIOUS
      <4>1. \A k, p \in Nat : n + 1 = k /\ k <= p => p > n /\ k > n
        OBVIOUS
      <4>2. c.primary \in Monitors /\ c.primary > n /\ s > n
        BY <2>1, <2>2, <2>4, <4>1
      <4>3. d.lm[c.primary] = c.lm[c.primary] /\ d.lm[s] = c.lm[s]
        BY <1>0, <2>1, <4>2
      <4> QED BY <2>4, <3>1, <4>3
    <3>3. q.primary = n + 1
      <4>1. CASE c.primary = None
        BY <1>6, <3>1, <4>1
      <4>2. CASE c.primary # None
        BY <1>6, <2>1, <3>2, <4>2
      <4> QED BY <4>1, <4>2
    <3>4. q.primary = s
      BY <2>4, <3>3
    <3> QED BY <3>0, <3>4
  <2>5. CASE n + 1 < s
    <3>1. c.primary # None /\ c.primary > n
      <4>1. c.primary # None
        BY <2>1, <2>5
      <4>2. \A k, p \in Nat : n + 1 < k /\ k <= p => p > n
        OBVIOUS
      <4> QED BY <2>1, <2>2, <2>5, <4>1, <4>2
    <3>2. d.primary = c.primary
      BY <2>1, <2>5 DEF Moved, s
    <3>3. d.lm[d.primary] = c.lm[c.primary] /\ d.lm[n + 1] = c.lm[n + 1]
      BY <1>1, <2>2, <3>1, <3>2 DEF Moved
    <3>4. c.lm[n + 1] # c.lm[c.primary]
      BY <2>1, <2>5, <3>1
    <3> QED BY <1>6, <2>1, <2>5, <3>1, <3>2, <3>3, <3>4
  <2> QED BY <2>1, <2>3, <2>4, <2>5
<1> QED BY <1>2, <1>4, <1>5, <1>7 DEF Moved, q

\* The loops have a result.
LEMMA MirroringSteps ==
    ASSUME NEW c
    PROVE  LET f == Mirroring(c)
           IN  /\ f[0] = c
               /\ \A n \in 1..NMonitors : f[n] = SetLogicalMonitor(f[n - 1], n, Fresh(c))
<1> DEFINE P(f, k) == f = [n \in 0..k |->
                        IF n = 0 THEN c ELSE SetLogicalMonitor(f[n - 1], n, Fresh(c))]
           Missing == {k \in Nat : ~ \E f : P(f, k)}
<1>1. \E f : P(f, 0)
  <2> DEFINE f == [n \in 0..0 |-> c]
  <2>1. P(f, 0)
    OBVIOUS
  <2> QED BY <2>1
<1>2. ASSUME NEW k \in Nat, \E f : P(f, k)
      PROVE  \E f : P(f, k + 1)
  <2>1. PICK f : P(f, k)
    BY <1>2
  <2> DEFINE g == [n \in 0..k + 1 |->
                    IF n <= k THEN f[n] ELSE SetLogicalMonitor(f[k], k + 1, Fresh(c))]
  <2>2. \A n \in 0..k + 1 : g[n] =
            IF n = 0 THEN c ELSE SetLogicalMonitor(g[n - 1], n, Fresh(c))
    BY <2>1
  <2>3. P(g, k + 1)
    BY <2>2
  <2> QED BY <2>3
<1>3. Missing = {}
  <2> HIDE DEF P
  <2> SUFFICES ASSUME Missing # {} PROVE FALSE
    OBVIOUS
  <2>1. PICK k \in Missing : \A j \in Missing : k <= j
    BY LeastNumber
  <2>2. k \in Nat /\ k # 0
    BY <1>1
  <2>3. k - 1 \in Nat /\ k - 1 \notin Missing /\ (k - 1) + 1 = k
    BY <2>1, <2>2
  <2> QED BY <1>2, <2>1, <2>3
<1>4. \E f : P(f, NMonitors)
  BY <1>3, NMonitorsAssumption
<1>5. P(Mirroring(c), NMonitors)
  BY <1>4, Zenon DEF Mirroring
<1> HIDE DEF P
<1>6. P(Mirroring(c), NMonitors) => Mirroring(c)[0] = c
  BY NMonitorsAssumption DEF P
<1>7. P(Mirroring(c), NMonitors) => \A n \in 1..NMonitors :
        Mirroring(c)[n] = SetLogicalMonitor(Mirroring(c)[n - 1], n, Fresh(c))
  BY NMonitorsAssumption DEF P
<1> QED BY <1>5, <1>6, <1>7

LEMMA SeparatingSteps ==
    ASSUME NEW c
    PROVE  LET f == Separating(c)
           IN  /\ f[0] = c
               /\ \A n \in 1..NMonitors : f[n] = SetLogicalMonitor(f[n - 1], n, Fresh(f[n - 1]))
<1> DEFINE P(f, k) == f = [n \in 0..k |->
                        IF n = 0 THEN c ELSE SetLogicalMonitor(f[n - 1], n, Fresh(f[n - 1]))]
           Missing == {k \in Nat : ~ \E f : P(f, k)}
<1>1. \E f : P(f, 0)
  <2> DEFINE f == [n \in 0..0 |-> c]
  <2>1. P(f, 0)
    OBVIOUS
  <2> QED BY <2>1
<1>2. ASSUME NEW k \in Nat, \E f : P(f, k)
      PROVE  \E f : P(f, k + 1)
  <2>1. PICK f : P(f, k)
    BY <1>2
  <2> DEFINE g == [n \in 0..k + 1 |->
                    IF n <= k THEN f[n] ELSE SetLogicalMonitor(f[k], k + 1, Fresh(f[k]))]
  <2>2. \A n \in 0..k + 1 : g[n] =
            IF n = 0 THEN c ELSE SetLogicalMonitor(g[n - 1], n, Fresh(g[n - 1]))
    BY <2>1
  <2>3. P(g, k + 1)
    BY <2>2
  <2> QED BY <2>3
<1>3. Missing = {}
  <2> HIDE DEF P
  <2> SUFFICES ASSUME Missing # {} PROVE FALSE
    OBVIOUS
  <2>1. PICK k \in Missing : \A j \in Missing : k <= j
    BY LeastNumber
  <2>2. k \in Nat /\ k # 0
    BY <1>1
  <2>3. k - 1 \in Nat /\ k - 1 \notin Missing /\ (k - 1) + 1 = k
    BY <2>1, <2>2
  <2> QED BY <1>2, <2>1, <2>3
<1>4. \E f : P(f, NMonitors)
  BY <1>3, NMonitorsAssumption
<1>5. P(Separating(c), NMonitors)
  BY <1>4, Zenon DEF Separating
<1> HIDE DEF P
<1>6. P(Separating(c), NMonitors) => Separating(c)[0] = c
  BY NMonitorsAssumption DEF P
<1>7. P(Separating(c), NMonitors) => \A n \in 1..NMonitors :
        Separating(c)[n] = SetLogicalMonitor(Separating(c)[n - 1], n,
                                             Fresh(Separating(c)[n - 1]))
  BY NMonitorsAssumption DEF P
<1> QED BY <1>5, <1>6, <1>7

LEMMA ReadingSteps ==
    ASSUME NEW state
    PROVE  LET f == Reading(state)
           IN  /\ f[0] = Blank
               /\ \A n \in 1..NMonitors : f[n] = Read(state, f[n - 1], n)
<1> DEFINE P(f, k) == f = [n \in 0..k |->
                        IF n = 0 THEN Blank ELSE Read(state, f[n - 1], n)]
           Missing == {k \in Nat : ~ \E f : P(f, k)}
<1>1. \E f : P(f, 0)
  <2> DEFINE f == [n \in 0..0 |-> Blank]
  <2>1. P(f, 0)
    OBVIOUS
  <2> QED BY <2>1
<1>2. ASSUME NEW k \in Nat, \E f : P(f, k)
      PROVE  \E f : P(f, k + 1)
  <2>1. PICK f : P(f, k)
    BY <1>2
  <2> DEFINE g == [n \in 0..k + 1 |->
                    IF n <= k THEN f[n] ELSE Read(state, f[k], k + 1)]
  <2>2. \A n \in 0..k + 1 : g[n] =
            IF n = 0 THEN Blank ELSE Read(state, g[n - 1], n)
    BY <2>1
  <2>3. P(g, k + 1)
    BY <2>2
  <2> QED BY <2>3
<1>3. Missing = {}
  <2> HIDE DEF P
  <2> SUFFICES ASSUME Missing # {} PROVE FALSE
    OBVIOUS
  <2>1. PICK k \in Missing : \A j \in Missing : k <= j
    BY LeastNumber
  <2>2. k \in Nat /\ k # 0
    BY <1>1
  <2>3. k - 1 \in Nat /\ k - 1 \notin Missing /\ (k - 1) + 1 = k
    BY <2>1, <2>2
  <2> QED BY <1>2, <2>1, <2>3
<1>4. \E f : P(f, NMonitors)
  BY <1>3, NMonitorsAssumption
<1>5. P(Reading(state), NMonitors)
  BY <1>4, Zenon DEF Reading
<1> HIDE DEF P
<1>6. P(Reading(state), NMonitors) => Reading(state)[0] = Blank
  BY NMonitorsAssumption DEF P
<1>7. P(Reading(state), NMonitors) => \A n \in 1..NMonitors :
        Reading(state)[n] = Read(state, Reading(state)[n - 1], n)
  BY NMonitorsAssumption DEF P
<1> QED BY <1>5, <1>6, <1>7

\* Every monitor shows the same.
LEMMA MirrorAllFacts ==
    ASSUME NEW c, Good(c)
    PROVE  /\ Moved(c, MirrorAll(c), NMonitors)
           /\ \A k \in Monitors : MirrorAll(c).lm[k] = Fresh(c)
<1> DEFINE f == Mirroring(c)
           i == Fresh(c)
           Here(n) == Moved(c, f[n], n) /\ \A k \in Monitors : k <= n => f[n].lm[k] = i
           Bad == {n \in Nat : n <= NMonitors /\ ~Here(n)}
<1>1. f[0] = c /\ \A n \in 1..NMonitors : f[n] = SetLogicalMonitor(f[n - 1], n, i)
  BY MirroringSteps
<1>2. i \in LogicalMonitors /\ \A m \in Monitors : c.lm[m] # i
  BY FreshIsUnused DEF Good, Shape
<1> HIDE DEF f, i
<1>3. Here(0)
  BY <1>1, NothingMoved, NMonitorsAssumption DEF Monitors
<1>4. ASSUME NEW n \in Nat, n + 1 <= NMonitors, Here(n)
      PROVE  Here(n + 1)
  <2>1. n + 1 \in Monitors /\ n + 1 \in 1..NMonitors /\ (n + 1) - 1 = n
    BY <1>4, NMonitorsAssumption DEF Monitors
  <2>2. f[n + 1] = SetLogicalMonitor(f[n], n + 1, i)
    BY <1>1, <2>1
  <2>3. \A j \in Monitors : j > n => f[n].lm[j] # i
    BY <1>2, <1>4 DEF Moved
  <2>4. Moved(c, f[n + 1], n + 1) /\ f[n + 1].lm = [f[n].lm EXCEPT ![n + 1] = i]
    <3>1. Moved(c, f[n], n)
      BY <1>4
    <3> QED BY <1>2, <2>1, <2>2, <2>3, <3>1, MovedStep
  <2>5. f[n].lm \in [Monitors -> LogicalMonitors \cup {None}]
    BY <1>4 DEF Moved, Good, Shape
  <2>6. ASSUME NEW k \in Monitors, k <= n + 1 PROVE f[n + 1].lm[k] = i
    <3>1. k = n + 1 \/ k <= n
      BY <2>6, Numbers
    <3> QED BY <1>4, <2>1, <2>4, <2>5, <3>1
  <2> QED BY <2>4, <2>6
<1>5. Bad = {}
  <2> HIDE DEF Here
  <2> SUFFICES ASSUME Bad # {} PROVE FALSE
    OBVIOUS
  <2>1. PICK k \in Bad : \A j \in Bad : k <= j
    BY LeastNumber
  <2>2. k \in Nat /\ k # 0 /\ k <= NMonitors
    BY <1>3
  <2>3. k - 1 \in Nat /\ k - 1 \notin Bad /\ (k - 1) + 1 = k /\ k - 1 <= NMonitors
    BY <2>1, <2>2, NMonitorsAssumption
  <2> QED BY <1>4, <2>1, <2>2, <2>3
<1>6. Here(NMonitors)
  BY <1>5, NMonitorsAssumption
<1>7. \A k \in Monitors : k <= NMonitors
  BY NMonitorsAssumption DEF Monitors
<1> QED BY <1>6, <1>7 DEF MirrorAll, f, i

\* Every monitor shows something else.
LEMMA SeparateFacts ==
    ASSUME NEW c, Good(c)
    PROVE  /\ Moved(c, Separate(c), NMonitors)
           /\ \A j, k \in Monitors : j # k => Separate(c).lm[j] # Separate(c).lm[k]
<1> DEFINE f == Separating(c)
           Here(n) == /\ Moved(c, f[n], n)
                      /\ \A j, k \in Monitors :
                            j <= n /\ k <= n /\ j # k => f[n].lm[j] # f[n].lm[k]
           Bad == {n \in Nat : n <= NMonitors /\ ~Here(n)}
<1>1. f[0] = c /\ \A n \in 1..NMonitors :
                        f[n] = SetLogicalMonitor(f[n - 1], n, Fresh(f[n - 1]))
  BY SeparatingSteps
<1> HIDE DEF f
<1>3. Here(0)
  BY <1>1, NothingMoved, NMonitorsAssumption DEF Monitors
<1>4. ASSUME NEW n \in Nat, n + 1 <= NMonitors, Here(n)
      PROVE  Here(n + 1)
  <2> DEFINE i == Fresh(f[n])
  <2>1. n + 1 \in Monitors /\ n + 1 \in 1..NMonitors /\ (n + 1) - 1 = n
    BY <1>4, NMonitorsAssumption DEF Monitors
  <2>2. f[n + 1] = SetLogicalMonitor(f[n], n + 1, i)
    BY <1>1, <2>1
  <2>3. f[n].lm \in [Monitors -> LogicalMonitors \cup {None}]
    BY <1>4 DEF Moved, Good, Shape
  <2>4. i \in LogicalMonitors /\ \A j \in Monitors : f[n].lm[j] # i
    BY <2>3, FreshIsUnused
  <2> HIDE DEF i
  <2>5. Moved(c, f[n + 1], n + 1) /\ f[n + 1].lm = [f[n].lm EXCEPT ![n + 1] = i]
    <3>1. Moved(c, f[n], n)
      BY <1>4
    <3> QED BY <2>1, <2>2, <2>4, <3>1, MovedStep
  <2>6. ASSUME NEW j \in Monitors, NEW k \in Monitors, j <= n + 1, k <= n + 1, j # k
        PROVE  f[n + 1].lm[j] # f[n + 1].lm[k]
    <3>1. /\ j = n + 1 \/ (j # n + 1 /\ j <= n)
          /\ k = n + 1 \/ (k # n + 1 /\ k <= n)
      BY <2>6, Numbers
    <3> QED BY <1>4, <2>1, <2>3, <2>4, <2>5, <2>6, <3>1
  <2> QED BY <2>5, <2>6
<1>5. Bad = {}
  <2> HIDE DEF Here
  <2> SUFFICES ASSUME Bad # {} PROVE FALSE
    OBVIOUS
  <2>1. PICK k \in Bad : \A j \in Bad : k <= j
    BY LeastNumber
  <2>2. k \in Nat /\ k # 0 /\ k <= NMonitors
    BY <1>3
  <2>3. k - 1 \in Nat /\ k - 1 \notin Bad /\ (k - 1) + 1 = k /\ k - 1 <= NMonitors
    BY <2>1, <2>2, NMonitorsAssumption
  <2> QED BY <1>4, <2>1, <2>2, <2>3
<1>6. Here(NMonitors)
  BY <1>5, NMonitorsAssumption
<1>7. \A k \in Monitors : k <= NMonitors
  BY NMonitorsAssumption DEF Monitors
<1> QED BY <1>6, <1>7 DEF Separate, f

------------------------------------------------------------------------------
(* A configuration as a layout *)

LEMMA Groups ==
    ASSUME NEW c, Good(c)
    PROVE  LET l == LayoutOf(c)
           IN  /\ l.monitors = Monitors /\ l.primary = c.primary
               /\ l.groups = {Members(c, i) : i \in Registered(c)}
               /\ \A m \in ActiveMonitors(c) : Members(c, c.lm[m]) \in l.groups
               /\ \A g \in l.groups : \E i \in Registered(c) : g = Members(c, i)
               /\ Layout!Active(l) = ActiveMonitors(c)
<1> DEFINE l == LayoutOf(c)
<1>1. /\ l.monitors = Monitors /\ l.primary = c.primary
      /\ l.groups = {Members(c, i) : i \in Registered(c)}
  BY DEF LayoutOf
<1> HIDE DEF l
<1>2. \A m \in ActiveMonitors(c) : c.lm[m] \in Registered(c) /\ m \in Members(c, c.lm[m])
  BY DEF Good, Shape, ActiveMonitors, Registered, Members
<1>3. \A i \in Registered(c) : Members(c, i) \subseteq ActiveMonitors(c)
  BY Numbers DEF ActiveMonitors, Registered, Members
<1>4. \A m \in ActiveMonitors(c) : Members(c, c.lm[m]) \in l.groups
  BY <1>1, <1>2
<1>5. Layout!Active(l) = ActiveMonitors(c)
  <2>1. \A m \in ActiveMonitors(c) : m \in UNION l.groups
    BY <1>2, <1>4
  <2>2. \A m \in UNION l.groups : m \in ActiveMonitors(c)
    BY <1>1, <1>3
  <2> QED BY <2>1, <2>2 DEF Layout!Active
<1> QED BY <1>1, <1>4, <1>5 DEF l

\* The group of a monitor that is on.
LEMMA GroupFacts ==
    ASSUME NEW c, Good(c), NEW m \in ActiveMonitors(c)
    PROVE  Layout!GroupOf(LayoutOf(c), m) = {n \in Monitors : c.lm[n] = c.lm[m]}
<1> DEFINE l == LayoutOf(c)
<1>1. /\ Members(c, c.lm[m]) \in l.groups
      /\ \A g \in l.groups : \E i \in Registered(c) : g = Members(c, i)
  BY Groups
<1> HIDE DEF l
<1>2. ASSUME NEW n \in Monitors, NEW g \in l.groups, {m, n} \subseteq g
      PROVE  c.lm[n] = c.lm[m]
  <2>1. PICK i \in Registered(c) : g = Members(c, i)
    BY <1>1
  <2> QED BY <1>2, <2>1 DEF Members
<1>3. ASSUME NEW n \in Monitors, c.lm[n] = c.lm[m]
      PROVE  {m, n} \subseteq Members(c, c.lm[m])
  BY <1>3 DEF Members, ActiveMonitors
<1> QED BY <1>1, <1>2, <1>3 DEF Layout!GroupOf, l

\* The instance of the abstract specification counts as this module does.
LEMMA SameCardinality == \A S : Layout!Cardinality(S) = Cardinality(S)
  BY Zenon DEF Layout!Cardinality, Cardinality

\* Two logical monitors in use have different members, so that there are as many
\* groups as logical monitors.
LEMMA CloningFacts ==
    ASSUME NEW c, Good(c)
    PROVE  Layout!IsCloning(LayoutOf(c)) <=> IsCloning(c)
<1> DEFINE l == LayoutOf(c)
<1>1. l.groups = {Members(c, i) : i \in Registered(c)}
      /\ Layout!Active(l) = ActiveMonitors(c)
  BY Groups
<1> HIDE DEF l
<1>2. IsFiniteSet(Registered(c))
  <2>1. IsFiniteSet(LogicalMonitors)
    BY NMonitorsAssumption, FS_Interval DEF LogicalMonitors
  <2>2. Registered(c) \in SUBSET LogicalMonitors
    BY DEF Registered
  <2> QED BY <2>1, <2>2, FS_Subset
<1>3. \A i, j \in Registered(c) : Members(c, i) = Members(c, j) => i = j
  BY DEF Registered, Members
<1> DEFINE f == [i \in Registered(c) |-> Members(c, i)]
<1>4. f \in Bijection(Registered(c), l.groups)
  <2>1. f \in [Registered(c) -> l.groups]
    BY <1>1
  <2>2. \A i, j \in Registered(c) : f[i] = f[j] => i = j
    BY <1>3
  <2>3. \A g \in l.groups : \E i \in Registered(c) : f[i] = g
    BY <1>1
  <2> HIDE DEF f
  <2> QED BY <2>1, <2>2, <2>3 DEF Bijection, Injection, IsInjective, Surjection
<1>5. Cardinality(l.groups) = Cardinality(Registered(c))
  BY <1>2, <1>4, FS_Bijection DEF ExistsBijection
<1> QED BY <1>1, <1>5, SameCardinality DEF Layout!IsCloning, IsCloning, l

LEMMA IsLayout ==
    ASSUME NEW c, Good(c)
    PROVE  LayoutOf(c) \in Layout!Layouts
<1> DEFINE l == LayoutOf(c)
<1>1. l = [monitors |-> Monitors, groups |-> l.groups, primary |-> c.primary]
  BY DEF LayoutOf
<1>2. /\ l.monitors = Monitors /\ l.primary = c.primary
      /\ \A m \in ActiveMonitors(c) : Members(c, c.lm[m]) \in l.groups
      /\ \A g \in l.groups : \E i \in Registered(c) : g = Members(c, i)
      /\ Layout!Active(l) = ActiveMonitors(c)
  BY Groups
<1> HIDE DEF l
<1>3. \A g \in l.groups : g \in SUBSET Monitors /\ g # {}
  BY <1>2 DEF Registered, Members
<1>4. \A g, h \in l.groups : g = h \/ g \cap h = {}
  BY <1>2 DEF Members
<1>5. c.primary \in Monitors \cup {Layout!None}
  BY DEF Good, Shape, None, Layout!None
<1>6. IF l.groups = {} THEN c.primary = Layout!None ELSE c.primary \in ActiveMonitors(c)
  <2>1. CASE c.primary = None
    <3>1. ActiveMonitors(c) = {}
      BY <2>1 DEF Good, ActiveMonitors
    <3>2. l.groups = {}
      BY <1>2, <1>3, <3>1 DEF Layout!Active
    <3> QED BY <2>1, <3>2 DEF None, Layout!None
  <2>2. CASE c.primary # None
    <3>1. c.primary \in ActiveMonitors(c)
      BY <2>2 DEF Good, Shape, ActiveMonitors
    <3> QED BY <1>2, <3>1
  <2> QED BY <2>1, <2>2
<1>7. ActiveMonitors(c) \subseteq Monitors
  BY DEF ActiveMonitors
<1>8. l \in [monitors : SUBSET Monitors, groups : SUBSET SUBSET Monitors,
             primary : Monitors \cup {Layout!None}]
  <2>1. l.groups \in SUBSET SUBSET Monitors
    BY <1>3
  <2> QED BY <1>1, <1>5, <2>1
<1> QED BY <1>2, <1>3, <1>4, <1>6, <1>7, <1>8 DEF Layout!Layouts, l

LEMMA SameFirst == \A S : Layout!First(S) = First(S)
  BY Zenon DEF Layout!First, First

LEMMA LayoutRecord ==
    ASSUME NEW c
    PROVE  LET l == LayoutOf(c)
           IN  l = [monitors |-> l.monitors, groups |-> l.groups, primary |-> l.primary]
  BY DEF LayoutOf

LEMMA SameLayout ==
    ASSUME NEW c, NEW d, LayoutOf(c).groups = LayoutOf(d).groups, c.primary = d.primary
    PROVE  LayoutOf(c) = LayoutOf(d)
  BY DEF LayoutOf

\* A monitor that is turned on gets a logical monitor of its own.
LEMMA TurnedOn ==
    ASSUME NEW c, Good(c), NEW m \in Monitors, c.lm[m] = None,
           NEW i \in LogicalMonitors, \A n \in Monitors : c.lm[n] # i,
           NEW q, Good(q), q.lm = [c.lm EXCEPT ![m] = i], q.primary = Heir(c, m, i)
    PROVE  LayoutOf(q) = Layout!Activate(LayoutOf(c), m)
<1> DEFINE l == LayoutOf(c)
           k == LayoutOf(q)
<1>1. /\ l.monitors = Monitors /\ l.primary = c.primary
      /\ l.groups = {Members(c, j) : j \in Registered(c)}
      /\ Layout!Active(l) = ActiveMonitors(c)
  BY Groups
<1>2. /\ k.monitors = Monitors /\ k.primary = q.primary
      /\ k.groups = {Members(q, j) : j \in Registered(q)}
  BY Groups
<1>3. /\ l = [monitors |-> l.monitors, groups |-> l.groups, primary |-> l.primary]
      /\ k = [monitors |-> k.monitors, groups |-> k.groups, primary |-> k.primary]
  BY LayoutRecord
<1> HIDE DEF l, k
<1>4. /\ \A n \in Monitors \ {m} : q.lm[n] = c.lm[n]
      /\ q.lm[m] = i
      /\ c.lm \in [Monitors -> LogicalMonitors \cup {None}]
  BY DEF Good, Shape
<1>5. Members(q, i) = {m}
  BY <1>4 DEF Members
<1>6. \A j \in LogicalMonitors \ {i} : Members(q, j) = Members(c, j)
  <2> SUFFICES ASSUME NEW j \in LogicalMonitors \ {i} PROVE Members(q, j) = Members(c, j)
    OBVIOUS
  <2>1. c.lm[m] # j /\ q.lm[m] # j
    BY <1>4, Numbers
  <2> QED BY <1>4, <2>1 DEF Members
<1>7. Registered(q) = Registered(c) \cup {i} /\ i \notin Registered(c)
  BY <1>5, <1>6 DEF Registered, Members
<1>8. k.groups = l.groups \cup {{m}}
  <2>1. \A g \in k.groups : g \in l.groups \cup {{m}}
    BY <1>1, <1>2, <1>5, <1>6, <1>7 DEF Registered
  <2>2. \A g \in l.groups : g \in k.groups
    BY <1>1, <1>2, <1>6, <1>7 DEF Registered
  <2>3. {m} \in k.groups
    BY <1>2, <1>5, <1>7
  <2> QED BY <2>1, <2>2, <2>3
<1>9. k.primary = IF l.primary = None THEN m ELSE l.primary
  <2>1. c.primary # None => c.lm[c.primary] # c.lm[m]
    BY DEF Good
  <2>2. i # None
    BY Numbers
  <2> QED BY <1>1, <1>2, <2>1, <2>2 DEF Heir
<1>10. m \notin Layout!Active(l)
  BY <1>1 DEF ActiveMonitors
<1>11. Layout!Activate(l, m) = [l EXCEPT !.groups = k.groups, !.primary = k.primary]
  BY <1>8, <1>9, <1>10 DEF Layout!Activate, None, Layout!None
<1> DEFINE new == Layout!Activate(l, m)
<1> HIDE DEF new
<1>12. new = [monitors |-> Monitors, groups |-> k.groups, primary |-> k.primary]
  <2>1. new = [l EXCEPT !.groups = k.groups, !.primary = k.primary]
    BY <1>11 DEF new
  <2> QED BY <1>1, <1>3, <2>1
<1>13. Layout!Activate(l, m) = k
  BY <1>2, <1>3, <1>12 DEF new
<1> QED BY <1>13 DEF l, k

\* A monitor that is turned off leaves its group.
LEMMA TurnedOff ==
    ASSUME NEW c, Good(c), NEW m \in Monitors,
           NEW q, Good(q), q.lm = [c.lm EXCEPT ![m] = None], q.primary = Heir(c, m, None)
    PROVE  LayoutOf(q) = Layout!Deactivate(LayoutOf(c), m)
<1> DEFINE l == LayoutOf(c)
           k == LayoutOf(q)
           on == ActiveMonitors(c) \ {m}
<1>1. /\ l.monitors = Monitors /\ l.primary = c.primary
      /\ l.groups = {Members(c, j) : j \in Registered(c)}
      /\ Layout!Active(l) = ActiveMonitors(c)
  BY Groups
<1>2. /\ k.monitors = Monitors /\ k.primary = q.primary
      /\ k.groups = {Members(q, j) : j \in Registered(q)}
  BY Groups
<1>3. /\ l = [monitors |-> l.monitors, groups |-> l.groups, primary |-> l.primary]
      /\ k = [monitors |-> k.monitors, groups |-> k.groups, primary |-> k.primary]
  BY LayoutRecord
<1> HIDE DEF l, k
<1>4. /\ \A n \in Monitors \ {m} : q.lm[n] = c.lm[n]
      /\ q.lm[m] = None
      /\ c.lm \in [Monitors -> LogicalMonitors \cup {None}]
  BY DEF Good, Shape
<1>5. \A j \in LogicalMonitors : Members(q, j) = Members(c, j) \ {m}
  <2> SUFFICES ASSUME NEW j \in LogicalMonitors
               PROVE  Members(q, j) = Members(c, j) \ {m}
    OBVIOUS
  <2>1. q.lm[m] # j
    BY <1>4, Numbers
  <2> QED BY <1>4, <2>1 DEF Members
<1>6. k.groups = {g \ {m} : g \in l.groups} \ {{}}
  <2>1. ASSUME NEW g \in k.groups PROVE g \in {h \ {m} : h \in l.groups} \ {{}}
    <3>1. PICK j \in Registered(q) : g = Members(q, j)
      BY <1>2
    <3>2. j \in LogicalMonitors /\ Members(q, j) # {}
      BY DEF Registered
    <3>3. g = Members(c, j) \ {m} /\ g # {}
      BY <1>5, <3>1, <3>2
    <3>4. j \in Registered(c)
      BY <3>2, <3>3 DEF Registered
    <3>5. Members(c, j) \in l.groups
      BY <1>1, <3>4
    <3> QED BY <3>3, <3>5
  <2>2. ASSUME NEW h \in l.groups, h \ {m} # {} PROVE h \ {m} \in k.groups
    <3>1. PICK j \in Registered(c) : h = Members(c, j)
      BY <1>1
    <3>2. j \in LogicalMonitors /\ Members(q, j) = h \ {m}
      BY <1>5, <3>1 DEF Registered
    <3>3. j \in Registered(q)
      BY <2>2, <3>2 DEF Registered
    <3> QED BY <1>2, <3>2, <3>3
  <2> QED BY <2>1, <2>2
<1>7. k.primary = IF l.primary # m THEN l.primary
                  ELSE IF on = {} THEN None ELSE First(on)
  BY <1>1, <1>2 DEF Heir
<1>8. Layout!Deactivate(l, m) = [l EXCEPT !.groups = k.groups, !.primary = k.primary]
  BY <1>1, <1>6, <1>7, SameFirst DEF Layout!Deactivate, None, Layout!None
<1> DEFINE new == Layout!Deactivate(l, m)
<1> HIDE DEF new
<1>9. new = [monitors |-> Monitors, groups |-> k.groups, primary |-> k.primary]
  <2>1. new = [l EXCEPT !.groups = k.groups, !.primary = k.primary]
    BY <1>8 DEF new
  <2> QED BY <1>1, <1>3, <2>1
<1>10. Layout!Deactivate(l, m) = k
  BY <1>2, <1>3, <1>9 DEF new
<1> QED BY <1>10 DEF l, k

\* The primary after all monitors have been moved is the one the layout names.
LEMMA SettledPrimary ==
    ASSUME NEW c, Good(c), NEW q, Moved(c, q, NMonitors)
    PROVE  q.primary = Layout!Settled(LayoutOf(c))
<1> DEFINE l == LayoutOf(c)
<1>1. l.monitors = Monitors /\ l.primary = c.primary
  BY Groups
<1>2. CASE Monitors = {}
  BY <1>1, <1>2 DEF Moved, Good, Shape, Layout!Settled, None, Layout!None
<1>3. CASE Monitors # {}
  <2>1. Settled(c) \in Monitors /\ NMonitors >= Settled(c)
    BY <1>3, SettledFacts, NMonitorsAssumption DEF Monitors
  <2>2. q.primary = Settled(c)
    BY <2>1 DEF Moved
  <2>3. CASE c.primary = None
    <3>1. 1 \in Monitors /\ \A n \in Monitors : 1 <= n
      BY <1>3, NMonitorsAssumption DEF Monitors
    <3>2. First(Monitors) \in Monitors /\ First(Monitors) <= 1
      BY <3>1, FirstIsLeast
    <3>3. First(Monitors) = 1
      BY <3>1, <3>2, NMonitorsAssumption DEF Monitors
    <3>4. Layout!Settled(l) = First(Monitors)
      BY <1>1, <1>3, <2>3, SameFirst DEF Layout!Settled, None, Layout!None
    <3> QED BY <2>2, <2>3, <3>3, <3>4 DEF Settled
  <2>4. CASE c.primary # None
    <3>1. c.primary \in ActiveMonitors(c)
      BY <2>4 DEF Good, Shape, ActiveMonitors
    <3>2. Layout!GroupOf(l, c.primary) = {n \in Monitors : c.lm[n] = c.lm[c.primary]}
      BY <3>1, GroupFacts
    <3>3. Layout!Settled(l) = First({n \in Monitors : c.lm[n] = c.lm[c.primary]})
      BY <1>1, <1>3, <2>4, <3>2, SameFirst DEF Layout!Settled, None, Layout!None
    <3> QED BY <2>2, <2>4, <3>3 DEF Settled
  <2> QED BY <2>3, <2>4
<1> QED BY <1>2, <1>3

\* All monitors in one group, and its primary.
LEMMA MirrorStep ==
    ASSUME NEW c, Good(c)
    PROVE  LET q == MirrorAll(c)
           IN  Good(q) /\ LayoutOf(q) = Layout!Mirror(LayoutOf(c))
<1> DEFINE q == MirrorAll(c)
           l == LayoutOf(c)
           k == LayoutOf(q)
           new == Layout!Mirror(l)
           i == Fresh(c)
           G == {Monitors} \ {{}}
<1>1. Good(q) /\ Moved(c, q, NMonitors)
  BY MirrorAllFacts DEF Moved
<1>2. i \in LogicalMonitors /\ \A n \in Monitors : q.lm[n] = i
  BY MirrorAllFacts, FreshIsUnused DEF Good, Shape
<1>3. q.primary = Layout!Settled(l)
  BY <1>1, SettledPrimary
<1> HIDE DEF q, i
<1>4. /\ k.monitors = Monitors /\ k.primary = q.primary
      /\ k.groups = {Members(q, j) : j \in Registered(q)}
  BY <1>1, Groups
<1>5. l.monitors = Monitors
  BY Groups
<1>6. /\ l = [monitors |-> l.monitors, groups |-> l.groups, primary |-> l.primary]
      /\ k = [monitors |-> k.monitors, groups |-> k.groups, primary |-> k.primary]
  BY LayoutRecord
<1> HIDE DEF l, k
<1>7. k.groups = G
  <2>1. \A j \in LogicalMonitors : Members(q, j) = IF j = i THEN Monitors ELSE {}
    BY <1>2 DEF Members
  <2>2. Registered(q) = IF Monitors = {} THEN {} ELSE {i}
    BY <1>2, <2>1 DEF Registered
  <2>3. CASE Monitors = {}
    BY <1>4, <2>2, <2>3
  <2>4. CASE Monitors # {}
    <3>1. Members(q, i) = Monitors /\ Registered(q) = {i}
      BY <1>2, <2>1, <2>2, <2>4
    <3> QED BY <1>4, <2>4, <3>1
  <2> QED BY <2>3, <2>4
<1>8. new = [l EXCEPT !.groups = G, !.primary = Layout!Settled(l)]
  BY <1>5 DEF Layout!Mirror
<1> HIDE DEF new, G
<1>9. new = [monitors |-> Monitors, groups |-> G, primary |-> Layout!Settled(l)]
  BY <1>5, <1>6, <1>8
<1>10. new = k
  BY <1>3, <1>4, <1>6, <1>7, <1>9
<1> QED BY <1>1, <1>10 DEF q, l, k, new

\* Every monitor in a group of its own, and their primary.
LEMMA JoinStep ==
    ASSUME NEW c, Good(c)
    PROVE  LET q == Separate(c)
           IN  Good(q) /\ LayoutOf(q) = Layout!Join(LayoutOf(c))
<1> DEFINE q == Separate(c)
           l == LayoutOf(c)
           k == LayoutOf(q)
           new == Layout!Join(l)
           G == {{m} : m \in Monitors}
<1>1. Good(q) /\ Moved(c, q, NMonitors)
  BY SeparateFacts DEF Moved
<1>2. \A j, n \in Monitors : j # n => q.lm[j] # q.lm[n]
  BY SeparateFacts
<1>3. q.primary = Layout!Settled(l)
  BY <1>1, SettledPrimary
<1> HIDE DEF q
<1>4. /\ k.monitors = Monitors /\ k.primary = q.primary
      /\ k.groups = {Members(q, j) : j \in Registered(q)}
  BY <1>1, Groups
<1>5. l.monitors = Monitors
  BY Groups
<1>6. /\ l = [monitors |-> l.monitors, groups |-> l.groups, primary |-> l.primary]
      /\ k = [monitors |-> k.monitors, groups |-> k.groups, primary |-> k.primary]
  BY LayoutRecord
<1> HIDE DEF l, k
<1>7. k.groups = G
  <2>1. \A m \in Monitors : q.lm[m] \in LogicalMonitors
    <3>1. \A m \in Monitors : m <= NMonitors
      BY NMonitorsAssumption DEF Monitors
    <3> QED BY <1>1, <3>1 DEF Moved, Good, Shape
  <2>2. \A m \in Monitors : Members(q, q.lm[m]) = {m}
    BY <1>2 DEF Members
  <2>3. \A m \in Monitors : q.lm[m] \in Registered(q)
    BY <2>1, <2>2 DEF Registered
  <2>4. \A m \in Monitors : {m} \in k.groups
    BY <1>4, <2>2, <2>3
  <2>5. ASSUME NEW i \in Registered(q) PROVE Members(q, i) \in G
    <3>1. PICK m \in Monitors : q.lm[m] = i
      BY DEF Registered, Members
    <3> QED BY <2>2, <3>1
  <2>6. \A g \in k.groups : g \in G
    BY <1>4, <2>5
  <2> QED BY <2>4, <2>6
<1>8. new = [l EXCEPT !.groups = G, !.primary = Layout!Settled(l)]
  BY <1>5 DEF Layout!Join
<1> HIDE DEF new, G
<1>9. new = [monitors |-> Monitors, groups |-> G, primary |-> Layout!Settled(l)]
  BY <1>5, <1>6, <1>8
<1>10. new = k
  BY <1>3, <1>4, <1>6, <1>7, <1>9
<1> QED BY <1>1, <1>10 DEF q, l, k, new

------------------------------------------------------------------------------
(* The public functions *)

\* c after a change of modes or positions.
OtherModes(c, d) ==
    \E mode, x : d = [lm |-> c.lm, mode |-> mode, flag |-> c.flag, x |-> x,
                      primary |-> c.primary]

LEMMA ChangedMode ==
    ASSUME NEW c, Shape(c), NEW mode, NEW d, d = [c EXCEPT !.mode = mode]
    PROVE  OtherModes(c, d)
<1>1. d = [lm |-> c.lm, mode |-> mode, flag |-> c.flag, x |-> c.x, primary |-> c.primary]
  BY DEF Shape
<1> QED BY <1>1 DEF OtherModes

LEMMA ChangedPosition ==
    ASSUME NEW c, Shape(c), NEW x, NEW d, d = [c EXCEPT !.x = x]
    PROVE  OtherModes(c, d)
<1>1. d = [lm |-> c.lm, mode |-> c.mode, flag |-> c.flag, x |-> x, primary |-> c.primary]
  BY DEF Shape
<1> QED BY <1>1 DEF OtherModes

LEMMA OtherModesFacts ==
    ASSUME NEW c, Good(c), NEW d, OtherModes(c, d)
    PROVE  /\ Good(d) /\ LayoutOf(d) = LayoutOf(c)
           /\ d.lm = c.lm /\ d.primary = c.primary
<1>1. PICK mode, x : d = [lm |-> c.lm, mode |-> mode, flag |-> c.flag, x |-> x,
                          primary |-> c.primary]
  BY DEF OtherModes
<1> QED BY <1>1, ModesAndPositions

LEMMA AppendRightFacts ==
    ASSUME NEW c, Shape(c), NEW i, NEW d \in AppendRight(c, i)
    PROVE  OtherModes(c, d)
<1>1. \E v : d = [c EXCEPT !.x[i] = v]
  BY DEF AppendRight
<1>2. PICK v : d = [c EXCEPT !.x[i] = v]
  BY <1>1
<1>3. d = [c EXCEPT !.x = [c.x EXCEPT ![i] = v]]
  BY <1>2
<1> QED BY <1>3, ChangedPosition

LEMMA MakeLinearFacts ==
    ASSUME NEW c, Shape(c), NEW d \in MakeLinear(c)
    PROVE  OtherModes(c, d)
<1>1. \E x : d = [c EXCEPT !.x = x]
  BY DEF MakeLinear
<1> QED BY <1>1, ChangedPosition

\* What a public function may do to a configuration.
Follows(c, d) ==
    /\ Good(d)
    /\ LET l == LayoutOf(c)
           k == LayoutOf(d)
       IN  \/ k = l
           \/ \E m \in Monitors :
                \/ \E active \in BOOLEAN : k = Layout!SetActive(l, m, active)
                \/ k = Layout!SetPrimary(l, m)
           \/ \E clone \in BOOLEAN : k = Layout!SetCloning(l, clone)

LEMMA SetActiveFollows ==
    ASSUME NEW c, Good(c), NEW m \in Monitors, NEW active \in BOOLEAN,
           NEW d \in SetActive(c, m, active)
    PROVE  Follows(c, d)
<1> DEFINE l  == LayoutOf(c)
           on == [c EXCEPT !.mode[m] = IF @ = None THEN Preferred[m] ELSE @]
           i  == Fresh(c)
<1>1. OtherModes(c, on)
  <2>1. on = [c EXCEPT !.mode = [c.mode EXCEPT ![m] =
                                    IF c.mode[m] = None THEN Preferred[m] ELSE c.mode[m]]]
    OBVIOUS
  <2> HIDE DEF on
  <2> QED BY <2>1, ChangedMode DEF Good
<1>2. /\ active /\ c.lm[m] = None => d \in AppendRight(SetLogicalMonitor(on, m, i), i)
      /\ active /\ c.lm[m] # None => d = on
      /\ ~active => d = SetLogicalMonitor(c, m, None)
  <2>1. CASE active /\ c.lm[m] = None
    BY <2>1 DEF SetActive
  <2>2. CASE active /\ c.lm[m] # None
    BY <2>2 DEF SetActive
  <2>3. CASE ~active
    BY <2>3 DEF SetActive
  <2> QED BY <2>1, <2>2, <2>3
<1> HIDE DEF on
<1>3. /\ Good(on) /\ LayoutOf(on) = l /\ on.lm = c.lm
  BY <1>1, OtherModesFacts
<1>4. i \in LogicalMonitors /\ \A n \in Monitors : c.lm[n] # i
  BY FreshIsUnused DEF Good, Shape
<1> HIDE DEF i, l
<1>5. CASE active /\ c.lm[m] = None
  <2> DEFINE q == SetLogicalMonitor(on, m, i)
  <2>1. Good(q) /\ q.lm = [on.lm EXCEPT ![m] = i] /\ q.primary = Heir(on, m, i)
    BY <1>3, <1>4, MoveFacts
  <2> HIDE DEF q
  <2>2. LayoutOf(q) = Layout!Activate(LayoutOf(on), m)
    BY <1>3, <1>4, <1>5, <2>1, TurnedOn
  <2>3. OtherModes(q, d)
    BY <1>2, <1>5, <2>1, AppendRightFacts DEF q, Good
  <2>4. Good(d) /\ LayoutOf(d) = Layout!Activate(l, m)
    BY <1>3, <2>1, <2>2, <2>3, OtherModesFacts
  <2>5. LayoutOf(d) = Layout!SetActive(l, m, TRUE)
    BY <2>4 DEF Layout!SetActive
  <2> QED BY <2>4, <2>5 DEF Follows, l
<1>6. CASE active /\ c.lm[m] # None
  BY <1>2, <1>3, <1>6 DEF Follows, l
<1>7. CASE ~active
  <2>1. d = SetLogicalMonitor(c, m, None)
    BY <1>2, <1>7
  <2>2. Good(d) /\ d.lm = [c.lm EXCEPT ![m] = None] /\ d.primary = Heir(c, m, None)
    BY <2>1, MoveFacts
  <2>3. LayoutOf(d) = Layout!Deactivate(l, m)
    BY <2>2, TurnedOff DEF l
  <2>4. LayoutOf(d) = Layout!SetActive(l, m, FALSE)
    BY <2>3 DEF Layout!SetActive
  <2> QED BY <2>2, <2>4 DEF Follows, l
<1> QED BY <1>5, <1>6, <1>7

LEMMA SetCloningFollows ==
    ASSUME NEW c, Good(c), NEW clone \in BOOLEAN, NEW d \in SetCloning(c, clone)
    PROVE  Follows(c, d)
<1> DEFINE l == LayoutOf(c)
<1>1. Layout!IsCloning(l) <=> IsCloning(c)
  BY CloningFacts
<1>2. CASE clone = IsCloning(c)
  <2>1. d = c
    BY <1>2 DEF SetCloning
  <2> QED BY <2>1 DEF Follows
<1>3. CASE clone /\ ~IsCloning(c)
  <2>1. d = MirrorAll(c)
    BY <1>3 DEF SetCloning, IsCloning
  <2>2. Good(d) /\ LayoutOf(d) = Layout!Mirror(l)
    BY <2>1, MirrorStep
  <2>3. LayoutOf(d) = Layout!SetCloning(l, TRUE)
    BY <1>1, <1>3, <2>2 DEF Layout!SetCloning
  <2> QED BY <2>2, <2>3 DEF Follows
<1>4. CASE ~clone /\ IsCloning(c)
  <2>1. d \in MakeLinear(Separate(c))
    BY <1>4 DEF SetCloning, IsCloning
  <2>2. Good(Separate(c)) /\ LayoutOf(Separate(c)) = Layout!Join(l)
    BY JoinStep
  <2>3. OtherModes(Separate(c), d)
    BY <2>1, <2>2, MakeLinearFacts DEF Good
  <2>4. Good(d) /\ LayoutOf(d) = Layout!Join(l)
    BY <2>2, <2>3, OtherModesFacts
  <2>5. LayoutOf(d) = Layout!SetCloning(l, FALSE)
    BY <1>1, <1>4, <2>4 DEF Layout!SetCloning
  <2> QED BY <2>4, <2>5 DEF Follows
<1> QED BY <1>2, <1>3, <1>4 DEF IsCloning

LEMMA SetPrimaryFollows ==
    ASSUME NEW c, Good(c), NEW m \in Monitors
    PROVE  Follows(c, SetPrimary(c, m))
<1> DEFINE d == SetPrimary(c, m)
           l == LayoutOf(c)
           k == LayoutOf(d)
<1>1. /\ Shape(d) /\ FlagOfPrimary(d) /\ d.lm = c.lm
      /\ d.primary = IF c.lm[m] = None THEN c.primary ELSE m
  BY SetPrimaryFacts DEF Good
<1> HIDE DEF d
<1>2. Good(d)
  BY <1>1, Numbers DEF Good
<1>3. /\ l.monitors = Monitors /\ l.primary = c.primary
      /\ l.groups = {Members(c, j) : j \in Registered(c)}
      /\ Layout!Active(l) = ActiveMonitors(c)
  BY Groups
<1>4. /\ k.monitors = Monitors /\ k.primary = d.primary
      /\ k.groups = {Members(d, j) : j \in Registered(d)}
  BY <1>2, Groups
<1>5. k.groups = l.groups
  <2>1. \A j \in LogicalMonitors : Members(d, j) = Members(c, j)
    BY <1>1 DEF Members
  <2>2. Registered(d) = Registered(c)
    BY <2>1 DEF Registered
  <2> QED BY <1>3, <1>4, <2>1, <2>2 DEF Registered
<1>6. /\ l = [monitors |-> l.monitors, groups |-> l.groups, primary |-> l.primary]
      /\ k = [monitors |-> k.monitors, groups |-> k.groups, primary |-> k.primary]
  BY LayoutRecord
<1> DEFINE new == Layout!SetPrimary(l, m)
<1> HIDE DEF l, k, new
<1>7. CASE c.lm[m] = None
  <2>1. k = l
    BY <1>1, <1>3, <1>4, <1>5, <1>6, <1>7
  <2> QED BY <1>2, <2>1 DEF Follows, d, k, l
<1>8. CASE c.lm[m] # None
  <2>1. m \in Layout!Active(l)
    BY <1>3, <1>8 DEF ActiveMonitors
  <2>2. new = [l EXCEPT !.primary = m]
    BY <2>1 DEF Layout!SetPrimary, new
  <2>3. new = [monitors |-> l.monitors, groups |-> l.groups, primary |-> m]
    BY <1>6, <2>2
  <2>4. new = k
    BY <1>1, <1>3, <1>4, <1>5, <1>6, <1>8, <2>3
  <2> QED BY <1>2, <2>4 DEF Follows, d, k, l, new
<1> QED BY <1>7, <1>8

------------------------------------------------------------------------------
(* Reading the compositor's state *)

LEMMA BlankIsGood == Good(Blank) /\ \A m \in Monitors : Blank.lm[m] = None
<1>1. /\ Blank.lm = [m \in Monitors |-> None] /\ Blank.primary = None
      /\ Blank.flag = [i \in LogicalMonitors |-> FALSE]
      /\ Blank = [lm |-> Blank.lm, mode |-> Blank.mode, flag |-> Blank.flag,
                  x |-> Blank.x, primary |-> Blank.primary]
  BY DEF Blank
<1> QED BY <1>1 DEF Good, Shape, FlagOfPrimary

\* One more monitor of the state has been read.
LEMMA ReadFacts ==
    ASSUME NEW c, Good(c), NEW m \in Monitors, c.lm[m] = None,
           NEW state, state.of \in [Monitors -> Monitors \cup {None}]
    PROVE  LET d == Read(state, c, m)
           IN  Good(d) /\ d.lm = [c.lm EXCEPT ![m] = state.of[m]]
<1> DEFINE d == Read(state, c, m)
           i == state.of[m]
<1>1. i \in LogicalMonitors \cup {None}
  BY NMonitorsAssumption DEF Monitors, LogicalMonitors
<1>2. CASE i = None
  <2>1. d = c
    BY <1>2 DEF Read
  <2>2. c.lm = [c.lm EXCEPT ![m] = None]
    BY DEF Good, Shape
  <2> QED BY <1>2, <2>1, <2>2
<1>3. CASE i # None
  <2> DEFINE q == SetLogicalMonitor(c, m, i)
  <2>1. Good(q) /\ q.lm = [c.lm EXCEPT ![m] = i]
    BY <1>1, <1>3, MoveFacts
  <2>2. d = [q EXCEPT !.mode[m] = state.mode[m], !.x[i] = state.x[i]]
    BY <1>3 DEF Read
  <2> HIDE DEF q, d, i
  <2>3. d = [lm |-> q.lm, mode |-> [q.mode EXCEPT ![m] = state.mode[m]], flag |-> q.flag,
             x |-> [q.x EXCEPT ![i] = state.x[i]], primary |-> q.primary]
    BY <2>1, <2>2 DEF Good, Shape
  <2>4. OtherModes(q, d)
    BY <2>3 DEF OtherModes
  <2> QED BY <2>1, <2>4, OtherModesFacts DEF d, i
<1> QED BY <1>2, <1>3

\* The whole state has been read.
LEMMA ReadingFacts ==
    ASSUME NEW state, state.of \in [Monitors -> Monitors \cup {None}]
    PROVE  LET c == Reading(state)[NMonitors]
           IN  Good(c) /\ \A m \in Monitors : c.lm[m] = state.of[m]
<1> DEFINE f == Reading(state)
           Here(n) == /\ Good(f[n])
                      /\ \A k \in Monitors :
                            f[n].lm[k] = IF k <= n THEN state.of[k] ELSE None
           Bad == {n \in Nat : n <= NMonitors /\ ~Here(n)}
<1>1. f[0] = Blank /\ \A n \in 1..NMonitors : f[n] = Read(state, f[n - 1], n)
  BY ReadingSteps
<1> HIDE DEF f
<1>2. Here(0)
  BY <1>1, BlankIsGood, NMonitorsAssumption DEF Monitors
<1>3. ASSUME NEW n \in Nat, n + 1 <= NMonitors, Here(n)
      PROVE  Here(n + 1)
  <2>1. n + 1 \in Monitors /\ n + 1 \in 1..NMonitors /\ (n + 1) - 1 = n
    BY <1>3, NMonitorsAssumption DEF Monitors
  <2>2. f[n + 1] = Read(state, f[n], n + 1)
    BY <1>1, <2>1
  <2>3. f[n].lm[n + 1] = None
    BY <1>3, <2>1
  <2>4. Good(f[n + 1]) /\ f[n + 1].lm = [f[n].lm EXCEPT ![n + 1] = state.of[n + 1]]
    <3>1. Good(f[n])
      BY <1>3
    <3> QED BY <2>1, <2>2, <2>3, <3>1, ReadFacts
  <2>5. f[n].lm \in [Monitors -> LogicalMonitors \cup {None}]
    BY <1>3 DEF Good, Shape
  <2>6. ASSUME NEW k \in Monitors
        PROVE  f[n + 1].lm[k] = IF k <= n + 1 THEN state.of[k] ELSE None
    <3>1. CASE k = n + 1
      BY <2>1, <2>4, <2>5, <3>1
    <3>2. CASE k # n + 1
      <4>1. k <= n + 1 <=> k <= n
        BY <3>2, Numbers
      <4>2. f[n + 1].lm[k] = f[n].lm[k]
        BY <2>4, <2>5, <3>2
      <4> QED BY <1>3, <4>1, <4>2
    <3> QED BY <3>1, <3>2
  <2> QED BY <2>4, <2>6
<1>4. Bad = {}
  <2> HIDE DEF Here
  <2> SUFFICES ASSUME Bad # {} PROVE FALSE
    OBVIOUS
  <2>1. PICK k \in Bad : \A j \in Bad : k <= j
    BY LeastNumber
  <2>2. k \in Nat /\ k # 0 /\ k <= NMonitors
    BY <1>2
  <2>3. k - 1 \in Nat /\ k - 1 \notin Bad /\ (k - 1) + 1 = k /\ k - 1 <= NMonitors
    BY <2>1, <2>2, NMonitorsAssumption
  <2> QED BY <1>3, <2>1, <2>2, <2>3
<1>5. Here(NMonitors)
  BY <1>4, NMonitorsAssumption
<1>6. \A k \in Monitors : k <= NMonitors
  BY NMonitorsAssumption DEF Monitors
<1> QED BY <1>5, <1>6 DEF f

LEMMA InitIsGood == Init => Good(config)
<1> SUFFICES ASSUME Init PROVE Good(config)
  OBVIOUS
<1>1. PICK s \in States :
        LET on == {m \in Monitors : s.of[m] # None}
        IN  \E m \in IF on = {} THEN {None} ELSE on : config = Construct(s, m)
  BY DEF Init
<1> DEFINE on == {m \in Monitors : s.of[m] # None}
<1>2. PICK m \in IF on = {} THEN {None} ELSE on : config = Construct(s, m)
  BY <1>1
<1>3. s.of \in [Monitors -> Monitors \cup {None}]
  BY DEF States
<1> DEFINE read == Reading(s)[NMonitors]
<1>4. Good(read) /\ \A k \in Monitors : read.lm[k] = s.of[k]
  BY <1>3, ReadingFacts
<1>5. config = IF m = None THEN read ELSE SetPrimary(read, m)
  BY <1>2 DEF Construct
<1> HIDE DEF read
<1>6. CASE m = None
  BY <1>4, <1>5, <1>6
<1>7. CASE m # None
  <2>1. m \in Monitors
    BY <1>2, <1>7
  <2> QED BY <1>4, <1>5, <1>7, <2>1, SetPrimaryFollows DEF Follows
<1> QED BY <1>6, <1>7

------------------------------------------------------------------------------
(* The theorems *)

IInv == Good(config)

LEMMA NextFollows ==
    ASSUME IInv, [Next]_config
    PROVE  Follows(config, config')
<1>1. ASSUME NEW m \in Monitors, NEW active \in BOOLEAN, Activate(m, active)
      PROVE  Follows(config, config')
  BY <1>1, SetActiveFollows DEF IInv, Activate
<1>2. ASSUME NEW m \in Monitors, MakePrimary(m)
      PROVE  Follows(config, config')
  BY <1>2, SetPrimaryFollows DEF IInv, MakePrimary
<1>3. ASSUME NEW clone \in BOOLEAN, Clone(clone)
      PROVE  Follows(config, config')
  BY <1>3, SetCloningFollows DEF IInv, Clone
<1>4. ASSUME OtherModes(config, config')
      PROVE  Follows(config, config')
  BY <1>4, OtherModesFacts DEF IInv, Follows
<1>5. ASSUME NEW m \in Monitors, NEW width, SetMode(m, width)
      PROVE  OtherModes(config, config')
  <2>1. config' = [config EXCEPT !.mode = [config.mode EXCEPT ![m] = width]]
    BY <1>5 DEF SetMode
  <2> QED BY <2>1, ChangedMode DEF IInv, Good
<1>6. ASSUME NEW m \in Monitors, NEW x, SetPosition(m, x)
      PROVE  OtherModes(config, config')
  <2>1. config' = [config EXCEPT !.x = [config.x EXCEPT ![config.lm[m]] = x]]
    BY <1>6 DEF SetPosition
  <2> QED BY <2>1, ChangedPosition DEF IInv, Good
<1>7. ASSUME NEW width, SetModeOnAll(width)
      PROVE  OtherModes(config, config')
  <2> DEFINE mode == [m \in Monitors |-> width]
             x == [i \in LogicalMonitors |->
                        IF i \in Registered(config) THEN 0 ELSE config.x[i]]
  <2>1. config' = [config EXCEPT !.mode = mode, !.x = x]
    BY <1>7 DEF SetModeOnAll
  <2> HIDE DEF mode, x
  <2>2. config' = [lm |-> config.lm, mode |-> mode, flag |-> config.flag, x |-> x,
                   primary |-> config.primary]
    BY <2>1 DEF IInv, Good, Shape
  <2> QED BY <2>2 DEF OtherModes
<1>8. ASSUME EnsureNonOffset
      PROVE  Follows(config, config')
  <2>1. config' = NonOffset(config)
    BY <1>8 DEF EnsureNonOffset
  <2>2. CASE Registered(config) = {}
    BY <2>1, <2>2 DEF NonOffset, IInv, Follows
  <2>3. CASE Registered(config) # {}
    <3>1. \E x : config' = [config EXCEPT !.x = x]
      BY <2>1, <2>3 DEF NonOffset
    <3> QED BY <1>4, <3>1, ChangedPosition DEF IInv, Good
  <2> QED BY <2>2, <2>3
<1>9. CASE UNCHANGED config
  BY <1>9 DEF IInv, Follows
<1>10. CASE Next
  <2>1. CASE \E m \in Monitors :
                \/ \E active \in BOOLEAN : Activate(m, active)
                \/ MakePrimary(m)
                \/ \E width \in Widths[m] : SetMode(m, width)
                \/ \E x \in Positions : SetPosition(m, x)
    BY <2>1, <1>1, <1>2, <1>4, <1>5, <1>6
  <2>2. CASE \E clone \in BOOLEAN : Clone(clone)
    BY <2>2, <1>3
  <2>3. CASE \E width \in {w \in Widths[1] : \A m \in Monitors : w \in Widths[m]} :
                SetModeOnAll(width)
    BY <2>3, <1>4, <1>7
  <2> QED BY <1>8, <1>10, <2>1, <2>2, <2>3 DEF Next
<1> QED BY <1>9, <1>10

LEMMA IInvHolds == Spec => []IInv
<1>1. Init => IInv
  BY InitIsGood DEF IInv
<1>2. IInv /\ [Next]_config => IInv'
  BY NextFollows DEF Follows, IInv
<1> QED BY <1>1, <1>2, PTL DEF Spec

------------------------------------------------------------------------------
(* Types *)

LEMMA SetPrimaryTyped ==
    ASSUME NEW c \in Configs, NEW m \in Monitors
    PROVE  SetPrimary(c, m) \in Configs
<1> DEFINE old  == IF c.primary = None THEN None ELSE c.lm[c.primary]
           flag == [i \in LogicalMonitors |-> i = c.lm[m] \/ (i # old /\ c.flag[i])]
<1>1. CASE c.primary = m \/ c.lm[m] = None
  BY <1>1 DEF SetPrimary
<1>2. CASE c.primary # m /\ c.lm[m] # None
  <2>1. SetPrimary(c, m) = [c EXCEPT !.primary = m, !.flag = flag]
    BY <1>2 DEF SetPrimary
  <2>2. flag \in [LogicalMonitors -> BOOLEAN]
    BY DEF Configs
  <2> HIDE DEF flag
  <2> QED BY <2>1, <2>2 DEF Configs
<1> QED BY <1>1, <1>2

LEMMA UnsetPrimaryTyped ==
    ASSUME NEW c \in Configs, NEW old
    PROVE  UnsetPrimary(c, old) \in Configs
<1> DEFINE heirs == ActiveMonitors(c) \ {old}
<1>1. heirs \in SUBSET Monitors
  BY DEF ActiveMonitors
<1>2. CASE c.primary # old
  BY <1>2 DEF UnsetPrimary
<1>3. CASE c.primary = old /\ heirs = {}
  <2>1. UnsetPrimary(c, old) = [c EXCEPT !.primary = None]
    BY <1>3 DEF UnsetPrimary
  <2> QED BY <2>1 DEF Configs
<1>4. CASE c.primary = old /\ heirs # {}
  <2>1. UnsetPrimary(c, old) = SetPrimary(c, First(heirs))
    BY <1>4 DEF UnsetPrimary, First
  <2>2. First(heirs) \in Monitors
    BY <1>1, <1>4, FirstIsLeast
  <2> QED BY <2>1, <2>2, SetPrimaryTyped
<1> QED BY <1>2, <1>3, <1>4

LEMMA FreedTyped ==
    ASSUME NEW c \in Configs, NEW old
    PROVE  Freed(c, old) \in Configs
<1>1. CASE ~ (old \in LogicalMonitors \ Registered(c))
  BY <1>1 DEF Freed
<1>2. CASE old \in LogicalMonitors \ Registered(c)
  <2> DEFINE flag == [c.flag EXCEPT ![old] = FALSE]
             x    == [c.x EXCEPT ![old] = 0]
  <2>1. Freed(c, old) = [c EXCEPT !.flag = flag, !.x = x]
    BY <1>2 DEF Freed
  <2>2. flag \in [LogicalMonitors -> BOOLEAN] /\ x \in [LogicalMonitors -> Int]
    <3>1. c.flag \in [LogicalMonitors -> BOOLEAN] /\ c.x \in [LogicalMonitors -> Int]
      BY DEF Configs
    <3>2. flag \in [LogicalMonitors -> BOOLEAN]
      BY <3>1
    <3>3. x \in [LogicalMonitors -> Int]
      <4>1. x = [i \in LogicalMonitors |-> IF i = old THEN 0 ELSE c.x[i]]
        BY <3>1
      <4>2. \A i \in LogicalMonitors : c.x[i] \in Int
        BY <3>1
      <4> HIDE DEF x
      <4> QED BY <4>1, <4>2
    <3> QED BY <3>2, <3>3
  <2> HIDE DEF flag, x
  <2> QED BY <2>1, <2>2 DEF Configs
<1> QED BY <1>1, <1>2

LEMMA SetLogicalMonitorTyped ==
    ASSUME NEW c \in Configs, NEW m \in Monitors, NEW i \in LogicalMonitors \cup {None}
    PROVE  SetLogicalMonitor(c, m, i) \in Configs
<1> DEFINE was == c.lm[m] # None /\ c.flag[c.lm[m]]
           b   == IF was THEN UnsetPrimary(c, m) ELSE c
           p   == Placed(b, m, i)
           d   == Freed(p, c.lm[m])
<1>1. b \in Configs
  BY UnsetPrimaryTyped
<1> HIDE DEF b
<1>2. p \in Configs
  BY <1>1 DEF Placed, Configs
<1> HIDE DEF p
<1>3. d \in Configs
  BY <1>2, FreedTyped
<1>4. SetLogicalMonitor(c, m, i) =
        CASE i = None         -> d
          [] i # None /\ was  -> SetPrimary(d, m)
          [] i # None /\ ~was -> UnsetPrimary(d, None)
  BY MoveSteps DEF b, p
<1> HIDE DEF d, was
<1>5. CASE i = None
  BY <1>3, <1>4, <1>5
<1>6. CASE i # None /\ was
  BY <1>3, <1>4, <1>6, SetPrimaryTyped
<1>7. CASE i # None /\ ~was
  BY <1>3, <1>4, <1>7, UnsetPrimaryTyped
<1> QED BY <1>5, <1>6, <1>7

LEMMA FreshIsLogicalMonitor ==
    ASSUME NEW c \in Configs
    PROVE  Fresh(c) \in LogicalMonitors
  BY FreshIsUnused DEF Configs

\* What a sequence starts with and every step keeps is true of every member.
LEMMA EveryMember ==
    ASSUME NEW S, NEW N \in Nat, NEW f, f[0] \in S,
           \A n \in 1..N : f[n - 1] \in S => f[n] \in S
    PROVE  f[N] \in S
<1> DEFINE Bad == {n \in Nat : n <= N /\ f[n] \notin S}
<1>1. Bad = {}
  <2> SUFFICES ASSUME Bad # {} PROVE FALSE
    OBVIOUS
  <2>1. PICK k \in Bad : \A j \in Bad : k <= j
    BY LeastNumber
  <2>2. k \in Nat /\ k # 0 /\ k <= N
    OBVIOUS
  <2>3. k - 1 \in Nat /\ k - 1 \notin Bad /\ k - 1 <= N /\ k \in 1..N
    BY <2>1, <2>2
  <2> QED BY <2>1, <2>3
<1> QED BY <1>1

LEMMA CloningTyped ==
    ASSUME NEW c \in Configs
    PROVE  MirrorAll(c) \in Configs /\ Separate(c) \in Configs
<1>1. Monitors = 1..NMonitors /\ NMonitors \in Nat
  BY NMonitorsAssumption DEF Monitors
<1>2. MirrorAll(c) \in Configs
  <2> DEFINE f == Mirroring(c)
  <2>1. f[0] = c /\ \A n \in 1..NMonitors : f[n] = SetLogicalMonitor(f[n - 1], n, Fresh(c))
    BY MirroringSteps
  <2> HIDE DEF f
  <2>2. \A n \in 1..NMonitors : f[n - 1] \in Configs => f[n] \in Configs
    BY <1>1, <2>1, FreshIsLogicalMonitor, SetLogicalMonitorTyped
  <2> QED BY <1>1, <2>1, <2>2, EveryMember DEF MirrorAll, f
<1>3. Separate(c) \in Configs
  <2> DEFINE f == Separating(c)
  <2>1. f[0] = c /\ \A n \in 1..NMonitors :
                        f[n] = SetLogicalMonitor(f[n - 1], n, Fresh(f[n - 1]))
    BY SeparatingSteps
  <2> HIDE DEF f
  <2>2. \A n \in 1..NMonitors : f[n - 1] \in Configs => f[n] \in Configs
    BY <1>1, <2>1, FreshIsLogicalMonitor, SetLogicalMonitorTyped
  <2> QED BY <1>1, <2>1, <2>2, EveryMember DEF Separate, f
<1> QED BY <1>2, <1>3

LEMMA PositionTyped ==
    ASSUME NEW x \in [LogicalMonitors -> Int], NEW i, NEW v \in Int
    PROVE  [x EXCEPT ![i] = v] \in [LogicalMonitors -> Int]
<1> DEFINE y == [x EXCEPT ![i] = v]
<1>1. y = [j \in LogicalMonitors |-> IF j = i THEN v ELSE x[j]]
  OBVIOUS
<1>2. \A j \in LogicalMonitors : x[j] \in Int
  OBVIOUS
<1> HIDE DEF y
<1>3. y \in [LogicalMonitors -> Int]
  BY <1>1, <1>2
<1> QED BY <1>3 DEF y

LEMMA ModeTyped ==
    ASSUME NEW c \in Configs, NEW mode \in [Monitors -> Nat]
    PROVE  [c EXCEPT !.mode = mode] \in Configs
  BY DEF Configs

LEMMA PositionsTyped ==
    ASSUME NEW c \in Configs, NEW x \in [LogicalMonitors -> Int]
    PROVE  [c EXCEPT !.x = x] \in Configs
  BY DEF Configs

LEMMA AppendRightTyped ==
    ASSUME NEW c \in Configs, NEW i, NEW d \in AppendRight(c, i)
    PROVE  d \in Configs
<1>1. \E v \in Int : d = [c EXCEPT !.x[i] = v]
  <2> DEFINE others == Registered(c) \ {i}
             last == {j \in others : \A k \in others : c.x[k] <= c.x[j]}
  <2>1. CASE others = {}
    <3>1. d = [c EXCEPT !.x[i] = 0]
      BY <2>1 DEF AppendRight
    <3> DEFINE v == 0
    <3>2. v \in Int /\ d = [c EXCEPT !.x[i] = v]
      BY <3>1
    <3> HIDE DEF v
    <3> QED BY <3>2
  <2>2. CASE others # {}
    <3> DEFINE Right(j) == {[c EXCEPT !.x[i] = c.x[j] + w] : w \in WidthsOf(c, j)}
    <3>1. AppendRight(c, i) = UNION {Right(j) : j \in last}
      BY <2>2 DEF AppendRight
    <3>2. PICK j \in last : d \in Right(j)
      <4> HIDE DEF Right, last
      <4> QED BY <3>1
    <3>3. PICK w \in WidthsOf(c, j) : d = [c EXCEPT !.x[i] = c.x[j] + w]
      BY <3>2
    <3>4. j \in LogicalMonitors /\ w \in Nat
      BY DEF WidthsOf, Members, Registered, Configs
    <3> DEFINE v == c.x[j] + w
    <3>5. v \in Int
      BY <3>4 DEF Configs
    <3>6. d = [c EXCEPT !.x[i] = v]
      BY <3>3
    <3> HIDE DEF v
    <3> QED BY <3>5, <3>6
  <2> QED BY <2>1, <2>2
<1>2. PICK v \in Int : d = [c EXCEPT !.x[i] = v]
  BY <1>1
<1> DEFINE x == [c.x EXCEPT ![i] = v]
<1>3. d = [c EXCEPT !.x = x]
  BY <1>2
<1>4. x \in [LogicalMonitors -> Int]
  <2>1. c.x \in [LogicalMonitors -> Int]
    BY DEF Configs
  <2> QED BY <2>1, PositionTyped
<1> HIDE DEF x
<1> QED BY <1>3, <1>4, PositionsTyped

LEMMA SetActiveTyped ==
    ASSUME NEW c \in Configs, NEW m \in Monitors, NEW active \in BOOLEAN,
           NEW d \in SetActive(c, m, active)
    PROVE  d \in Configs
<1> DEFINE mode == [c.mode EXCEPT ![m] = IF c.mode[m] = None THEN Preferred[m] ELSE c.mode[m]]
           on   == [c EXCEPT !.mode[m] = IF @ = None THEN Preferred[m] ELSE @]
           i    == Fresh(c)
<1>1. on \in Configs
  <2>1. on = [c EXCEPT !.mode = mode]
    OBVIOUS
  <2>2. mode \in [Monitors -> Nat]
    BY ModesAssumption DEF Configs
  <2> HIDE DEF on, mode
  <2> QED BY <2>1, <2>2, ModeTyped
<1>2. i \in LogicalMonitors
  BY FreshIsLogicalMonitor
<1> HIDE DEF i, mode
<1>3. CASE active /\ c.lm[m] = None
  <2> DEFINE q == SetLogicalMonitor(on, m, i)
  <2>1. d \in AppendRight(q, i)
    BY <1>3 DEF SetActive, i
  <2> HIDE DEF on
  <2>2. q \in Configs
    BY <1>1, <1>2, SetLogicalMonitorTyped
  <2> HIDE DEF q
  <2> QED BY <2>1, <2>2, AppendRightTyped
<1>4. CASE active /\ c.lm[m] # None
  BY <1>1, <1>4 DEF SetActive
<1>5. CASE ~active
  <2>1. d = SetLogicalMonitor(c, m, None)
    BY <1>5 DEF SetActive
  <2> QED BY <2>1, SetLogicalMonitorTyped
<1> QED BY <1>3, <1>4, <1>5

\* The monitors placed one after the other.
LEMMA PlacingSteps ==
    ASSUME NEW c, NEW order, Len(order) \in Nat
    PROVE  LET f == Placing(c, order)
           IN  /\ f[0] = PrimaryPlaced(c)
               /\ \A n \in 1..Len(order) : f[n] = Place(c, f[n - 1], order[n])
<1> DEFINE P(f, k) == f = [n \in 0..k |->
                        IF n = 0 THEN PrimaryPlaced(c) ELSE Place(c, f[n - 1], order[n])]
           Missing == {k \in Nat : ~ \E f : P(f, k)}
<1>1. \E f : P(f, 0)
  <2> DEFINE f == [n \in 0..0 |-> PrimaryPlaced(c)]
  <2>1. P(f, 0)
    OBVIOUS
  <2> QED BY <2>1
<1>2. ASSUME NEW k \in Nat, \E f : P(f, k)
      PROVE  \E f : P(f, k + 1)
  <2>1. PICK f : P(f, k)
    BY <1>2
  <2> DEFINE g == [n \in 0..k + 1 |->
                    IF n <= k THEN f[n] ELSE Place(c, f[k], order[k + 1])]
  <2>2. \A n \in 0..k + 1 : g[n] =
            IF n = 0 THEN PrimaryPlaced(c) ELSE Place(c, g[n - 1], order[n])
    BY <2>1
  <2>3. P(g, k + 1)
    BY <2>2
  <2> QED BY <2>3
<1>3. Missing = {}
  <2> HIDE DEF P
  <2> SUFFICES ASSUME Missing # {} PROVE FALSE
    OBVIOUS
  <2>1. PICK k \in Missing : \A j \in Missing : k <= j
    BY LeastNumber
  <2>2. k \in Nat /\ k # 0
    BY <1>1
  <2>3. k - 1 \in Nat /\ k - 1 \notin Missing /\ (k - 1) + 1 = k
    BY <2>1, <2>2
  <2> QED BY <1>2, <2>1, <2>3
<1>4. \E f : P(f, Len(order))
  BY <1>3
<1>5. P(Placing(c, order), Len(order))
  BY <1>4, Zenon DEF Placing
<1> HIDE DEF P
<1>6. P(Placing(c, order), Len(order)) => Placing(c, order)[0] = PrimaryPlaced(c)
  BY DEF P
<1>7. P(Placing(c, order), Len(order)) => \A n \in 1..Len(order) :
        Placing(c, order)[n] = Place(c, Placing(c, order)[n - 1], order[n])
  BY DEF P
<1> QED BY <1>5, <1>6, <1>7

LEMMA PlaceTyped ==
    ASSUME NEW c \in Configs, NEW i \in Registered(c),
           NEW d \in [x : [LogicalMonitors -> Int], next : Int]
    PROVE  Place(c, d, i) \in [x : [LogicalMonitors -> Int], next : Int]
<1>1. WidthOf(c, i) \in Nat
  <2>1. \E m \in Monitors : c.lm[m] = i
    BY DEF Registered, Members
  <2>2. (CHOOSE m \in Monitors : c.lm[m] = i) \in Monitors
    BY <2>1
  <2> QED BY <2>2 DEF WidthOf, Configs
<1> DEFINE x == [d.x EXCEPT ![i] = d.next]
<1>2. x \in [LogicalMonitors -> Int]
  BY PositionTyped
<1>3. Place(c, d, i) = [x |-> x, next |-> d.next + WidthOf(c, i)]
  BY DEF Place
<1> HIDE DEF x
<1> QED BY <1>1, <1>2, <1>3

LEMMA MakeLinearTyped ==
    ASSUME NEW c \in Configs, c.primary # None => c.lm[c.primary] # None,
           NEW d \in MakeLinear(c)
    PROVE  d \in Configs
<1> DEFINE T == [x : [LogicalMonitors -> Int], next : Int]
<1>1. PICK order \in SetToSeqs(OthersOf(c)) :
        d = [c EXCEPT !.x = Placing(c, order)[Len(order)].x]
  BY DEF MakeLinear
<1>2. OthersOf(c) \subseteq Registered(c) /\ IsFiniteSet(OthersOf(c))
  <2>1. OthersOf(c) \in SUBSET LogicalMonitors
    BY DEF OthersOf, Registered
  <2>2. IsFiniteSet(LogicalMonitors)
    BY NMonitorsAssumption, FS_Interval DEF LogicalMonitors
  <2>3. IsFiniteSet(OthersOf(c))
    BY <2>1, <2>2, FS_Subset
  <2> QED BY <2>3 DEF OthersOf
<1>3. order \in [1..Cardinality(OthersOf(c)) -> OthersOf(c)]
      /\ Cardinality(OthersOf(c)) \in Nat
  BY <1>2, FS_CardinalityType DEF SetToSeqs
<1>4. order \in Seq(OthersOf(c))
  BY <1>3
<1>5. Len(order) \in Nat /\ \A n \in 1..Len(order) : order[n] \in OthersOf(c)
  BY <1>4
<1> DEFINE f == Placing(c, order)
<1>6. /\ f[0] = PrimaryPlaced(c)
      /\ \A n \in 1..Len(order) : f[n] = Place(c, f[n - 1], order[n])
  BY <1>5, PlacingSteps
<1>7. PrimaryPlaced(c) \in T
  <2> DEFINE start == [x |-> c.x, next |-> 0]
  <2>1. start \in T
    BY DEF Configs
  <2>2. c.primary # None => c.lm[c.primary] \in Registered(c)
    BY DEF Registered, Members, Configs
  <2>3. PrimaryPlaced(c) = IF c.primary = None THEN start
                           ELSE Place(c, start, c.lm[c.primary])
    BY DEF PrimaryPlaced
  <2> HIDE DEF start
  <2> QED BY <2>1, <2>2, <2>3, PlaceTyped
<1> HIDE DEF f, T
<1>8. \A n \in 1..Len(order) : f[n - 1] \in T => f[n] \in T
  BY <1>2, <1>5, <1>6, PlaceTyped DEF T
<1>9. f[Len(order)] \in T
  BY <1>5, <1>6, <1>7, <1>8, EveryMember
<1>10. f[Len(order)].x \in [LogicalMonitors -> Int]
  BY <1>9 DEF T
<1> QED BY <1>1, <1>10, PositionsTyped DEF f


LEMMA SetCloningTyped ==
    ASSUME NEW c \in Configs, Good(c), NEW clone \in BOOLEAN, NEW d \in SetCloning(c, clone)
    PROVE  d \in Configs
<1>1. CASE clone = IsCloning(c)
  BY <1>1 DEF SetCloning
<1>2. CASE clone /\ ~IsCloning(c)
  BY <1>2, CloningTyped DEF SetCloning, IsCloning
<1>3. CASE ~clone /\ IsCloning(c)
  <2>1. d \in MakeLinear(Separate(c))
    BY <1>3 DEF SetCloning, IsCloning
  <2>2. Separate(c) \in Configs /\ Good(Separate(c))
    BY CloningTyped, JoinStep
  <2> QED BY <2>1, <2>2, MakeLinearTyped DEF Good
<1> QED BY <1>1, <1>2, <1>3 DEF IsCloning

\* One of finitely many positions is the least.
LEMMA LowestPosition ==
    ASSUME NEW x \in [LogicalMonitors -> Int], NEW used \in SUBSET LogicalMonitors, used # {}
    PROVE  \E j \in used : \A i \in used : x[j] <= x[i]
<1> DEFINE Upto(n) == {i \in used : i <= n}
           Has(n) == \/ Upto(n) = {}
                     \/ \E j \in Upto(n) : \A i \in Upto(n) : x[j] <= x[i]
           Bad == {n \in Nat : ~Has(n)}
<1>0. \A i \in used : i \in Nat /\ 1 <= i /\ i <= NMonitors + 1
  BY NMonitorsAssumption DEF LogicalMonitors, Monitors
<1>1. \A i \in used : x[i] \in Int
  OBVIOUS
<1>2. Upto(0) = {}
  <2> SUFFICES ASSUME NEW i \in used, i <= 0 PROVE FALSE
    OBVIOUS
  <2> QED BY <1>0
<1>3. ASSUME NEW n \in Nat, Has(n) PROVE Has(n + 1)
  <2>1. \A i \in used : i <= n + 1 <=> i <= n \/ i = n + 1
    <3> SUFFICES ASSUME NEW i \in used PROVE i <= n + 1 <=> i <= n \/ i = n + 1
      OBVIOUS
    <3>1. i \in Nat
      BY <1>0
    <3> HIDE DEF Has
    <3> QED BY <3>1
  <2>2. Upto(n + 1) \subseteq Upto(n) \cup {n + 1}
    BY <2>1
  <2>3. Upto(n) \subseteq Upto(n + 1) /\ Upto(n) \subseteq used
    BY <2>1
  <2>4. n + 1 \in Upto(n + 1) <=> n + 1 \in used
    BY <2>1
  <2> HIDE DEF Upto
  <2>5. CASE n + 1 \notin used
    <3>1. Upto(n + 1) = Upto(n)
      BY <2>2, <2>3, <2>4, <2>5
    <3> QED BY <1>3, <3>1
  <2>6. CASE n + 1 \in used
    <3>1. Upto(n + 1) = Upto(n) \cup {n + 1}
      BY <2>2, <2>3, <2>4, <2>6
    <3>2. CASE Upto(n) = {}
      BY <1>1, <2>6, <3>1, <3>2
    <3>3. CASE Upto(n) # {}
      <4>1. PICK j \in Upto(n) : \A i \in Upto(n) : x[j] <= x[i]
        BY <1>3, <3>3
      <4>2. x[j] \in Int /\ x[n + 1] \in Int /\ \A i \in Upto(n) : x[i] \in Int
        BY <1>1, <2>3, <2>6
      <4>3. CASE x[j] <= x[n + 1]
        BY <3>1, <4>1, <4>3
      <4>4. CASE ~ (x[j] <= x[n + 1])
        <5>1. \A i \in Upto(n) : x[n + 1] <= x[i]
          BY <4>1, <4>2, <4>4
        <5> QED BY <3>1, <4>2, <5>1
      <4> QED BY <4>3, <4>4
    <3> QED BY <3>2, <3>3
  <2> QED BY <2>5, <2>6
<1>4. Bad = {}
  <2>1. Has(0)
    BY <1>2
  <2> HIDE DEF Has
  <2> SUFFICES ASSUME Bad # {} PROVE FALSE
    OBVIOUS
  <2>2. PICK k \in Bad : \A j \in Bad : k <= j
    BY LeastNumber
  <2>3. k \in Nat /\ k # 0
    BY <2>1
  <2>4. k - 1 \in Nat /\ k - 1 \notin Bad /\ (k - 1) + 1 = k
    BY <2>2, <2>3
  <2> QED BY <1>3, <2>2, <2>4
<1>5. Upto(NMonitors + 1) = used
  BY <1>0
<1>6. Has(NMonitors + 1)
  <2>1. NMonitors + 1 \in Nat
    BY NMonitorsAssumption
  <2> HIDE DEF Has
  <2> QED BY <1>4, <2>1
<1> HIDE DEF Upto
<1> QED BY <1>5, <1>6

LEMMA NonOffsetTyped ==
    ASSUME NEW c \in Configs
    PROVE  NonOffset(c) \in Configs
<1> DEFINE used == Registered(c)
           all  == {c.x[i] : i \in used}
           low  == CHOOSE x \in all : \A i \in used : x <= c.x[i]
           x    == [i \in LogicalMonitors |-> IF i \in used THEN c.x[i] - low ELSE c.x[i]]
<1>1. CASE used = {}
  BY <1>1 DEF NonOffset
<1>2. CASE used # {}
  <2>1. used \in SUBSET LogicalMonitors /\ c.x \in [LogicalMonitors -> Int]
    BY DEF Registered, Configs
  <2>2. \E j \in used : \A i \in used : c.x[j] <= c.x[i]
    BY <1>2, <2>1, LowestPosition
  <2>3. \E y \in all : \A i \in used : y <= c.x[i]
    BY <2>2
  <2>4. low \in all
    BY <2>3
  <2>5. low \in Int
    <3> HIDE DEF low
    <3> QED BY <2>1, <2>4
  <2>6. NonOffset(c) = [c EXCEPT !.x = x]
    BY <1>2 DEF NonOffset
  <2> HIDE DEF low
  <2>7. x \in [LogicalMonitors -> Int]
    BY <2>1, <2>5
  <2> HIDE DEF x
  <2> QED BY <2>6, <2>7, PositionsTyped
<1> QED BY <1>1, <1>2

LEMMA InitTyped == Init => config \in Configs
<1> SUFFICES ASSUME Init PROVE config \in Configs
  OBVIOUS
<1>1. PICK s \in States :
        LET on == {m \in Monitors : s.of[m] # None}
        IN  \E m \in IF on = {} THEN {None} ELSE on : config = Construct(s, m)
  BY DEF Init
<1> DEFINE on == {m \in Monitors : s.of[m] # None}
<1>2. PICK m \in IF on = {} THEN {None} ELSE on : config = Construct(s, m)
  BY <1>1
<1>3. /\ s.of \in [Monitors -> Monitors \cup {None}]
      /\ s.x \in [Monitors -> 0..1]
      /\ \A k \in Monitors : s.mode[k] \in Nat
  <2>1. /\ s.of \in [Monitors -> Monitors \cup {None}]
        /\ s.x \in [Monitors -> 0..1]
        /\ \A k \in Monitors : /\ s.of[k] = None => s.mode[k] = None
                               /\ s.of[k] # None => s.mode[k] \in Widths[k]
    BY DEF States
  <2>2. \A k \in Monitors : Widths[k] \subseteq Nat
    BY ModesAssumption
  <2>3. None \in Nat
    BY DEF None
  <2> QED BY <2>1, <2>2, <2>3
<1> DEFINE f == Reading(s)
<1>4. f[0] = Blank /\ \A n \in 1..NMonitors : f[n] = Read(s, f[n - 1], n)
  BY ReadingSteps
<1>5. Blank \in Configs
  BY DEF Blank, Configs, None
<1> HIDE DEF f
<1>6. ASSUME NEW c \in Configs, NEW n \in Monitors
      PROVE  Read(s, c, n) \in Configs
  <2>1. CASE s.of[n] = None
    BY <2>1 DEF Read
  <2>2. CASE s.of[n] # None
    <3> DEFINE i == s.of[n]
               q == SetLogicalMonitor(c, n, i)
               mode == [q.mode EXCEPT ![n] = s.mode[n]]
               x == [q.x EXCEPT ![i] = s.x[i]]
               d == Read(s, c, n)
    <3>1. i \in LogicalMonitors /\ i \in Monitors
      BY <1>3, <2>2, NMonitorsAssumption DEF Monitors, LogicalMonitors
    <3>2. q \in Configs
      BY <3>1, SetLogicalMonitorTyped
    <3>3. d = [q EXCEPT !.mode = mode, !.x = x]
      BY <2>2 DEF Read
    <3> HIDE DEF q, d
    <3>4. mode \in [Monitors -> Nat]
      BY <1>3, <3>2 DEF Configs
    <3>5. x \in [LogicalMonitors -> Int]
      <4>1. q.x \in [LogicalMonitors -> Int] /\ s.x[i] \in Int
        BY <1>3, <3>1, <3>2 DEF Configs
      <4> HIDE DEF i
      <4> QED BY <4>1, PositionTyped
    <3> HIDE DEF mode, x
    <3>6. d \in Configs
      BY <3>2, <3>3, <3>4, <3>5 DEF Configs
    <3> QED BY <3>6 DEF d
  <2> QED BY <2>1, <2>2
<1>7. \A n \in 1..NMonitors : f[n - 1] \in Configs => f[n] \in Configs
  BY <1>4, <1>6 DEF Monitors
<1>8. f[NMonitors] \in Configs
  BY <1>4, <1>5, <1>7, EveryMember, NMonitorsAssumption
<1>9. config = IF m = None THEN f[NMonitors] ELSE SetPrimary(f[NMonitors], m)
  BY <1>2 DEF Construct, f
<1>10. m \in Monitors \cup {None}
  BY <1>2
<1> QED BY <1>8, <1>9, <1>10, SetPrimaryTyped

LEMMA NextTyped ==
    ASSUME IInv, config \in Configs, [Next]_config
    PROVE  config' \in Configs
<1>1. ASSUME NEW m \in Monitors, NEW active \in BOOLEAN, Activate(m, active)
      PROVE  config' \in Configs
  BY <1>1, SetActiveTyped DEF Activate
<1>2. ASSUME NEW m \in Monitors, MakePrimary(m)
      PROVE  config' \in Configs
  BY <1>2, SetPrimaryTyped DEF MakePrimary
<1>3. ASSUME NEW clone \in BOOLEAN, Clone(clone)
      PROVE  config' \in Configs
  BY <1>3, SetCloningTyped DEF IInv, Clone
<1>4. ASSUME NEW m \in Monitors, NEW width \in Widths[m], SetMode(m, width)
      PROVE  config' \in Configs
  <2> DEFINE mode == [config.mode EXCEPT ![m] = width]
  <2>1. config' = [config EXCEPT !.mode = mode]
    BY <1>4 DEF SetMode
  <2>2. mode \in [Monitors -> Nat]
    BY ModesAssumption DEF Configs
  <2> HIDE DEF mode
  <2> QED BY <2>1, <2>2, ModeTyped
<1>5. ASSUME NEW m \in Monitors, NEW v \in Positions, SetPosition(m, v)
      PROVE  config' \in Configs
  <2> DEFINE x == [config.x EXCEPT ![config.lm[m]] = v]
  <2>1. config' = [config EXCEPT !.x = x]
    BY <1>5 DEF SetPosition
  <2>2. x \in [LogicalMonitors -> Int]
    <3>1. config.x \in [LogicalMonitors -> Int] /\ v \in Int
      BY PositionsAssumption DEF Configs
    <3> QED BY <3>1, PositionTyped
  <2> HIDE DEF x
  <2> QED BY <2>1, <2>2, PositionsTyped
<1>6. ASSUME NEW width \in {w \in Widths[1] : \A m \in Monitors : w \in Widths[m]},
             SetModeOnAll(width)
      PROVE  config' \in Configs
  <2> DEFINE mode == [m \in Monitors |-> width]
             x == [i \in LogicalMonitors |->
                        IF i \in Registered(config) THEN 0 ELSE config.x[i]]
  <2>1. config' = [config EXCEPT !.mode = mode, !.x = x]
    BY <1>6 DEF SetModeOnAll
  <2>2. mode \in [Monitors -> Nat]
    BY ModesAssumption
  <2>3. x \in [LogicalMonitors -> Int]
    BY DEF Configs
  <2> HIDE DEF mode, x
  <2> QED BY <2>1, <2>2, <2>3 DEF Configs
<1>7. ASSUME EnsureNonOffset
      PROVE  config' \in Configs
  BY <1>7, NonOffsetTyped DEF EnsureNonOffset
<1>8. CASE UNCHANGED config
  BY <1>8
<1>9. CASE Next
  <2>1. CASE \E m \in Monitors :
                \/ \E active \in BOOLEAN : Activate(m, active)
                \/ MakePrimary(m)
                \/ \E width \in Widths[m] : SetMode(m, width)
                \/ \E x \in Positions : SetPosition(m, x)
    BY <2>1, <1>1, <1>2, <1>4, <1>5
  <2>2. CASE \E clone \in BOOLEAN : Clone(clone)
    BY <2>2, <1>3
  <2>3. CASE \E width \in {w \in Widths[1] : \A m \in Monitors : w \in Widths[m]} :
                SetModeOnAll(width)
    BY <2>3, <1>6
  <2> QED BY <1>7, <1>9, <2>1, <2>2, <2>3 DEF Next
<1> QED BY <1>8, <1>9

\* The configuration keeps its type, wherever monitors are dragged and however often
\* they are joined: logical monitors in use stay numbers that exist, positions
\* integers and the primary a monitor.
THEOREM TypeCorrect == Spec => []TypeOK
<1>1. Init => config \in Configs
  BY InitTyped
<1>2. IInv /\ config \in Configs /\ [Next]_config => (config \in Configs)'
  BY NextTyped
<1>3. config \in Configs <=> TypeOK
  BY DEF TypeOK
<1> QED BY <1>1, <1>2, <1>3, IInvHolds, PTL DEF Spec


\* Whatever is turned on and off, mirrored, joined and made the primary, and in any
\* order, exactly one of the logical monitors in use is marked as the primary, the
\* one of the monitor self->primary, and there is one whenever a monitor is on: for
\* any number of monitors.
THEOREM OnePrimaryHolds == Spec => []OnePrimary
<1>1. IInv => OnePrimary
  <2> SUFFICES ASSUME Good(config) PROVE OnePrimary
    BY DEF IInv
  <2>1. config.primary = None <=> ActiveMonitors(config) = {}
    BY Numbers DEF Good, Shape, ActiveMonitors
  <2>2. CASE config.primary = None
    BY <2>1, <2>2 DEF Good, FlagOfPrimary, Registered, OnePrimary
  <2>3. CASE config.primary # None
    <3>1. /\ config.lm[config.primary] \in LogicalMonitors
          /\ config.lm[config.primary] \in Registered(config)
      BY <2>3 DEF Good, Shape, Registered, Members
    <3>2. {i \in Registered(config) : config.flag[i]} = {config.lm[config.primary]}
      BY <2>3, <3>1 DEF Good, FlagOfPrimary, Registered
    <3> QED BY <2>1, <2>3, <3>2 DEF OnePrimary
  <2> QED BY <2>2, <2>3
<1> QED BY <1>1, IInvHolds, PTL

\* The library implements the operations of DisplayLayout, whose users need not
\* know of logical monitors, flags and the order of the moves.
THEOREM ImplementsLayoutHolds == Spec => ImplementsLayout
<1>1. Init => Layout!Init
  BY InitIsGood, IsLayout DEF Layout!Init
<1>2. IInv /\ [Next]_config => [Layout!Next]_(LayoutOf(config))
  <2> SUFFICES ASSUME IInv, [Next]_config
               PROVE  [Layout!Next]_(LayoutOf(config))
    OBVIOUS
  <2>1. Follows(config, config')
    BY NextFollows
  <2>2. LayoutOf(config)' = LayoutOf(config')
    BY DEF LayoutOf, Members, Registered
  <2>3. LayoutOf(config).monitors = Monitors
    BY DEF LayoutOf
  <2> QED BY <2>1, <2>2, <2>3 DEF Follows, Layout!Next
<1> QED BY <1>1, <1>2, IInvHolds, PTL DEF Spec, ImplementsLayout, Layout!Spec

------------------------------------------------------------------------------
(* Monitors that stop mirroring *)

\* The logical monitors R of c stand side by side from 0 up to d.next, their order
\* apart, and the one of the primary is the first.
Row(c, d, R) ==
    /\ R \subseteq Registered(c) /\ c.lm[c.primary] \in R
    /\ d.x \in [LogicalMonitors -> Int] /\ d.next \in Nat
    /\ d.x[c.lm[c.primary]] = 0
    /\ \A i \in R : 0 <= d.x[i] /\ d.x[i] + WidthOf(c, i) <= d.next
    /\ \A i, j \in R : \/ i = j \/ d.x[i] + WidthOf(c, i) <= d.x[j]
                       \/ d.x[j] + WidthOf(c, j) <= d.x[i]
    /\ \A y \in Nat : y < d.next =>
            \E i \in R : d.x[i] <= y /\ y < d.x[i] + WidthOf(c, i)

LEMMA WidthIsNumber ==
    ASSUME NEW c \in Configs, NEW i \in Registered(c)
    PROVE  WidthOf(c, i) \in Nat
<1>1. \E m \in Monitors : c.lm[m] = i
  BY DEF Registered, Members
<1>2. (CHOOSE m \in Monitors : c.lm[m] = i) \in Monitors
  BY <1>1
<1> QED BY <1>2 DEF WidthOf, Configs

LEMMA PlaceExtendsRow ==
    ASSUME NEW c \in Configs, NEW d, NEW R, Row(c, d, R), NEW i \in Registered(c) \ R
    PROVE  Row(c, Place(c, d, i), R \cup {i})
<1> DEFINE w == [j \in Registered(c) |-> WidthOf(c, j)]
           e == Place(c, d, i)
           p == c.lm[c.primary]
<1>1. w \in [Registered(c) -> Nat] /\ \A j \in Registered(c) : WidthOf(c, j) = w[j]
  BY WidthIsNumber
<1>2. Registered(c) \subseteq LogicalMonitors
  BY DEF Registered
<1>3. e.x = [d.x EXCEPT ![i] = d.next] /\ e.next = d.next + w[i]
  BY <1>1 DEF Place
<1> HIDE DEF w, e
<1>4. /\ R \subseteq Registered(c) /\ p \in R
      /\ d.x \in [LogicalMonitors -> Int] /\ d.next \in Nat
      /\ d.x[p] = 0
      /\ \A j \in R : 0 <= d.x[j] /\ d.x[j] + w[j] <= d.next
      /\ \A j, k \in R : j = k \/ d.x[j] + w[j] <= d.x[k] \/ d.x[k] + w[k] <= d.x[j]
      /\ \A y \in Nat : y < d.next => \E j \in R : d.x[j] <= y /\ y < d.x[j] + w[j]
  BY <1>1 DEF Row
<1> HIDE DEF p
<1>5. /\ e.x \in [LogicalMonitors -> Int] /\ e.next \in Nat
      /\ e.x[i] = d.next /\ \A j \in R : e.x[j] = d.x[j]
      /\ w[i] \in Nat /\ \A j \in R : w[j] \in Nat /\ d.x[j] \in Int
  BY <1>1, <1>2, <1>3, <1>4
<1>6. \A j \in R \cup {i} : 0 <= e.x[j] /\ e.x[j] + w[j] <= e.next
  BY <1>3, <1>4, <1>5
<1>7. \A j, k \in R \cup {i} :
            j = k \/ e.x[j] + w[j] <= e.x[k] \/ e.x[k] + w[k] <= e.x[j]
  BY <1>4, <1>5
<1>8. \A y \in Nat : y < e.next => \E j \in R \cup {i} : e.x[j] <= y /\ y < e.x[j] + w[j]
  <2> SUFFICES ASSUME NEW y \in Nat, y < e.next
               PROVE  \E j \in R \cup {i} : e.x[j] <= y /\ y < e.x[j] + w[j]
    OBVIOUS
  <2>1. CASE y < d.next
    BY <1>4, <1>5, <2>1
  <2>2. CASE ~(y < d.next)
    <3>1. e.x[i] <= y /\ y < e.x[i] + w[i]
      BY <1>3, <1>4, <1>5, <2>2
    <3> QED BY <3>1
  <2> QED BY <2>1, <2>2
<1>9. R \cup {i} \subseteq Registered(c) /\ p \in R \cup {i} /\ e.x[p] = 0
  BY <1>4, <1>5
<1> QED BY <1>1, <1>5, <1>6, <1>7, <1>8, <1>9 DEF Row, p, e

LEMMA PrimaryStartsRow ==
    ASSUME NEW c \in Configs, c.primary # None, c.lm[c.primary] \in Registered(c)
    PROVE  Row(c, PrimaryPlaced(c), {c.lm[c.primary]})
<1> DEFINE i == c.lm[c.primary]
           w == WidthOf(c, i)
           e == PrimaryPlaced(c)
<1>1. w \in Nat /\ i \in LogicalMonitors /\ c.x \in [LogicalMonitors -> Int]
  BY WidthIsNumber DEF Registered, Configs
<1>2. e.x = [c.x EXCEPT ![i] = 0] /\ e.next = 0 + w
  BY DEF PrimaryPlaced, Place
<1> HIDE DEF e
<1>3. e.x \in [LogicalMonitors -> Int] /\ e.x[i] = 0 /\ e.next = w
  BY <1>1, <1>2
<1> HIDE DEF i
<1>4. \A y \in Nat : y < e.next => e.x[i] <= y /\ y < e.x[i] + w
  BY <1>1, <1>3
<1>5. 0 <= e.x[i] /\ e.x[i] + w <= e.next
  BY <1>1, <1>3
<1> QED BY <1>1, <1>3, <1>4, <1>5 DEF Row, e, i

\* Whatever the order of the hash table, every logical monitor finds its place.
LEMMA AllInRow ==
    ASSUME NEW c \in Configs, c.primary # None, c.lm[c.primary] \in Registered(c),
           NEW d \in MakeLinear(c)
    PROVE  \E e : d = [c EXCEPT !.x = e.x] /\ Row(c, e, Registered(c))
<1> DEFINE p == c.lm[c.primary]
           S == OthersOf(c)
<1>1. PICK order \in SetToSeqs(S) :
        d = [c EXCEPT !.x = Placing(c, order)[Len(order)].x]
  BY DEF MakeLinear
<1>2. S = Registered(c) \ {p}
  BY DEF OthersOf
<1>3. IsFiniteSet(S)
  <2>1. S \in SUBSET LogicalMonitors
    BY <1>2 DEF Registered
  <2>2. IsFiniteSet(LogicalMonitors)
    BY NMonitorsAssumption, FS_Interval DEF LogicalMonitors
  <2> QED BY <2>1, <2>2, FS_Subset
<1> DEFINE N == Cardinality(S)
           f == Placing(c, order)
           R(n) == {p} \cup {order[k] : k \in 1..n}
           Bad == {n \in Nat : n <= N /\ ~Row(c, f[n], R(n))}
<1> HIDE DEF S, p
<1>4. /\ N \in Nat /\ order \in [1..N -> S]
      /\ \A i, j \in 1..N : i # j => order[i] # order[j]
  BY <1>3, FS_CardinalityType DEF SetToSeqs
<1>5. order \in Seq(S) /\ Len(order) = N
  BY <1>4
<1>6. \A s \in S : \E k \in 1..N : order[k] = s
  <2>1. order \in Injection(1..N, S)
    BY <1>4 DEF Injection, IsInjective
  <2>2. Cardinality(1..N) = N
    BY <1>4, FS_Interval
  <2>3. order \in Surjection(1..N, S)
    BY <1>3, <2>1, <2>2, FS_Injection
  <2> QED BY <2>3 DEF Surjection
<1>7. /\ f[0] = PrimaryPlaced(c)
      /\ \A n \in 1..N : f[n] = Place(c, f[n - 1], order[n])
  BY <1>4, <1>5, PlacingSteps
<1> HIDE DEF f, N
<1>8. Row(c, f[0], R(0))
  <2>1. R(0) = {p}
    OBVIOUS
  <2> QED BY <1>7, <2>1, PrimaryStartsRow DEF p
<1>9. ASSUME NEW n \in Nat, n + 1 <= N, Row(c, f[n], R(n))
      PROVE  Row(c, f[n + 1], R(n + 1))
  <2>1. n + 1 \in 1..N /\ (n + 1) - 1 = n
    BY <1>4, <1>9
  <2>2. f[n + 1] = Place(c, f[n], order[n + 1])
    BY <1>7, <2>1
  <2>3. order[n + 1] \in Registered(c) \ R(n)
    <3>1. order[n + 1] \in Registered(c) /\ order[n + 1] # p
      BY <1>2, <1>4, <2>1
    <3>2. ASSUME NEW k \in 1..n PROVE order[n + 1] # order[k]
      BY <1>4, <1>9, <2>1
    <3> QED BY <3>1, <3>2
  <2>4. R(n + 1) = R(n) \cup {order[n + 1]}
    <3>1. 1..n + 1 = (1..n) \cup {n + 1}
      BY <1>9
    <3> QED BY <3>1
  <2> HIDE DEF R
  <2> QED BY <1>9, <2>2, <2>3, <2>4, PlaceExtendsRow
<1>10. Bad = {}
  <2> HIDE DEF R
  <2> SUFFICES ASSUME Bad # {} PROVE FALSE
    OBVIOUS
  <2>1. PICK k \in Bad : \A j \in Bad : k <= j
    BY LeastNumber
  <2>2. k \in Nat /\ k # 0 /\ k <= N
    BY <1>8
  <2>3. k - 1 \in Nat /\ k - 1 \notin Bad /\ (k - 1) + 1 = k /\ k - 1 <= N
    BY <1>4, <2>1, <2>2
  <2> QED BY <1>9, <2>1, <2>2, <2>3
<1>11. Row(c, f[N], R(N))
  <2> HIDE DEF R
  <2>1. N \in Nat /\ N <= N
    BY <1>4
  <2> QED BY <1>10, <2>1
<1>12. R(N) = Registered(c)
  <2>1. R(N) = {p} \cup S
    BY <1>4, <1>6
  <2> QED BY <1>2, <2>1 DEF p
<1> QED BY <1>1, <1>5, <1>11, <1>12 DEF f

\* As the property says it.
Side(d) ==
    LET Span(m) == d.x[d.lm[m]] .. d.x[d.lm[m]] + d.mode[m] - 1
        all     == UNION {Span(m) : m \in Monitors}
    IN  /\ d.x[d.lm[d.primary]] = 0
        /\ \A m, n \in Monitors : m = n \/ Span(m) \cap Span(n) = {}
        /\ all = 0 .. Cardinality(all) - 1

LEMMA RowIsSide ==
    ASSUME NEW c \in Configs, c.primary # None,
           \A m \in Monitors : c.lm[m] # None,
           \A m, n \in Monitors : m # n => c.lm[m] # c.lm[n],
           NEW d \in MakeLinear(c)
    PROVE  Side(d)
<1>1. \A m \in Monitors : c.lm[m] \in Registered(c)
  BY DEF Configs, Registered, Members
<1>2. c.primary \in Monitors
  BY DEF Configs
<1>3. PICK e : d = [c EXCEPT !.x = e.x] /\ Row(c, e, Registered(c))
  BY <1>1, <1>2, AllInRow
<1>4. d.lm = c.lm /\ d.mode = c.mode /\ d.primary = c.primary /\ d.x = e.x
  BY <1>3 DEF Configs
<1>5. \A m \in Monitors : WidthOf(c, c.lm[m]) = c.mode[m]
  <2> SUFFICES ASSUME NEW m \in Monitors PROVE WidthOf(c, c.lm[m]) = c.mode[m]
    OBVIOUS
  <2>1. (CHOOSE n \in Monitors : c.lm[n] = c.lm[m]) = m
    OBVIOUS
  <2> QED BY <2>1 DEF WidthOf
<1> DEFINE at == [m \in Monitors |-> e.x[c.lm[m]]]
           wide == [m \in Monitors |-> c.mode[m]]
           N == e.next
<1>6. \A m \in Monitors : at[m] \in Int /\ wide[m] \in Nat
  BY <1>1, <1>3 DEF Row, Configs, Registered
<1>7. N \in Nat /\ d.x[d.lm[d.primary]] = 0
  BY <1>3, <1>4 DEF Row
<1>8. \A m \in Monitors : 0 <= at[m] /\ at[m] + wide[m] <= N
  BY <1>1, <1>3, <1>5 DEF Row
<1>9. \A m, n \in Monitors : \/ m = n \/ at[m] + wide[m] <= at[n]
                             \/ at[n] + wide[n] <= at[m]
  BY <1>1, <1>3, <1>5 DEF Row
<1>10. \A y \in Nat : y < N => \E m \in Monitors : at[m] <= y /\ y < at[m] + wide[m]
  <2> SUFFICES ASSUME NEW y \in Nat, y < N
               PROVE  \E m \in Monitors : at[m] <= y /\ y < at[m] + wide[m]
    OBVIOUS
  <2>1. PICK i \in Registered(c) : e.x[i] <= y /\ y < e.x[i] + WidthOf(c, i)
    BY <1>3 DEF Row
  <2>2. PICK m \in Monitors : c.lm[m] = i
    BY DEF Registered, Members
  <2> QED BY <1>5, <2>1, <2>2
<1> DEFINE Span(m) == d.x[d.lm[m]] .. d.x[d.lm[m]] + d.mode[m] - 1
           all     == UNION {Span(m) : m \in Monitors}
<1>11. \A m \in Monitors : Span(m) = at[m] .. at[m] + wide[m] - 1
  BY <1>4
<1> HIDE DEF at, wide, N, Span
<1>12. \A m, n \in Monitors : m = n \/ Span(m) \cap Span(n) = {}
  <2> SUFFICES ASSUME NEW m \in Monitors, NEW n \in Monitors, m # n,
                      NEW y \in Span(m), y \in Span(n)
               PROVE  FALSE
    OBVIOUS
  <2>1. /\ at[m] <= y /\ y <= at[m] + wide[m] - 1
        /\ at[n] <= y /\ y <= at[n] + wide[n] - 1 /\ y \in Int
    BY <1>6, <1>11, SMTT(30)
  <2> QED BY <1>6, <1>9, <2>1
<1>13. all = 0 .. N - 1
  <2>1. \A m \in Monitors : \A y \in Span(m) : y \in 0 .. N - 1
    BY <1>6, <1>7, <1>8, <1>11
  <2>2. ASSUME NEW y \in 0 .. N - 1 PROVE \E m \in Monitors : y \in Span(m)
    <3>1. y \in Nat /\ y < N
      BY <1>7
    <3>2. PICK m \in Monitors : at[m] <= y /\ y < at[m] + wide[m]
      BY <1>10, <3>1
    <3> QED BY <1>6, <1>11, <3>1, <3>2
  <2> QED BY <2>1, <2>2
<1>14. Cardinality(all) = N
  <2>1. 0 \in Int /\ N - 1 \in Int
    BY <1>7
  <2>2. Cardinality(0 .. N - 1) = IF 0 > N - 1 THEN 0 ELSE (N - 1) - 0 + 1
    BY <2>1, FS_Interval
  <2>3. Cardinality(all) = Cardinality(0 .. N - 1)
    BY <1>13
  <2> HIDE DEF all
  <2> QED BY <1>7, <2>2, <2>3
<1> QED BY <1>7, <1>12, <1>13, <1>14 DEF Side, Span

LEMMA CountedMonitors ==
    ASSUME NEW c
    PROVE  /\ IsFiniteSet(Monitors) /\ Cardinality(Monitors) = NMonitors
           /\ IsFiniteSet(Registered(c))
           /\ \A S \in SUBSET Monitors : IsFiniteSet(S) /\ Cardinality(S) \in Nat
<1>1. IsFiniteSet(Monitors) /\ Cardinality(Monitors) = NMonitors
  <2>1. /\ IsFiniteSet(1..NMonitors)
        /\ Cardinality(1..NMonitors) = IF 1 > NMonitors THEN 0 ELSE NMonitors - 1 + 1
    BY NMonitorsAssumption, FS_Interval
  <2> QED BY <2>1, NMonitorsAssumption DEF Monitors
<1>2. IsFiniteSet(LogicalMonitors)
  BY NMonitorsAssumption, FS_Interval DEF LogicalMonitors
<1>3. Registered(c) \in SUBSET LogicalMonitors
  BY DEF Registered
<1> QED BY <1>1, <1>2, <1>3, FS_Subset, FS_CardinalityType

\* A configuration that mirrors has two monitors on, and one logical monitor.
LEMMA MirroringFacts ==
    ASSUME NEW c, IsCloning(c)
    PROVE  /\ \E r : Registered(c) = {r}
           /\ NMonitors > 1
           /\ \A m \in Monitors : c.lm[m] = None => NMonitors > 2
<1>1. IsFiniteSet(Registered(c)) /\ Cardinality(Registered(c)) = 1
  BY CountedMonitors DEF IsCloning
<1>2. \E r : Registered(c) = {r}
  BY <1>1, FS_Singleton
<1> DEFINE on == ActiveMonitors(c)
<1>3. on \in SUBSET Monitors /\ Cardinality(on) > 1 /\ Cardinality(on) \in Nat
  BY CountedMonitors DEF ActiveMonitors, IsCloning
<1>4. IsFiniteSet(Monitors) /\ Cardinality(Monitors) = NMonitors
  BY CountedMonitors
<1>5. NMonitors > 1
  <2>1. Cardinality(on) <= Cardinality(Monitors)
    BY <1>3, <1>4, FS_Subset
  <2> QED BY <1>3, <1>4, <2>1, NMonitorsAssumption
<1>6. ASSUME NEW m \in Monitors, c.lm[m] = None
      PROVE  NMonitors > 2
  <2> DEFINE S == Monitors \ {m}
  <2>1. IsFiniteSet(S) /\ Cardinality(S) = NMonitors - 1
    BY <1>4, FS_RemoveElement
  <2>2. on \in SUBSET S
    BY <1>6 DEF ActiveMonitors
  <2>3. Cardinality(on) <= Cardinality(S)
    BY <2>1, <2>2, FS_Subset
  <2> QED BY <1>3, <2>1, <2>3, NMonitorsAssumption
<1> QED BY <1>2, <1>5, <1>6

\* Turning one monitor on or off does not give every monitor a logical one of its own.
LEMMA OneMoveIsNoJoin ==
    ASSUME NEW c, IsCloning(c), NEW d, NEW m \in Monitors, NEW i,
           \/ Registered(d) \subseteq Registered(c)
           \/ c.lm[m] = None /\ Registered(d) \subseteq Registered(c) \cup {i}
    PROVE  Cardinality(Registered(d)) # NMonitors
<1>1. PICK r : Registered(c) = {r}
  BY MirroringFacts
<1>2. /\ IsFiniteSet({r}) /\ Cardinality({r}) = 1
      /\ IsFiniteSet({r} \cup {i}) /\ Cardinality({r} \cup {i}) <= 2
  <2>1. IsFiniteSet({r}) /\ Cardinality({r}) = 1
    BY FS_Singleton
  <2>2. /\ IsFiniteSet({r} \cup {i})
        /\ Cardinality({r} \cup {i}) = IF i \in {r} THEN Cardinality({r})
                                       ELSE Cardinality({r}) + 1
    BY <2>1, FS_AddElement
  <2> QED BY <2>1, <2>2
<1>3. IsFiniteSet(Registered(d)) /\ Cardinality(Registered(d)) \in Nat
  BY CountedMonitors, FS_CardinalityType
<1>4. CASE Registered(d) \subseteq Registered(c)
  <2>1. Cardinality(Registered(d)) <= 1
    BY <1>1, <1>2, <1>4, FS_Subset
  <2> QED BY <1>3, <2>1, MirroringFacts, NMonitorsAssumption
<1>5. CASE c.lm[m] = None /\ Registered(d) \subseteq Registered(c) \cup {i}
  <2>1. Cardinality(Registered(d)) <= Cardinality({r} \cup {i})
    BY <1>1, <1>2, <1>5, FS_Subset
  <2>2. Cardinality({r} \cup {i}) \in Nat
    BY <1>2, FS_CardinalityType
  <2> QED BY <1>2, <1>3, <1>5, <2>1, <2>2, MirroringFacts, NMonitorsAssumption
<1> QED BY <1>4, <1>5

LEMMA SameRegistered ==
    ASSUME NEW c, NEW d, d.lm = c.lm
    PROVE  Registered(d) = Registered(c)
  BY DEF Registered, Members

LEMMA MovedRegistered ==
    ASSUME NEW c, c.lm \in [Monitors -> LogicalMonitors \cup {None}], NEW d,
           NEW m \in Monitors, NEW i, d.lm = [c.lm EXCEPT ![m] = i]
    PROVE  /\ Registered(d) \subseteq Registered(c) \cup {i}
           /\ i = None => Registered(d) \subseteq Registered(c)
<1>1. ASSUME NEW j \in Registered(d), j # i
      PROVE  j \in Registered(c)
  <2>1. PICK n \in Monitors : d.lm[n] = j
    BY DEF Registered, Members
  <2>2. c.lm[n] = j
    BY <1>1, <2>1
  <2> QED BY <2>2 DEF Registered, Members
<1> QED BY <1>1, Numbers DEF Registered

LEMMA SetActiveIsNoJoin ==
    ASSUME NEW c, Good(c), IsCloning(c), NEW m \in Monitors, NEW active \in BOOLEAN,
           NEW d \in SetActive(c, m, active)
    PROVE  Cardinality(Registered(d)) # NMonitors
<1> DEFINE on == [c EXCEPT !.mode[m] = IF @ = None THEN Preferred[m] ELSE @]
           i  == Fresh(c)
<1>1. OtherModes(c, on)
  <2>1. on = [c EXCEPT !.mode = [c.mode EXCEPT ![m] =
                                    IF c.mode[m] = None THEN Preferred[m] ELSE c.mode[m]]]
    OBVIOUS
  <2> HIDE DEF on
  <2> QED BY <2>1, ChangedMode DEF Good
<1>2. /\ active /\ c.lm[m] = None => d \in AppendRight(SetLogicalMonitor(on, m, i), i)
      /\ active /\ c.lm[m] # None => d = on
      /\ ~active => d = SetLogicalMonitor(c, m, None)
  <2>1. CASE active /\ c.lm[m] = None
    BY <2>1 DEF SetActive
  <2>2. CASE active /\ c.lm[m] # None
    BY <2>2 DEF SetActive
  <2>3. CASE ~active
    BY <2>3 DEF SetActive
  <2> QED BY <2>1, <2>2, <2>3
<1> HIDE DEF on
<1>3. Good(on) /\ on.lm = c.lm
  BY <1>1, OtherModesFacts
<1>4. i \in LogicalMonitors /\ \A n \in Monitors : c.lm[n] # i
  BY FreshIsUnused DEF Good, Shape
<1> HIDE DEF i
<1>5. c.lm \in [Monitors -> LogicalMonitors \cup {None}]
  BY DEF Good, Shape
<1>6. CASE active /\ c.lm[m] = None
  <2> DEFINE q == SetLogicalMonitor(on, m, i)
  <2>1. Good(q) /\ q.lm = [c.lm EXCEPT ![m] = i]
    BY <1>3, <1>4, MoveFacts
  <2> HIDE DEF q
  <2>2. OtherModes(q, d)
    BY <1>2, <1>6, <2>1, AppendRightFacts DEF q, Good
  <2>3. d.lm = [c.lm EXCEPT ![m] = i]
    BY <2>1, <2>2, OtherModesFacts
  <2>4. Registered(d) \subseteq Registered(c) \cup {i}
    BY <1>5, <2>3, MovedRegistered
  <2> QED BY <1>6, <2>4, OneMoveIsNoJoin
<1>7. CASE active /\ c.lm[m] # None
  <2>1. Registered(d) = Registered(c)
    BY <1>2, <1>3, <1>7, SameRegistered
  <2> QED BY <2>1, OneMoveIsNoJoin
<1>8. CASE ~active
  <2>1. d.lm = [c.lm EXCEPT ![m] = None]
    BY <1>2, <1>8, MoveFacts
  <2>2. Registered(d) \subseteq Registered(c)
    BY <1>5, <2>1, MovedRegistered
  <2> QED BY <2>2, OneMoveIsNoJoin
<1> QED BY <1>6, <1>7, <1>8

\* Only cc_display_config_set_cloning parts monitors that mirror each other.
LEMMA OnlyJoining ==
    ASSUME Good(config), config \in Configs, IsCloning(config), [Next]_config,
           Cardinality(Registered(config')) = NMonitors
    PROVE  config' \in MakeLinear(Separate(config))
<1>1. 1 \in Monitors
  BY MirroringFacts, NMonitorsAssumption DEF Monitors
<1>2. config'.lm # config.lm
  BY <1>1, SameRegistered, OneMoveIsNoJoin
<1>3. ~UNCHANGED config
  BY <1>2
<1>4. ASSUME NEW m \in Monitors, NEW active \in BOOLEAN, Activate(m, active) PROVE FALSE
  BY <1>4, SetActiveIsNoJoin DEF Activate
<1>5. ASSUME NEW m \in Monitors, MakePrimary(m) PROVE FALSE
  BY <1>2, <1>5 DEF MakePrimary, SetPrimary, Configs
<1>6. ASSUME NEW m \in Monitors, NEW width, SetMode(m, width) PROVE FALSE
  BY <1>2, <1>6 DEF SetMode, Configs
<1>7. ASSUME NEW m \in Monitors, NEW x, SetPosition(m, x) PROVE FALSE
  BY <1>2, <1>7 DEF SetPosition, Configs
<1>8. ASSUME NEW width, SetModeOnAll(width) PROVE FALSE
  BY <1>2, <1>8 DEF SetModeOnAll, Configs
<1>9. ASSUME EnsureNonOffset PROVE FALSE
  BY <1>2, <1>9 DEF EnsureNonOffset, NonOffset, Configs
<1>10. ASSUME NEW clone \in BOOLEAN, Clone(clone)
       PROVE  config' \in MakeLinear(Separate(config))
  <2>1. config' \in SetCloning(config, clone)
    BY <1>10 DEF Clone
  <2>2. CASE clone
    BY <1>3, <2>1, <2>2 DEF SetCloning, IsCloning
  <2>3. CASE ~clone
    BY <2>1, <2>3 DEF SetCloning, IsCloning
  <2> QED BY <2>2, <2>3
<1> QED BY <1>3, <1>4, <1>5, <1>6, <1>7, <1>8, <1>9, <1>10 DEF Next

\* Monitors that stop mirroring end up side by side with the primary at the origin,
\* without overlap or gap, whatever their number, their modes and the order of the hash
\* table (cc_display_config_make_linear).
THEOREM JoinedIsLinearHolds == Spec => JoinedIsLinear
<1>1. IInv /\ config \in Configs /\ [Next]_config
        => (IsCloning(config) /\ Registered(config') # {}
                /\ Cardinality(Registered(config')) = NMonitors => Side(config'))
  <2> SUFFICES ASSUME Good(config), config \in Configs, [Next]_config, IsCloning(config),
                      Cardinality(Registered(config')) = NMonitors
               PROVE  Side(config')
    BY DEF IInv
  <2> DEFINE c == Separate(config)
  <2>1. config' \in MakeLinear(c)
    BY OnlyJoining
  <2>2. c \in Configs
    BY CloningTyped
  <2>3. Moved(config, c, NMonitors) /\ \A m, n \in Monitors : m # n => c.lm[m] # c.lm[n]
    BY SeparateFacts
  <2> HIDE DEF c
  <2>4. \A m \in Monitors : m <= NMonitors
    BY NMonitorsAssumption DEF Monitors
  <2>5. \A m \in Monitors : c.lm[m] # None
    BY <2>3, <2>4 DEF Moved
  <2>6. c.primary # None
    <3>1. 1 \in Monitors
      BY MirroringFacts, NMonitorsAssumption DEF Monitors
    <3> QED BY <2>3, <2>5, <3>1 DEF Moved, Good
  <2> QED BY <2>1, <2>2, <2>3, <2>5, <2>6, RowIsSide
<1>2. [](config \in Configs) /\ []IInv /\ [][Next]_config => JoinedIsLinear
  BY <1>1, PTL DEF JoinedIsLinear, Side
<1>3. Spec => [](config \in Configs)
  BY TypeCorrect, PTL DEF TypeOK
<1> QED BY <1>2, <1>3, IInvHolds, PTL DEF Spec
==============================================================================
