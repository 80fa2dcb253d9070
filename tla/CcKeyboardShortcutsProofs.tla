--------------------- MODULE CcKeyboardShortcutsProofs ---------------------
(***************************************************************************)
(* Theorems about CcKeyboardShortcuts, for any items, keys and numbers of  *)
(* custom shortcuts and foreign writes.                                    *)
(***************************************************************************)
EXTENDS CcKeyboardShortcuts, TLAPS

Tables == [Items -> SUBSET Stored]

Mirrored(C) == \A i \in Standard : HasReverse(i) => C[Reverse[i]] = Mirror(C[i])

\* The dialog takes nothing from anybody when it has no combination, and offers
\* to remove only what the table has.
EditorOK ==
    /\ editor.page # "edit" /\ editor.collision # None => editor.combo # None
    /\ editor.removable => editor.open /\ editor.item \in table

IInv == TypeOK /\ EditorOK /\ Mirrored(combos)

------------------------------------------------------------------------------
(* Combinations *)

\* Toggling Shift twice gives the combination back.
LEMMA ReversedTwice ==
    ASSUME NEW c \in Combos
    PROVE  /\ Reversed(c) \in Combos
           /\ Reversed(Reversed(c)) = c
           /\ Reversed(c) # c
           /\ c \in Stored <=> Reversed(c) \in Stored
BY DEF Combos, Reversed, Stored

\* Parsing gives what settings hold, and toggling Shift commutes with it.
LEMMA ParsedIsStored ==
    ASSUME NEW c \in Combos
    PROVE  /\ Parsed(c) \in Stored
           /\ Parsed(Reversed(c)) = Reversed(Parsed(c))
           /\ Parsed(Reversed(c)) \in Stored
BY KeysAssumption DEF Combos, Parsed, Reversed, Stored

\* Stored combinations are told apart by symbol and modifiers alone.
LEMMA StoredBySymbol ==
    ASSUME NEW c \in Stored, NEW d \in Stored, SameKeys(c, d)
    PROVE  c = d
BY DEF Stored, Combos, SameKeys

\* Mirroring respects differences and unions.
LEMMA MirrorMinus ==
    ASSUME NEW S \in SUBSET Combos, NEW T \in SUBSET Combos
    PROVE  Mirror(S \ T) = Mirror(S) \ Mirror(T)
<1>1. ASSUME NEW x \in Mirror(S \ T) PROVE x \in Mirror(S) \ Mirror(T)
  <2>1. PICK c \in S \ T : x = Reversed(c)
    BY <1>1 DEF Mirror
  <2>2. ASSUME NEW d \in T, x = Reversed(d) PROVE FALSE
    <3>1. c = Reversed(x) /\ d = Reversed(x)
      BY <2>1, <2>2, ReversedTwice
    <3> QED
      BY <3>1, <2>1
  <2> QED
    BY <2>1, <2>2 DEF Mirror
<1>2. ASSUME NEW x \in Mirror(S) \ Mirror(T) PROVE x \in Mirror(S \ T)
  BY <1>2 DEF Mirror
<1> QED
  BY <1>1, <1>2

LEMMA MirrorUnion ==
    ASSUME NEW S, NEW T
    PROVE  Mirror(S \cup T) = Mirror(S) \cup Mirror(T)
BY DEF Mirror

LEMMA MirrorOne ==
    ASSUME NEW c
    PROVE  Mirror({c}) = {Reversed(c)} /\ Mirror({}) = {}
BY DEF Mirror

------------------------------------------------------------------------------
(* Items *)

\* The reverse of a reverse item is the item, and not itself.
LEMMA ReverseTwice ==
    ASSUME NEW i \in Standard, HasReverse(i)
    PROVE  /\ Reverse[i] \in Standard /\ HasReverse(Reverse[i])
           /\ Reverse[Reverse[i]] = i /\ Reverse[i] # i
BY ReverseAssumption, ItemsAssumption DEF HasReverse, Items

LEMMA PairIsItems ==
    ASSUME NEW i \in Items
    PROVE  Pair(i) \subseteq Items
BY DEF Pair, Items

\* The table after each operation, for one item; the operations keep the types.
LEMMA RemovedType ==
    ASSUME NEW C \in Tables, NEW i, NEW c
    PROVE  Removed(C, i, c) \in Tables
BY DEF Removed, Tables

LEMMA DisabledType ==
    ASSUME NEW C \in Tables, NEW i
    PROVE  Disabled(C, i) \in Tables
BY DEF Disabled, Tables

LEMMA AddedType ==
    ASSUME NEW C \in Tables, NEW i, NEW c \in Combos
    PROVE  Added(C, i, c) \in Tables
BY ParsedIsStored DEF Added, Tables

LEMMA RestoredType ==
    ASSUME NEW C \in Tables, NEW i \in Standard
    PROVE  Restored(C, i) \in Tables
<1>1. ASSUME NEW j \in Items, j \in Pair(i) PROVE Default[j] \in SUBSET Stored
  BY <1>1, DefaultAssumption DEF Pair
<1> QED
  BY <1>1 DEF Restored, Tables

LEMMA TakenType ==
    ASSUME NEW C \in Tables, NEW victim
    PROVE  Taken(C, victim) \in Tables
BY DEF Taken, Tables

------------------------------------------------------------------------------
(* The operations keep reverse items mirrored *)

\* What is lost is mirrored too.
LEMMA LossMirrors ==
    ASSUME NEW C \in Tables, Mirrored(C), NEW L \in [Items -> SUBSET Combos],
           NEW D \in Tables, \A j \in Items : D[j] = C[j] \ L[j],
           \A k \in Standard : HasReverse(k) => L[Reverse[k]] = Mirror(L[k])
    PROVE  Mirrored(D)
<1> SUFFICES ASSUME NEW k \in Standard, HasReverse(k)
             PROVE  D[Reverse[k]] = Mirror(D[k])
  BY DEF Mirrored
<1>1. k \in Items /\ Reverse[k] \in Items
  BY ReverseTwice DEF Items
<1>2. C[k] \in SUBSET Combos /\ L[k] \in SUBSET Combos
  BY <1>1 DEF Tables, Stored
<1>3. D[Reverse[k]] = Mirror(C[k]) \ Mirror(L[k])
  BY <1>1 DEF Mirrored
<1> QED
  BY <1>1, <1>2, <1>3, MirrorMinus

\* Taking a combination from an item takes its mirror image from the reverse.
LEMMA RemovedMirrors ==
    ASSUME NEW C \in Tables, Mirrored(C), NEW i \in Items, NEW c \in Combos
    PROVE  Mirrored(Removed(C, i, c))
<1> DEFINE L(j) == (IF j = i THEN {c} ELSE {})
                     \cup (IF IsReverse(j, i) THEN {Reversed(c)} ELSE {})
           D == Removed(C, i, c)
<1>1. \A j \in Items : L(j) \subseteq Combos
  BY ReversedTwice
<1>2. D \in Tables /\ \A j \in Items : D[j] = C[j] \ L(j)
  BY RemovedType DEF Removed
<1>3. ASSUME NEW k \in Standard, HasReverse(k)
      PROVE  L(Reverse[k]) = Mirror(L(k))
  <2>0. /\ Reverse[k] \in Standard /\ HasReverse(Reverse[k])
        /\ Reverse[Reverse[k]] = k /\ Reverse[k] # k
    BY <1>3, ReverseTwice
  <2>1. CASE k = i
    <3>1. L(k) = {c} /\ L(Reverse[k]) = {Reversed(c)}
      BY <1>3, <2>0, <2>1 DEF IsReverse
    <3> QED
      BY <3>1, MirrorOne
  <2>2. CASE Reverse[k] = i
    <3>1. L(k) = {Reversed(c)} /\ L(Reverse[k]) = {c}
      BY <1>3, <2>0, <2>2 DEF IsReverse
    <3> QED
      BY <3>1, MirrorOne, ReversedTwice
  <2>3. CASE k # i /\ Reverse[k] # i
    <3>1. ~IsReverse(k, i) /\ ~IsReverse(Reverse[k], i)
      <4>1. ASSUME IsReverse(k, i) PROVE FALSE
        BY <4>1, <2>3, ReverseTwice DEF IsReverse, HasReverse
      <4>2. ASSUME IsReverse(Reverse[k], i) PROVE FALSE
        <5>1. i \in Standard /\ HasReverse(i) /\ Reverse[i] = Reverse[k]
          BY <4>2 DEF IsReverse, HasReverse
        <5>2. Reverse[Reverse[i]] = i
          BY <5>1, ReverseTwice
        <5> QED
          BY <5>1, <5>2, <2>0, <2>3
      <4> QED
        BY <4>1, <4>2
    <3>2. L(k) = {} /\ L(Reverse[k]) = {}
      BY <3>1, <2>3
    <3> QED
      BY <3>2, MirrorOne
  <2> QED
    BY <2>1, <2>2, <2>3
<1> HIDE DEF L, D
<1> DEFINE M == [j \in Items |-> L(j)]
<1>4. /\ M \in [Items -> SUBSET Combos]
      /\ \A j \in Items : D[j] = C[j] \ M[j]
      /\ \A k \in Standard : HasReverse(k) => M[Reverse[k]] = Mirror(M[k])
  BY <1>1, <1>2, <1>3, ReverseTwice DEF Items
<1> HIDE DEF M
<1>5. Mirrored(D)
  BY <1>2, <1>4, LossMirrors
<1> QED
  BY <1>5 DEF D

\* An item is in the pair of i exactly when its reverse is.
LEMMA PairMirrors ==
    ASSUME NEW k \in Standard, HasReverse(k), NEW i \in Items
    PROVE  k \in Pair(i) <=> Reverse[k] \in Pair(i)
<1>0. /\ Reverse[k] \in Standard /\ HasReverse(Reverse[k])
      /\ Reverse[Reverse[k]] = k /\ Reverse[k] # k
  BY ReverseTwice
<1>1. ASSUME k \in Pair(i) PROVE Reverse[k] \in Pair(i)
  <2>1. CASE k = i
    BY <1>0, <2>1 DEF Pair, IsReverse
  <2>2. CASE IsReverse(k, i)
    <3>1. i \in Standard /\ HasReverse(i) /\ Reverse[i] = k
      BY <2>2 DEF IsReverse, HasReverse
    <3>2. Reverse[k] = i
      BY <3>1, ReverseTwice
    <3> QED
      BY <3>2 DEF Pair
  <2> QED
    BY <1>1, <2>1, <2>2 DEF Pair
<1>2. ASSUME Reverse[k] \in Pair(i) PROVE k \in Pair(i)
  <2>1. CASE Reverse[k] = i
    BY <1>0, <2>1 DEF Pair, IsReverse
  <2>2. CASE IsReverse(Reverse[k], i)
    <3>1. i \in Standard /\ HasReverse(i) /\ Reverse[i] = Reverse[k]
      BY <2>2 DEF IsReverse, HasReverse
    <3>2. i = k
      BY <3>1, <1>0, ReverseTwice
    <3> QED
      BY <3>2 DEF Pair
  <2> QED
    BY <1>2, <2>1, <2>2 DEF Pair
<1> QED
  BY <1>1, <1>2

LEMMA DisabledMirrors ==
    ASSUME NEW C \in Tables, Mirrored(C), NEW i \in Items
    PROVE  Mirrored(Disabled(C, i))
<1> SUFFICES ASSUME NEW k \in Standard, HasReverse(k)
             PROVE  Disabled(C, i)[Reverse[k]] = Mirror(Disabled(C, i)[k])
  BY DEF Mirrored
<1>1. k \in Items /\ Reverse[k] \in Items
  BY ReverseTwice DEF Items
<1>2. CASE k \in Pair(i)
  BY <1>1, <1>2, PairMirrors, MirrorOne DEF Disabled
<1>3. CASE k \notin Pair(i)
  BY <1>1, <1>3, PairMirrors DEF Disabled, Mirrored
<1> QED
  BY <1>2, <1>3

LEMMA RestoredMirrors ==
    ASSUME NEW C \in Tables, Mirrored(C), NEW i \in Items
    PROVE  Mirrored(Restored(C, i))
<1> SUFFICES ASSUME NEW k \in Standard, HasReverse(k)
             PROVE  Restored(C, i)[Reverse[k]] = Mirror(Restored(C, i)[k])
  BY DEF Mirrored
<1>1. k \in Items /\ Reverse[k] \in Items
  BY ReverseTwice DEF Items
<1>2. CASE k \in Pair(i)
  BY <1>1, <1>2, PairMirrors, DefaultAssumption DEF Restored
<1>3. CASE k \notin Pair(i)
  BY <1>1, <1>3, PairMirrors DEF Restored, Mirrored
<1> QED
  BY <1>2, <1>3

LEMMA AddedMirrors ==
    ASSUME NEW C \in Tables, Mirrored(C), NEW i \in Items, NEW c \in Combos
    PROVE  Mirrored(Added(C, i, c))
<1> SUFFICES ASSUME NEW k \in Standard, HasReverse(k)
             PROVE  Added(C, i, c)[Reverse[k]] = Mirror(Added(C, i, c)[k])
  BY DEF Mirrored
<1>0. /\ Reverse[k] \in Standard /\ HasReverse(Reverse[k])
      /\ Reverse[Reverse[k]] = k /\ Reverse[k] # k
      /\ k \in Items /\ Reverse[k] \in Items
  BY ReverseTwice DEF Items
<1> DEFINE d == Parsed(c)
<1>1. d \in Combos /\ Parsed(Reversed(c)) = Reversed(d)
  BY ParsedIsStored DEF Stored
<1>2. C[Reverse[k]] = Mirror(C[k])
  BY DEF Mirrored
<1>3. CASE k = i
  <2>1. IsReverse(Reverse[k], i)
    BY <1>3 DEF IsReverse
  <2>2. Added(C, i, c)[k] = C[k] \cup {d}
    BY <1>0, <1>3 DEF Added, IsReverse
  <2>3. Added(C, i, c)[Reverse[k]] = C[Reverse[k]] \cup {Parsed(Reversed(c))}
    BY <1>0, <1>3, <2>1 DEF Added, IsReverse
  <2>4. Mirror(C[k] \cup {d}) = Mirror(C[k]) \cup {Reversed(d)}
    BY DEF Mirror
  <2> QED
    BY <1>1, <1>2, <2>2, <2>3, <2>4
<1>4. CASE Reverse[k] = i
  <2>1. IsReverse(k, i) /\ k # i
    BY <1>0, <1>4 DEF IsReverse
  <2>2. Added(C, i, c)[k] = C[k] \cup {Parsed(Reversed(c))}
    BY <1>0, <2>1 DEF Added, IsReverse
  <2>3. Added(C, i, c)[Reverse[k]] = C[Reverse[k]] \cup {d}
    BY <1>0, <1>4, ReverseTwice DEF Added, IsReverse
  <2>4. Mirror({Reversed(d)}) = {d}
    BY <1>1, ReversedTwice, MirrorOne
  <2>5. Mirror(C[k] \cup {Reversed(d)}) = Mirror(C[k]) \cup Mirror({Reversed(d)})
    BY DEF Mirror
  <2> QED
    BY <1>1, <1>2, <2>2, <2>3, <2>4, <2>5
<1>5. CASE k # i /\ Reverse[k] # i
  <2>1. k \notin Pair(i) \/ IsReverse(k, i)
    BY <1>5 DEF Pair
  <2>2. ~IsReverse(k, i)
    BY <1>5, <1>0, ReverseTwice DEF IsReverse, HasReverse
  <2>3. Reverse[k] \notin Pair(i)
    BY <2>1, <2>2, PairMirrors
  <2>4. ~IsReverse(Reverse[k], i)
    BY <1>0, <2>3 DEF Pair
  <2>5. /\ Added(C, i, c)[k] = C[k]
        /\ Added(C, i, c)[Reverse[k]] = C[Reverse[k]]
    BY <1>0, <1>5, <2>2, <2>4 DEF Added
  <2> QED
    BY <2>5, <1>2
<1> QED
  BY <1>3, <1>4, <1>5

\* What a reset takes: d in Loss(j, victim) was a default combination of the item
\* reset, or the mirror image of one that the reverse of j lost.
Loss(j, victim) ==
    {c \in Stored : \E d \in DOMAIN victim :
        \/ victim[d] = j /\ c = d
        \/ IsReverse(j, victim[d]) /\ c = Reversed(d)}

LEMMA TakenMirrors ==
    ASSUME NEW C \in Tables, Mirrored(C), NEW S \in SUBSET Stored,
           NEW victim \in [S -> Items \cup {None}]
    PROVE  Mirrored(Taken(C, victim))
<1> DEFINE L(j) == Loss(j, victim)
           D == Taken(C, victim)
<1>1. \A j \in Items : L(j) \subseteq Combos
  BY DEF Loss, Stored
<1>2. D \in Tables /\ \A j \in Items : D[j] = C[j] \ L(j)
  BY TakenType DEF Taken, Loss
<1>3. ASSUME NEW k \in Standard, HasReverse(k)
      PROVE  L(Reverse[k]) = Mirror(L(k))
  <2>0. /\ Reverse[k] \in Standard /\ HasReverse(Reverse[k])
        /\ Reverse[Reverse[k]] = k /\ Reverse[k] # k
    BY <1>3, ReverseTwice
  <2>1. ASSUME NEW m \in Standard, HasReverse(m), NEW c \in L(m)
        PROVE  Reversed(c) \in L(Reverse[m])
    <3>0. /\ Reverse[m] \in Standard /\ HasReverse(Reverse[m])
          /\ Reverse[Reverse[m]] = m
      BY <2>1, ReverseTwice
    <3>1. PICK d \in S : \/ victim[d] = m /\ c = d
                         \/ IsReverse(m, victim[d]) /\ c = Reversed(d)
      BY <2>1 DEF Loss
    <3>2. c \in Stored /\ d \in Stored /\ c \in Combos /\ d \in Combos
      BY <2>1 DEF Loss, Stored
    <3>3. Reversed(c) \in Stored
      BY <3>2, ReversedTwice
    <3>4. CASE victim[d] = m /\ c = d
      <4>1. IsReverse(Reverse[m], victim[d])
        BY <3>4, <2>1 DEF IsReverse
      <4> QED
        BY <4>1, <3>3, <3>4 DEF Loss
    <3>5. CASE IsReverse(m, victim[d]) /\ c = Reversed(d)
      <4>1. victim[d] = Reverse[m]
        BY <3>5, ReverseTwice DEF IsReverse, HasReverse
      <4>2. Reversed(c) = d
        BY <3>2, <3>5, ReversedTwice
      <4> QED
        BY <4>1, <4>2, <3>3 DEF Loss
    <3> QED
      BY <3>1, <3>4, <3>5
  <2>2. \A x \in Mirror(L(k)) : x \in L(Reverse[k])
    BY <1>3, <2>1 DEF Mirror
  <2>3. ASSUME NEW x \in L(Reverse[k]) PROVE x \in Mirror(L(k))
    <3>1. Reversed(x) \in L(k)
      BY <2>0, <2>1, <2>3
    <3>2. x = Reversed(Reversed(x))
      BY <2>3, ReversedTwice DEF Loss, Stored
    <3> QED
      BY <3>1, <3>2 DEF Mirror
  <2> QED
    BY <2>2, <2>3
<1> HIDE DEF L, D
<1> DEFINE M == [j \in Items |-> L(j)]
<1>4. /\ M \in [Items -> SUBSET Combos]
      /\ \A j \in Items : D[j] = C[j] \ M[j]
      /\ \A k \in Standard : HasReverse(k) => M[Reverse[k]] = Mirror(M[k])
  BY <1>1, <1>2, <1>3, ReverseTwice DEF Items
<1> HIDE DEF M
<1>5. Mirrored(D)
  BY <1>2, <1>4, LossMirrors
<1> QED
  BY <1>5 DEF D

\* Items without a reverse may be set to anything.
LEMMA UnpairedMirrors ==
    ASSUME NEW C \in Tables, Mirrored(C), NEW i \in Items, ~HasReverse(i),
           NEW S \in SUBSET Stored
    PROVE  [C EXCEPT ![i] = S] \in Tables /\ Mirrored([C EXCEPT ![i] = S])
<1>1. [C EXCEPT ![i] = S] \in Tables
  BY DEF Tables
<1>2. ASSUME NEW k \in Standard, HasReverse(k)
      PROVE  [C EXCEPT ![i] = S][Reverse[k]] = Mirror([C EXCEPT ![i] = S][k])
  <2>1. k # i /\ Reverse[k] # i /\ k \in Items /\ Reverse[k] \in Items
    BY <1>2, ReverseTwice DEF Items
  <2>2. C[Reverse[k]] = Mirror(C[k])
    BY <1>2 DEF Mirrored
  <2> QED
    BY <2>1, <2>2 DEF Tables
<1> QED
  BY <1>1, <1>2 DEF Mirrored

\* Custom shortcuts have no reverse.
LEMMA PathsUnpaired ==
    ASSUME NEW p \in Paths
    PROVE  p \in Items /\ p # None /\ p \notin Standard /\ ~HasReverse(p)
BY ItemsAssumption DEF Items, HasReverse

\* What get_collision may report is an item.
LEMMA CollisionsType ==
    ASSUME NEW C, NEW orig, NEW c
    PROVE  Collisions(C, orig, c) \subseteq Items
<1> SUFFICES ASSUME NEW j \in Collisions(C, orig, c) PROVE j \in Items
  OBVIOUS
<1>1. PICK i \in InTable : j \in Conflicts(C, orig, i, c)
  BY DEF Collisions
<1>2. i \in Items
  BY <1>1 DEF InTable, Items, table
<1>3. j \in Pair(i)
  BY <1>1 DEF Conflicts, Pair
<1> QED
  BY <1>2, <1>3, PairIsItems

\* What it reports is an item, and nothing for no combination.
LEMMA FoundType ==
    ASSUME NEW C, NEW orig, NEW c, NEW f \in Found(C, orig, c)
    PROVE  f \in Items \cup {None} /\ (f # None => c # None)
BY CollisionsType DEF Found

\* The dialog after a combination has been captured.
LEMMA CapturedOK ==
    ASSUME TypeOK, EditorOK, NEW c \in Combos \cup {None}, NEW e \in Captured(c)
    PROVE  /\ e \in Editors
           /\ e.collision # None => e.combo # None
           /\ e.removable => editor.removable
           /\ e.open = editor.open /\ e.item = editor.item
<1>1. PICK f \in Found(combos, editor.item, c) :
        e = [editor EXCEPT !.page = IF IsCustom(editor.item) THEN "custom" ELSE "standard",
                           !.combo = c, !.edited = TRUE, !.collision = f,
                           !.removable = @ /\ f = None]
  BY DEF Captured
<1>2. f \in Items \cup {None} /\ (f # None => c # None)
  BY FoundType
<1>3. editor \in Editors
  BY DEF TypeOK
<1> QED
  BY <1>1, <1>2, <1>3, ZenonT(40) DEF Editors, Pages

\* What the buttons of the dialog do to the items.
LEMMA ResolvedOK ==
    ASSUME TypeOK, EditorOK, editor.page # "edit", NEW C \in Tables, Mirrored(C)
    PROVE  Resolved(C) \in Tables /\ Mirrored(Resolved(C))
<1>1. CASE editor.collision = None
  BY <1>1 DEF Resolved
<1>2. CASE editor.collision # None
  <2>1. editor.collision \in Items /\ editor.combo \in Combos
    BY <1>2 DEF TypeOK, EditorOK, Editors
  <2> QED
    BY <1>2, <2>1, RemovedType, RemovedMirrors DEF Resolved
<1> QED
  BY <1>1, <1>2

LEMMA AppliedOK ==
    ASSUME TypeOK, NEW C \in Tables, Mirrored(C), NEW i \in Items
    PROVE  Applied(C, i) \in Tables /\ Mirrored(Applied(C, i))
<1>1. Disabled(C, i) \in Tables /\ Mirrored(Disabled(C, i))
  BY DisabledType, DisabledMirrors
<1>2. CASE editor.combo = None
  BY <1>1, <1>2 DEF Applied
<1>3. CASE editor.combo # None
  <2>1. editor.combo \in Combos
    BY <1>3 DEF TypeOK, Editors
  <2> QED
    BY <1>1, <1>3, <2>1, AddedType, AddedMirrors DEF Applied
<1> QED
  BY <1>2, <1>3

LEMMA ResetOK ==
    ASSUME TypeOK, NEW C \in Tables, Mirrored(C), NEW i \in Standard,
           NEW victim \in Victims(i)
    PROVE  Reset(C, i, victim) \in Tables /\ Mirrored(Reset(C, i, victim))
<1>1. Default[i] \in SUBSET Stored /\ i \in Items
  BY DefaultAssumption DEF Items
<1>2. victim \in [Default[i] -> Items \cup {None}]
  <2> DEFINE holders == UNION {Collisions(combos, None, d) : d \in Default[i]}
  <2>1. Victims(i) \subseteq [Default[i] -> holders \cup {None}]
    BY DEF Victims
  <2>2. holders \subseteq Items
    BY CollisionsType
  <2> HIDE DEF holders
  <2>3. victim \in [Default[i] -> holders \cup {None}]
    BY <2>1
  <2> QED
    BY <2>2, <2>3
<1>3. Taken(C, victim) \in Tables /\ Mirrored(Taken(C, victim))
  BY <1>1, <1>2, TakenType, TakenMirrors
<1> QED
  BY <1>1, <1>3, RestoredType, RestoredMirrors DEF Reset

------------------------------------------------------------------------------
(* The invariant is inductive *)

LEMMA InitInv == Init => IInv
<1> SUFFICES ASSUME Init PROVE IInv
  OBVIOUS
<1>1. PICK held \in Starts :
        combos = [i \in Items |-> IF i \in Standard THEN Default[i] ELSE held[i]]
  BY DEF Init
<1>2. combos \in Tables
  <2>1. held \in [Globals \cup Paths -> SUBSET Stored]
    BY ForeignAssumption
  <2>2. ASSUME NEW i \in Items
        PROVE  (IF i \in Standard THEN Default[i] ELSE held[i]) \in SUBSET Stored
    BY <2>1, DefaultAssumption DEF Items
  <2> QED
    BY <1>1, <2>2 DEF Tables
<1>3. Mirrored(combos)
  <2> SUFFICES ASSUME NEW k \in Standard, HasReverse(k)
               PROVE  combos[Reverse[k]] = Mirror(combos[k])
    BY DEF Mirrored
  <2>1. Reverse[k] \in Standard
    BY ReverseTwice
  <2>2. combos[k] = Default[k] /\ combos[Reverse[k]] = Default[Reverse[k]]
    BY <1>1, <2>1 DEF Items
  <2> QED
    BY <2>2, DefaultAssumption
<1>4. editor \in Editors
  BY DEF Init, Closed, Editors, Pages
<1>5. TypeOK
  <2>1. combos \in [Items -> SUBSET Stored]
    BY <1>2 DEF Tables
  <2>2. names \subseteq Paths /\ rows \in [Paths -> Nat]
    BY DEF Init, Loaded
  <2>3. pending \in Seq(Standard)
    BY DEF Init
  <2>4. crashed \in BOOLEAN
    BY Zenon DEF Init
  <2>5. changes \in 0..MaxChanges
    <3>1. changes = 0
      BY DEF Init
    <3>2. MaxChanges \in Nat
      BY ItemsAssumption
    <3> QED
      BY <3>1, <3>2
  <2> QED
    BY <1>4, <2>1, <2>2, <2>3, <2>4, <2>5 DEF TypeOK
<1>6. EditorOK
  BY DEF Init, EditorOK, Closed
<1> QED
  BY <1>3, <1>5, <1>6 DEF IInv

\* A closed dialog is in order.
LEMMA ClosedOK ==
    Closed \in Editors /\ Closed.collision = None /\ ~Closed.removable
BY DEF Closed, Editors, Pages

LEMMA NextInv == IInv /\ [Next]_vars => IInv'
<1> SUFFICES ASSUME IInv, [Next]_vars PROVE IInv'
  OBVIOUS
<1> USE DEF IInv
<1>0. combos \in Tables
  BY DEF TypeOK, Tables
<1>e. ASSUME UNCHANGED <<combos, names, rows, pending, changes, crashed>>,
             editor' \in Editors, EditorOK'
      PROVE  IInv'
  BY <1>e DEF TypeOK, Mirrored
<1>c. ASSUME combos' \in Tables, Mirrored(combos'), editor' = editor \/ editor' = Closed,
             UNCHANGED <<names, rows, changes>>, pending' \in Seq(Standard),
             crashed' \in BOOLEAN
      PROVE  IInv'
  <2>1. EditorOK'
    BY <1>c, ClosedOK DEF EditorOK, table
  <2> QED
    BY <1>c, <2>1, ClosedOK DEF TypeOK, Mirrored, Tables
<1>1. ASSUME NEW i \in Standard \cup Paths, EditShortcut(i) PROVE IInv'
  <2>1. PICK c \in Primary(i) :
          editor' = [Closed EXCEPT !.open = TRUE, !.item = i, !.combo = c,
                                   !.page = IF IsCustom(i) THEN "custom" ELSE "edit",
                                   !.removable = IsCustom(i)]
    BY <1>1 DEF EditShortcut
  <2>2. i \in Items /\ i # None
    BY ItemsAssumption DEF Items
  <2>3. c \in Combos \cup {None}
    BY <2>2 DEF Primary, TypeOK, Stored
  <2>4. editor' \in Editors
    BY <2>1, <2>2, <2>3 DEF Closed, Editors, Pages, IsCustom
  <2>5. IsCustom(i) => i \in table
    BY <1>1, <2>2, ItemsAssumption DEF EditShortcut, IsCustom
  <2>6. EditorOK'
    BY <1>1, <2>1, <2>5 DEF Closed, EditorOK, EditShortcut, table
  <2> QED
    BY <1>1, <1>e, <2>4, <2>6 DEF EditShortcut
<1>2. ASSUME NewShortcut PROVE IInv'
  <2>1. editor' \in Editors /\ EditorOK'
    BY <1>2 DEF NewShortcut, Closed, Editors, Pages, EditorOK
  <2> QED
    BY <1>2, <1>e, <2>1 DEF NewShortcut
<1>3. ASSUME ChangeCombo PROVE IInv'
  <2>0. editor \in Editors
    BY DEF TypeOK
  <2>1. PICK c \in IF editor.item = None THEN {editor.combo} ELSE Primary(editor.item) :
          editor' = [editor EXCEPT !.page = "edit", !.combo = c]
    BY <1>3 DEF ChangeCombo
  <2>2. c \in Combos \cup {None}
    <3>1. CASE editor.item = None
      BY <2>0, <2>1, <3>1 DEF Editors
    <3>2. CASE editor.item # None
      BY <2>0, <2>1, <3>2 DEF Editors, Primary, TypeOK, Stored
    <3> QED
      BY <3>1, <3>2
  <2>3. editor' \in Editors
    BY <2>0, <2>1, <2>2 DEF Editors, Pages
  <2>4. EditorOK'
    BY <1>3, <2>0, <2>1 DEF Editors, EditorOK, ChangeCombo, table
  <2> QED
    BY <1>3, <1>e, <2>3, <2>4 DEF ChangeCombo
<1>p. ASSUME NEW c \in Combos \cup {None}, editor' \in Captured(c),
             UNCHANGED <<combos, names, rows, pending, changes, crashed>>
      PROVE  IInv'
  <2>1. /\ editor' \in Editors
        /\ editor'.collision # None => editor'.combo # None
        /\ editor'.removable => editor.removable
        /\ editor'.open = editor.open /\ editor'.item = editor.item
    BY <1>p, CapturedOK
  <2>2. EditorOK'
    BY <1>p, <2>1 DEF EditorOK, table
  <2> QED
    BY <1>p, <1>e, <2>1, <2>2
<1>4. ASSUME NEW c \in Presses \cup {None}, Press(c) PROVE IInv'
  BY <1>4, <1>p, KeysAssumption DEF Press
<1>5. ASSUME TypeName PROVE IInv'
  <2>1. editor.combo \in Combos \cup {None}
    BY DEF TypeOK, Editors
  <2> QED
    BY <1>5, <1>p, <2>1 DEF TypeName
<1>6. ASSUME Done PROVE IInv'
  <2>1. editor.item \in Items /\ editor.page # "edit"
    BY <1>6 DEF Done, Confirming, TypeOK, Editors
  <2>2. Resolved(combos) \in Tables /\ Mirrored(Resolved(combos))
    BY <1>0, <2>1, ResolvedOK
  <2>3. combos' \in Tables /\ Mirrored(combos')
    BY <1>6, <2>1, <2>2, AppliedOK DEF Done
  <2> QED
    BY <1>6, <1>c, <2>3 DEF Done, TypeOK
<1>7. ASSUME Add PROVE IInv'
  <2>1. PICK p \in Paths :
          /\ combos' = Applied(Resolved([combos EXCEPT ![p] = {}]), p)
          /\ names' = names \cup {p} /\ rows' = [rows EXCEPT ![p] = @ + 1]
    BY <1>7 DEF Add
  <2>2. p \in Items /\ ~HasReverse(p)
    BY PathsUnpaired
  <2> DEFINE C == [combos EXCEPT ![p] = {}]
  <2>3. C \in Tables /\ Mirrored(C)
    BY <1>0, <2>2, UnpairedMirrors
  <2>4. editor.page # "edit"
    BY <1>7 DEF Add, Confirming
  <2>5. Resolved(C) \in Tables /\ Mirrored(Resolved(C))
    BY <2>3, <2>4, ResolvedOK
  <2>6. combos' \in Tables /\ Mirrored(combos')
    BY <2>1, <2>2, <2>5, AppliedOK
  <2>7. EditorOK' /\ editor' \in Editors
    BY <1>7, ClosedOK DEF Add, EditorOK
  <2>8. rows' \in [Paths -> Nat]
    BY <2>1 DEF TypeOK
  <2> QED
    BY <1>7, <2>1, <2>6, <2>7, <2>8 DEF Add, TypeOK, Tables, Mirrored
<1>8. ASSUME ConfirmGlobal PROVE IInv'
  BY <1>0, <1>8, <1>c DEF ConfirmGlobal, Crash, TypeOK
<1>9. ASSUME Remove PROVE IInv'
  <2>1. editor.item \in Paths /\ rows[editor.item] > 0
    BY <1>9 DEF Remove, EditorOK, table
  <2>2. combos' \in Tables /\ Mirrored(combos')
    BY <1>0, <1>9, <2>1, PathsUnpaired, UnpairedMirrors DEF Remove
  <2>3. EditorOK' /\ editor' \in Editors
    BY <1>9, ClosedOK DEF Remove, EditorOK
  <2>4. rows' \in [Paths -> Nat]
    <3>1. rows[editor.item] \in Nat /\ rows[editor.item] - 1 \in Nat
      BY <2>1 DEF TypeOK
    <3> QED
      BY <1>9, <3>1 DEF Remove, TypeOK
  <2> QED
    BY <1>9, <2>2, <2>3, <2>4 DEF Remove, TypeOK, Tables, Mirrored
<1>10. ASSUME Cancel PROVE IInv'
  BY <1>0, <1>10, <1>c DEF Cancel, TypeOK
<1>11. ASSUME NEW i \in Standard, ResetRow(i) PROVE IInv'
  BY <1>0, <1>11, <1>c DEF ResetRow, TypeOK
<1>12. ASSUME ResetAll PROVE IInv'
  BY <1>0, <1>12, <1>c, OrderAssumption DEF ResetAll, TypeOK
<1>13. ASSUME ResetNext PROVE IInv'
  <2>1. pending \in Seq(Standard) /\ pending # <<>>
    BY <1>13 DEF ResetNext, TypeOK
  <2>2. Head(pending) \in Standard /\ Tail(pending) \in Seq(Standard)
    BY <2>1
  <2>3. PICK victim \in Victims(Head(pending)) :
          \/ /\ combos' = Reset(combos, Head(pending), victim)
             /\ pending' = Tail(pending)
             /\ UNCHANGED crashed
          \/ /\ crashed' = TRUE
             /\ UNCHANGED <<combos, pending>>
    BY <1>13 DEF ResetNext
  <2>4. combos' \in Tables /\ Mirrored(combos')
    BY <1>0, <2>2, <2>3, ResetOK
  <2>5. pending' \in Seq(Standard) /\ crashed' \in BOOLEAN
    BY <2>1, <2>2, <2>3 DEF TypeOK
  <2> QED
    BY <1>13, <1>c, <2>4, <2>5 DEF ResetNext
<1>14. ASSUME NEW i \in Foreign \cup Paths, NEW c \in Presses \cup {None}, ForeignWrite(i, c)
       PROVE  IInv'
  <2>1. i \in Items /\ ~HasReverse(i)
    BY ForeignAssumption, PathsUnpaired DEF Items, HasReverse
  <2>2. (IF c = None THEN {} ELSE {Parsed(c)}) \in SUBSET Stored
    BY KeysAssumption, ParsedIsStored
  <2>3. combos' \in Tables /\ Mirrored(combos')
    BY <1>0, <1>14, <2>1, <2>2, UnpairedMirrors DEF ForeignWrite
  <2>4. changes' \in 0..MaxChanges
    BY <1>14, ItemsAssumption DEF ForeignWrite, TypeOK
  <2> QED
    BY <1>14, <2>3, <2>4 DEF ForeignWrite, TypeOK, EditorOK, table, Tables, Mirrored
<1>15. ASSUME NEW p \in Paths, NEW c \in Presses, ForeignAdd(p, c) PROVE IInv'
  <2>1. {Parsed(c)} \in SUBSET Stored
    BY KeysAssumption, ParsedIsStored
  <2>2. combos' \in Tables /\ Mirrored(combos')
    BY <1>0, <1>15, <2>1, PathsUnpaired, UnpairedMirrors DEF ForeignAdd
  <2>3. changes' \in 0..MaxChanges
    BY <1>15, ItemsAssumption DEF ForeignAdd, TypeOK
  <2> QED
    BY <1>15, <2>2, <2>3 DEF ForeignAdd, TypeOK, EditorOK, table, Tables, Mirrored
<1>16. ASSUME Reload PROVE IInv'
  <2>1. rows' \in [Paths -> Nat]
    BY <1>16 DEF Reload, Loaded
  <2> QED
    BY <1>16, <2>1 DEF Reload, TypeOK, EditorOK, Mirrored
<1>18. ASSUME NEW p \in Paths, ForeignRemove(p) PROVE IInv'
  <2>1. [combos EXCEPT ![p] = {}] \in Tables /\ Mirrored([combos EXCEPT ![p] = {}])
    BY <1>0, PathsUnpaired, UnpairedMirrors
  <2>2. combos' \in Tables /\ Mirrored(combos')
    BY <1>0, <1>18, <2>1 DEF ForeignRemove
  <2>3. changes' \in 0..MaxChanges
    BY <1>18, ItemsAssumption DEF ForeignRemove, TypeOK
  <2> QED
    BY <1>18, <2>2, <2>3 DEF ForeignRemove, TypeOK, EditorOK, table, Tables, Mirrored
<1>17. ASSUME UNCHANGED vars PROVE IInv'
  BY <1>0, <1>17, <1>c DEF vars, TypeOK
<1> QED
  BY <1>1, <1>2, <1>3, <1>4, <1>5, <1>6, <1>7, <1>8, <1>9, <1>10, <1>11, <1>12,
     <1>13, <1>14, <1>15, <1>16, <1>17, <1>18 DEF Next

LEMMA Invariant == Spec => []IInv
BY InitInv, NextInv, PTL DEF Spec

\* Every variable keeps its type; what an item holds is what parsing its
\* settings gives, whoever wrote them.
THEOREM TypeCorrect == Spec => []TypeOK
<1>1. IInv => TypeOK
  BY DEF IInv
<1> QED
  BY <1>1, Invariant, PTL

\* A reverse item always holds what its item holds, with Shift toggled, for any
\* key bindings files in which reverse entries name each other.
THEOREM ReverseMirrorsHolds == Spec => []ReverseMirrors
<1>1. IInv => ReverseMirrors
  BY DEF IInv, Mirrored, ReverseMirrors
<1> QED
  BY <1>1, Invariant, PTL

------------------------------------------------------------------------------
(* Action properties *)

\* What the manager writes to the list of custom shortcuts adds the entry of the item
\* it adds and removes that of the item it removes, and nothing else, whatever other
\* programs added or removed since the page was opened.
THEOREM ListKeepsOthersHolds == Spec => ListKeepsOthers
<1> DEFINE A == changes' = changes =>
                  /\ \A p \in names' \ names : rows'[p] = rows[p] + 1
                  /\ \A p \in names \ names' : rows'[p] = rows[p] - 1
<1>1. IInv /\ [Next]_vars => [A]_vars
  <2> SUFFICES ASSUME IInv, Next, changes' = changes PROVE A
    BY DEF vars
  <2>0. rows \in [Paths -> Nat] /\ changes \in Nat
    BY ItemsAssumption DEF IInv, TypeOK
  <2>1. CASE Add
    <3>1. PICK p \in Paths : names' = names \cup {p} /\ rows' = [rows EXCEPT ![p] = @ + 1]
      BY <2>1 DEF Add
    <3> QED
      BY <2>0, <3>1
  <2>2. CASE Remove
    <3>1. /\ editor.item \in Paths
          /\ names' = names \ {editor.item}
          /\ rows' = [rows EXCEPT ![editor.item] = @ - 1]
      BY <2>2 DEF Remove, IInv, EditorOK, table
    <3> QED
      BY <2>0, <3>1
  <2>3. CASE ~Add /\ ~Remove
    <3>1. \A p \in Paths, c \in Presses : ~ForeignAdd(p, c)
      BY <2>0 DEF ForeignAdd
    <3>2. \A p \in Paths : ~ForeignRemove(p)
      BY <2>0 DEF ForeignRemove
    <3>3. names' = names
      BY <2>3, <3>1, <3>2
         DEF Next, EditShortcut, NewShortcut, ChangeCombo, TypeName, Press, Done,
             ConfirmGlobal, Crash, Cancel, ResetRow, ResetAll, ResetNext, ForeignWrite, Reload
    <3> QED
      BY <3>3
  <2> QED
    BY <2>1, <2>2, <2>3
<1> QED
  BY <1>1, Invariant, PTL DEF Spec, ListKeepsOthers

\* What confirming leaves alone, and what it takes.
LEMMA AppliedElsewhere ==
    ASSUME NEW C \in Tables, NEW p \in Items, NEW i \in Items, i \notin Pair(p)
    PROVE  Applied(C, p)[i] = C[i]
<1>1. Disabled(C, p)[i] = C[i]
  BY DEF Disabled
<1>2. i # p /\ ~IsReverse(i, p)
  BY ReverseTwice DEF Pair, IsReverse, HasReverse
<1>3. ASSUME NEW c PROVE Added(Disabled(C, p), p, c)[i] = Disabled(C, p)[i]
  BY <1>2 DEF Added, IsReverse
<1> QED
  BY <1>1, <1>3 DEF Applied

LEMMA ResolvedElsewhere ==
    ASSUME TypeOK, NEW C \in Tables, NEW i \in Items
    PROVE  \/ i # editor.collision /\ Resolved(C)[i] = C[i]
           \/ /\ i = editor.collision
              /\ Resolved(C)[i] = C[i] \ {editor.combo}
           \/ /\ i # editor.collision /\ IsReverse(i, editor.collision)
              /\ Resolved(C)[i] = C[i] \ {Reversed(editor.combo)}
<1> DEFINE k == editor.collision
<1>1. CASE k = None
  BY <1>1, ItemsAssumption DEF Resolved
<1>2. CASE k # None /\ i = k
  <2>1. ~IsReverse(i, i)
    BY ReverseTwice DEF IsReverse, HasReverse
  <2> QED
    BY <1>2, <2>1 DEF Resolved, Removed, IsReverse
<1>3. CASE k # None /\ i # k
  BY <1>3 DEF Resolved, Removed, IsReverse
<1> QED
  BY <1>1, <1>2, <1>3

\* A new shortcut is no item in use, and every item in use is an item.
LEMMA LiveIsItems ==
    ASSUME TypeOK
    PROVE  /\ Live \subseteq Items /\ None \notin Live
           /\ \A p \in Paths : p \notin names => p \notin Live
BY ItemsAssumption DEF TypeOK, Live, Items

\* The items after a confirmation: the edited or new one (p), and the others.
LEMMA Confirmed ==
    ASSUME IInv, Done \/ Add
    PROVE  \E p \in Items :
            /\ editor.item # None => p = editor.item /\ Done
            /\ editor.item = None => p \notin Live /\ p \notin names /\ Pair(p) = {p}
            /\ Live' \subseteq Live \cup {p}
            /\ \A i \in Live :
                i \notin Pair(p) => combos'[i] = Resolved(combos)[i]
<1>0. TypeOK /\ combos \in Tables /\ EditorOK
  BY DEF IInv, TypeOK, Tables
<1>1. CASE Done
  <2>1. editor.item \in Items /\ editor.item # None /\ editor.page # "edit"
    BY <1>0, <1>1 DEF Done, Confirming, TypeOK, Editors
  <2>2. Resolved(combos) \in Tables
    BY <1>0, <2>1, ResolvedOK DEF IInv
  <2>3. \A i \in Live :
          i \notin Pair(editor.item) => combos'[i] = Resolved(combos)[i]
    BY <1>0, <1>1, <2>1, <2>2, LiveIsItems, AppliedElsewhere DEF Done
  <2> QED
    BY <1>1, <2>1, <2>3 DEF Done, Live
<1>2. CASE Add
  <2>1. PICK p \in Paths :
          /\ p \notin names /\ names' = names \cup {p}
          /\ combos' = Applied(Resolved([combos EXCEPT ![p] = {}]), p)
    BY <1>2 DEF Add, Free
  <2>2. p \in Items /\ p \notin Live /\ ~HasReverse(p) /\ Pair(p) = {p}
    BY <1>0, <2>1, PathsUnpaired, LiveIsItems DEF Pair, IsReverse
  <2> DEFINE C == [combos EXCEPT ![p] = {}]
  <2>3. C \in Tables /\ Mirrored(C)
    BY <1>0, <2>2, UnpairedMirrors DEF IInv
  <2>4. editor.page # "edit" /\ editor.item = None
    BY <1>2 DEF Add, Confirming
  <2>5. Resolved(C) \in Tables
    BY <1>0, <2>3, <2>4, ResolvedOK
  <2>6. ASSUME NEW i \in Live PROVE combos'[i] = Resolved(combos)[i]
    <3>1. i \in Items /\ i # p
      BY <1>0, <2>2, LiveIsItems
    <3>2. combos'[i] = Resolved(C)[i]
      BY <2>1, <2>2, <2>5, <3>1, AppliedElsewhere
    <3>3. C[i] = combos[i]
      BY <1>0, <3>1 DEF Tables
    <3>4. Resolved(C)[i] = Resolved(combos)[i]
      BY <3>1, <3>3 DEF Resolved, Removed
    <3> QED
      BY <3>2, <3>4
  <2> QED
    BY <2>1, <2>2, <2>4, <2>6 DEF Live
<1> QED
  BY <1>1, <1>2

\* Confirming takes from an item that is not edited the combination announced,
\* or its mirror image, and nothing else.
THEOREM OthersKeepTheirKeysHolds == Spec => OthersKeepTheirKeys
<1> DEFINE A == Done \/ Add =>
        \A i \in Live :
            \/ i \in Pair(editor.item)
            \/ combos'[i] = combos[i]
            \/ i = editor.collision /\ combos'[i] = combos[i] \ {editor.combo}
            \/ /\ IsReverse(i, editor.collision)
               /\ combos'[i] = combos[i] \ {Reversed(editor.combo)}
<1>1. IInv /\ [Next]_vars => [A]_vars
  <2> SUFFICES ASSUME IInv, Done \/ Add, NEW i \in Live, i \notin Pair(editor.item)
               PROVE  \/ combos'[i] = combos[i]
                      \/ i = editor.collision /\ combos'[i] = combos[i] \ {editor.combo}
                      \/ /\ IsReverse(i, editor.collision)
                         /\ combos'[i] = combos[i] \ {Reversed(editor.combo)}
    OBVIOUS
  <2>1. TypeOK /\ combos \in Tables
    BY DEF IInv, TypeOK, Tables
  <2>2. PICK p \in Items :
          /\ editor.item # None => p = editor.item
          /\ editor.item = None => p \notin Live /\ Pair(p) = {p}
          /\ \A j \in Live : j \notin Pair(p) => combos'[j] = Resolved(combos)[j]
    BY Confirmed
  <2>3. combos'[i] = Resolved(combos)[i] /\ i \in Items
    BY <2>1, <2>2, LiveIsItems
  <2> QED
    BY <2>1, <2>3, ResolvedElsewhere
<1> QED
  BY <1>1, Invariant, PTL DEF Spec, OthersKeepTheirKeys

\* Confirming a combination that the dialog announced completely leaves it with
\* the edited item alone.
THEOREM KeyIsReassignedHolds == Spec => KeyIsReassigned
<1> DEFINE A ==
        /\ Done \/ Add
        /\ editor.combo \in Stored
        /\ \A i \in Holders(editor.combo) :
             i \in Pair(editor.item) \cup {editor.collision}
        => \A i \in Live' : Holds(combos', i, editor.combo) =>
             i = editor.item \/ (editor.item = None /\ i \notin names)
<1>1. IInv /\ [Next]_vars => [A]_vars
  <2> DEFINE c == editor.combo
  <2> SUFFICES ASSUME IInv, Done \/ Add, c \in Stored,
                      \A i \in Holders(c) : i \in Pair(editor.item) \cup {editor.collision},
                      NEW i \in Live', NEW d \in combos'[i], SameKeys(c, d),
                      i # editor.item, ~(editor.item = None /\ i \notin names)
               PROVE  FALSE
    BY DEF Holds
  <2>1. TypeOK /\ combos \in Tables /\ TypeOK'
    BY NextInv DEF IInv, TypeOK, Tables, Next
  <2>2. PICK p \in Items :
          /\ editor.item # None => p = editor.item /\ Done
          /\ editor.item = None => p \notin Live /\ p \notin names /\ Pair(p) = {p}
          /\ Live' \subseteq Live \cup {p}
          /\ \A j \in Live : j \notin Pair(p) => combos'[j] = Resolved(combos)[j]
    BY Confirmed
  <2>3. i \in Live /\ i \in Items /\ i # p /\ i # None
    BY <2>1, <2>2, LiveIsItems
  <2>4. d \in Stored
    BY <2>1, <2>3 DEF TypeOK
  <2>5. d = c
    BY <2>4, StoredBySymbol
  <2>6. CASE i \in Pair(p)
    <3>1. IsReverse(i, p) /\ p = editor.item /\ Done
      BY <2>2, <2>3, <2>6 DEF Pair
    <3>2. c # None /\ c \in Combos
      BY ItemsAssumption DEF Stored
    <3>3. combos' = Added(Disabled(Resolved(combos), p), p, c)
      BY <3>1, <3>2 DEF Done, Applied
    <3>4. combos'[i] = {Parsed(Reversed(c))}
      BY <2>3, <2>6, <3>1, <3>3 DEF Added, Disabled, IsReverse
    <3>5. Parsed(Reversed(c)).shift # c.shift
      BY <3>2 DEF Parsed, Reversed, Combos
    <3> QED
      BY <2>5, <3>4, <3>5
  <2>7. CASE i \notin Pair(p)
    <3>1. combos'[i] = Resolved(combos)[i]
      BY <2>2, <2>3, <2>7
    <3>2. d \in combos[i]
      BY <2>1, <2>3, <3>1, ResolvedElsewhere
    <3>3. i \in Holders(c)
      BY <2>3, <3>2 DEF Holders, Holds
    <3>4. i \notin Pair(editor.item)
      <4>1. CASE editor.item = None
        BY <2>3, <4>1, ItemsAssumption DEF Pair, IsReverse, HasReverse, Items
      <4>2. CASE editor.item # None
        BY <2>2, <2>7, <4>2
      <4> QED
        BY <4>1, <4>2
    <3>5. i = editor.collision
      BY <3>3, <3>4
    <3>6. combos'[i] = combos[i] \ {c}
      BY <2>1, <2>3, <3>1, <3>5, ResolvedElsewhere
    <3> QED
      BY <2>5, <3>6
  <2> QED
    BY <2>6, <2>7
<1> QED
  BY <1>1, Invariant, PTL DEF Spec, KeyIsReassigned

\* Resetting an item takes nothing from an item at its default, reverse items
\* included: no two items have a default combination in common.
THEOREM ResetKeepsDefaultsHolds == Spec => ResetKeepsDefaults
<1> DEFINE A == pending # <<>> =>
        \A i \in Standard : combos[i] = Default[i] => combos'[i] = Default[i]
<1>1. IInv /\ [Next]_vars => [A]_vars
  <2> SUFFICES ASSUME IInv, Next, pending # <<>>,
                      NEW i \in Standard, combos[i] = Default[i]
               PROVE  combos'[i] = Default[i]
    BY DEF vars
  <2>1. ResetNext
    BY DEF Next, EditShortcut, NewShortcut, ChangeCombo, TypeName, Press, Done, Add,
           Confirming, ConfirmGlobal, Remove, Cancel, ResetRow, ResetAll, ForeignWrite,
           ForeignAdd, ForeignRemove, Reload, Running
  <2> DEFINE h == Head(pending)
  <2>2. PICK victim \in Victims(h) :
          combos' = Reset(combos, h, victim) \/ combos' = combos
    BY <2>1 DEF ResetNext
  <2>3. h \in Standard /\ i \in Items /\ combos \in Tables
    <3>1. pending \in Seq(Standard)
      BY DEF IInv, TypeOK
    <3>2. h \in Standard
      BY <3>1
    <3> QED
      BY <3>2 DEF IInv, TypeOK, Tables, Items
  <2>4. CASE i \in Pair(h) /\ combos' = Reset(combos, h, victim)
    BY <2>3, <2>4 DEF Reset, Restored
  <2>5. CASE i \notin Pair(h) /\ combos' = Reset(combos, h, victim)
    <3>1. combos'[i] = Default[i] \ Loss(i, victim)
      BY <2>3, <2>5 DEF Reset, Restored, Taken, Loss
    <3>2. ASSUME NEW c \in Default[i], c \in Loss(i, victim) PROVE FALSE
      <4>0. DOMAIN victim = Default[h]
        BY DEF Victims
      <4>1. PICK d \in DOMAIN victim : \/ victim[d] = i /\ c = d
                                       \/ IsReverse(i, victim[d]) /\ c = Reversed(d)
        BY <3>2 DEF Loss
      <4>2. i # h
        BY <2>5 DEF Pair
      <4>3. c # d /\ d \in Default[h]
        BY <2>3, <3>2, <4>0, <4>1, <4>2, DefaultAssumption
      <4>4. IsReverse(i, victim[d]) /\ c = Reversed(d)
        BY <4>1, <4>3
      <4> DEFINE v == victim[d]
      <4>5. v \in Standard /\ HasReverse(v) /\ Reverse[v] = i
        BY <4>4 DEF IsReverse, HasReverse
      <4>6. Reverse[i] = v /\ HasReverse(i)
        BY <4>5, ReverseTwice
      <4>7. Default[v] = Mirror(Default[i])
        BY <4>6, DefaultAssumption
      <4>8. d \in Default[v]
        <5>1. d \in Combos
          BY <2>3, <4>3, DefaultAssumption DEF Stored
        <5>2. d = Reversed(c)
          BY <4>4, <5>1, ReversedTwice
        <5> QED
          BY <4>7, <5>2 DEF Mirror
      <4>9. v = h
        BY <2>3, <4>3, <4>5, <4>8, DefaultAssumption
      <4> QED
        BY <2>5, <4>4, <4>9 DEF Pair
    <3> QED
      BY <3>1, <3>2
  <2> QED
    BY <2>2, <2>4, <2>5
<1> QED
  BY <1>1, Invariant, PTL DEF Spec, ResetKeepsDefaults
=============================================================================
