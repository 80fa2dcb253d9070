----------------------- MODULE CcPrintersPanelProofs -----------------------
(***************************************************************************)
(* Proofs about the printers panel: its types, and that a printer is       *)
(* deleted only as the user last said, for any number of printers and any  *)
(* order of the answers of CUPS.                                           *)
(***************************************************************************)
EXTENDS CcPrintersPanel, TLAPS

\* What is pending is what the user last asked to delete.
PendingIsWanted == alive /\ panel.pending # None => verdict[panel.pending] = "delete"

\* The inductive invariant
Inv == TypeOK /\ DeletedIsHidden /\ DeletionsAreTracked /\ PendingIsWanted

------------------------------------------------------------------------------
(* What the handlers make of the panel *)

\* A dismissed deletion is no longer pending and is carried out; what is hidden stays.
LEMMA DismissedFacts ==
    ASSUME NEW p \in PanelStates
    PROVE  LET q == Dismissed(p)
           IN  /\ q \in PanelStates
               /\ q.deleting = Gone(p) /\ q.pending = None /\ Gone(q) = Gone(p)
               /\ q.entries = p.entries /\ q.hidden = p.hidden
  BY DEF Dismissed, Gone, PanelStates, Names

\* The filter hides the printers that are deleted or about to be.
LEMMA RefilterFacts ==
    ASSUME NEW p \in PanelStates
    PROVE  LET q == Refilter(p)
           IN  /\ q \in PanelStates
               /\ q = [p EXCEPT !.hidden = p.entries \cap Gone(p)]
               /\ q.deleting = p.deleting /\ q.pending = p.pending
               /\ Gone(q) = Gone(p) /\ q.entries \cap Gone(q) \subseteq q.hidden
  BY DEF Refilter, Gone, PanelStates, Names

\* An undone deletion is forgotten.
LEMMA UndoneFacts ==
    ASSUME NEW p \in PanelStates
    PROVE  LET q == Undone(p)
           IN  /\ q \in PanelStates
               /\ q.deleting = p.deleting /\ q.pending = None
               /\ q.entries \cap Gone(q) \subseteq q.hidden
<1> DEFINE r == [p EXCEPT !.pending = None]
           s == Refilter(r)
<1>1. r \in PanelStates /\ r.deleting = p.deleting /\ r.pending = None
  BY DEF PanelStates, Names
<1>2. /\ s \in PanelStates /\ s.deleting = p.deleting /\ s.pending = None
      /\ s.entries \cap Gone(s) \subseteq s.hidden
  BY <1>1, RefilterFacts
<1> HIDE DEF r, s
<1>3. Undone(p) = [s EXCEPT !.timer = FALSE,
                            !.page  = IF p.dests # {} THEN "printers-list" ELSE @]
  BY DEF Undone, r, s
<1>4. QED  BY <1>2, <1>3 DEF PanelStates, Gone

\* A deleted printer is pending, and the one before it is carried out.
LEMMA DeletedFacts ==
    ASSUME NEW p \in PanelStates, NEW name \in Printers
    PROVE  LET q == Deleted(p, name)
           IN  /\ q \in PanelStates
               /\ q.deleting = Gone(p) /\ q.pending = name
               /\ q.entries \cap Gone(q) \subseteq q.hidden
<1> DEFINE d == Dismissed(p)
           r == [d EXCEPT !.toast = "undo", !.pending = name, !.timer = TRUE]
<1>1. d \in PanelStates /\ d.deleting = Gone(p)
  BY DismissedFacts
<1> HIDE DEF d
<1>2. r \in PanelStates /\ r.deleting = Gone(p) /\ r.pending = name
  BY <1>1 DEF PanelStates, Names
<1>3. Deleted(p, name) = Refilter(r)
  BY DEF Deleted, d
<1> HIDE DEF r
<1>4. QED  BY <1>2, <1>3, RefilterFacts

\* Rows that a listing adds are hidden if they have to be.
LEMMA ListedFacts ==
    ASSUME NEW p \in PanelStates, NEW dests \in SUBSET Printers,
           p.entries \cap Gone(p) \subseteq p.hidden
    PROVE  LET q == Paged(Listed(p, dests))
           IN  /\ q \in PanelStates
               /\ q.deleting = p.deleting /\ q.pending = p.pending
               /\ q.entries \cap Gone(q) \subseteq q.hidden
<1> DEFINE l == Listed(p, dests)
           kept == p.entries \cap dests
           skipped == IF p.renamed.new \in dests THEN {p.renamed.old} ELSE {}
           added == (dests \ skipped) \ kept
<1>1. l = [p EXCEPT !.dests = dests, !.entries = kept \cup added,
                    !.hidden = (p.hidden \cap kept) \cup (added \cap Gone(p))]
  BY DEF Listed
<1>2. kept \subseteq Printers /\ added \subseteq Printers /\ kept \subseteq p.entries
  BY DEF PanelStates
<1> HIDE DEF l, kept, added
<1>3. /\ l \in PanelStates /\ l.deleting = p.deleting /\ l.pending = p.pending
      /\ l.entries = kept \cup added
      /\ l.hidden = (p.hidden \cap kept) \cup (added \cap Gone(p))
  BY <1>1, <1>2 DEF PanelStates
<1>4. l.entries \cap Gone(l) \subseteq l.hidden
  BY <1>2, <1>3 DEF Gone
<1>5. Paged(l) = l \/ Paged(l) = [l EXCEPT !.page = "printers-list"]
  BY DEF Paged
<1>6. QED  BY <1>3, <1>4, <1>5 DEF PanelStates, Gone, l

------------------------------------------------------------------------------
(* What a handler preserves *)

\* A handler may leave what is pending on deleted_printers, take it off or replace it by
\* another printer that the user deletes: the calls follow, and the invariant is kept.
LEMMA BecomesKeepsInv ==
    ASSUME Inv, alive, alive' = alive, NEW q \in PanelStates, Becomes(q),
           q.entries \cap Gone(q) \subseteq q.hidden,
           q.deleting \in {panel.deleting, Gone(panel)},
           q.pending \notin q.deleting,
           verdict' \in [Printers -> {"keep", "delete"}],
           q.pending # None => verdict'[q.pending] = "delete",
           panel.pending \in q.deleting \ panel.deleting => verdict'[panel.pending] = "delete"
    PROVE  /\ panel' \in PanelStates
           /\ deletions' \in [Printers -> {"none", "sent", "answered"}]
           /\ DeletedIsHidden' /\ DeletionsAreTracked' /\ PendingIsWanted'
           /\ \A p \in Printers : deletions[p] = "none" /\ deletions'[p] # "none"
                                     => verdict'[p] = "delete"
<1>1. panel \in PanelStates /\ deletions \in [Printers -> {"none", "sent", "answered"}]
  BY DEF Inv, TypeOK
<1>2. panel.deleting = {p \in Printers : deletions[p] # "none"}
  BY DEF Inv, DeletionsAreTracked
<1>3. /\ panel' = q
      /\ deletions' = [n \in Printers |-> IF n \in q.deleting \ panel.deleting THEN "sent"
                                          ELSE deletions[n]]
  BY DEF Becomes
<1>4. q.deleting \subseteq Printers /\ panel.deleting \subseteq Printers
  BY <1>1 DEF PanelStates
<1>5. panel.deleting \subseteq q.deleting /\ q.deleting \subseteq Gone(panel)
  BY DEF Gone
<1>6. deletions' \in [Printers -> {"none", "sent", "answered"}]
  BY <1>1, <1>3
<1>7. q.deleting = {p \in Printers : deletions'[p] # "none"}
  BY <1>1, <1>2, <1>3, <1>4, <1>5
<1>8. DeletionsAreTracked'
  BY <1>3, <1>7 DEF DeletionsAreTracked
<1>9. DeletedIsHidden' /\ PendingIsWanted'
  BY <1>3 DEF DeletedIsHidden, PendingIsWanted, Gone
<1>10. ASSUME NEW p \in Printers, deletions[p] = "none", deletions'[p] # "none"
       PROVE  verdict'[p] = "delete"
  <2>1. p \in q.deleting /\ p \notin panel.deleting
    BY <1>2, <1>7, <1>10
  <2>2. p = panel.pending
    BY <1>5, <2>1 DEF Gone
  <2>3. QED  BY <2>1, <2>2
<1>11. QED  BY <1>3, <1>6, <1>8, <1>9, <1>10

\* What is pending is not on its way to CUPS, and the user wants it deleted.
LEMMA PendingFacts ==
    ASSUME Inv, alive
    PROVE  /\ panel \in PanelStates
           /\ verdict \in [Printers -> {"keep", "delete"}]
           /\ None \notin Printers /\ panel.deleting \subseteq Printers
           /\ panel.pending \notin panel.deleting
           /\ panel.pending \in Gone(panel) => verdict[panel.pending] = "delete"
           /\ panel.entries \cap Gone(panel) \subseteq panel.hidden
           /\ None \notin Gone(panel)
<1>1. panel \in PanelStates /\ verdict \in [Printers -> {"keep", "delete"}]
  BY DEF Inv, TypeOK
<1>2. panel.deleting \subseteq Printers /\ None \notin Printers
  BY <1>1, PrintersAssumption DEF PanelStates
<1>3. panel.pending \notin panel.deleting
  BY DEF Inv, DeletionsAreTracked
<1>4. panel.pending # None => verdict[panel.pending] = "delete"
  BY DEF Inv, PendingIsWanted
<1>5. panel.entries \cap Gone(panel) \subseteq panel.hidden
  BY DEF Inv, DeletedIsHidden
<1>6. None \notin Gone(panel)
  BY <1>2 DEF Gone
<1>7. QED  BY <1>1, <1>2, <1>3, <1>4, <1>5, <1>6

LEMMA ListingsAreTyped ==
    ASSUME listings \in Seq(Listings)
    PROVE  /\ Append(listings, Asked) \in Seq(Listings)
           /\ \A i \in DOMAIN listings : RemoveAt(listings, i) \in Seq(Listings)
           /\ \A i \in DOMAIN listings, l \in Listings :
                [listings EXCEPT ![i] = l] \in Seq(Listings)
<1>1. Asked \in Listings
  BY DEF Asked, Listings
<1>2. ASSUME NEW i \in DOMAIN listings
      PROVE  RemoveAt(listings, i) \in Seq(Listings)
  <2>1. i \in 1..Len(listings) /\ Len(listings) \in Nat
    OBVIOUS
  <2>2. SubSeq(listings, 1, i - 1) \in Seq(Listings)
    BY <2>1
  <2>3. SubSeq(listings, i + 1, Len(listings)) \in Seq(Listings)
    BY <2>1
  <2>4. QED  BY <2>2, <2>3 DEF RemoveAt
<1>3. QED  BY <1>1, <1>2

------------------------------------------------------------------------------
(* The invariant *)

\* What OnlyDeletedAreRemoved says of a step
SendsWanted ==
    \A p \in Printers : deletions[p] = "none" /\ deletions'[p] # "none"
                           => verdict'[p] = "delete"

LEMMA InitInv == Init => Inv
<1> SUFFICES ASSUME Init PROVE Inv
  OBVIOUS
<1>1. Asked \in Listings /\ Blank \in PanelStates
  BY DEF Asked, Listings, Blank, PanelStates, Names
<1>2. <<Asked>> \in Seq(Listings) /\ <<Asked, Asked>> \in Seq(Listings)
  BY <1>1
<1>3. listings \in Seq(Listings)
  BY <1>2 DEF Init
<1>4. TypeOK
  BY <1>1, <1>3 DEF Init, TypeOK, Names
<1>5. DeletedIsHidden /\ DeletionsAreTracked /\ PendingIsWanted
  BY DEF Init, Blank, DeletedIsHidden, DeletionsAreTracked, PendingIsWanted
<1>6. QED  BY <1>4, <1>5 DEF Inv

\* When the panel ends, whatever was pending, only the calls that are sent remain.
LEMMA EndKeepsInv ==
    ASSUME Inv, Ends, queues' \in SUBSET Printers, up' \in BOOLEAN,
           deletions' \in [Printers -> {"none", "sent", "answered"}],
           verdict' \in [Printers -> {"keep", "delete"}]
    PROVE  Inv'
<1>1. panel' \in PanelStates /\ adding' \in Names
  BY DEF Ends, Blank, PanelStates, Names
<1>2. listings' \in Seq(Listings)
  BY DEF Ends
<1>3. TypeOK'
  BY <1>1, <1>2 DEF Ends, TypeOK
<1>4. DeletionsAreTracked' /\ DeletedIsHidden' /\ PendingIsWanted'
  BY DEF Ends, DeletionsAreTracked, DeletedIsHidden, PendingIsWanted
<1>5. QED  BY <1>3, <1>4 DEF Inv

\* A test more, or none
LEMMA TestIfType ==
    ASSUME testing \in Nat, NEW needed, TestIf(needed)
    PROVE  testing' \in Nat
  BY DEF TestIf

LEMMA DeletionKeepsInv ==
    ASSUME Inv, NEW name \in Printers, Delete(name), Becomes(Deleted(panel, name)),
           TestIf(IsLast(panel')), UNCHANGED <<listings, adding, alive>>
    PROVE  Inv' /\ SendsWanted
<1> DEFINE q == Deleted(panel, name)
<1>1. alive /\ alive' = alive /\ name \in panel.entries \ panel.hidden /\ Becomes(q)
  BY DEF Delete
<1>2. /\ q \in PanelStates /\ q.deleting = Gone(panel) /\ q.pending = name
      /\ q.entries \cap Gone(q) \subseteq q.hidden
  BY <1>1, PendingFacts, DeletedFacts
<1>3. name \notin Gone(panel)
  BY <1>1, PendingFacts
<1>4. /\ verdict' = [verdict EXCEPT ![name] = "delete"]
      /\ verdict' \in [Printers -> {"keep", "delete"}]
      /\ verdict'[name] = "delete"
      /\ panel.pending \in Gone(panel) => verdict'[panel.pending] = "delete"
  BY <1>1, PendingFacts DEF Delete, PanelStates, Names, Gone
<1> HIDE DEF q
<1>5. /\ panel' \in PanelStates
      /\ deletions' \in [Printers -> {"none", "sent", "answered"}]
      /\ DeletedIsHidden' /\ DeletionsAreTracked' /\ PendingIsWanted' /\ SendsWanted
  BY <1>1, <1>2, <1>3, <1>4, BecomesKeepsInv DEF SendsWanted
<1>6. testing' \in Nat
  BY TestIfType DEF Inv, TypeOK
<1>7. TypeOK'
  BY <1>4, <1>5, <1>6 DEF Inv, TypeOK, Delete
<1>8. QED  BY <1>5, <1>7 DEF Inv

LEMMA DeleteKeepsInv ==
    ASSUME Inv, NEW name \in Printers, Delete(name)
    PROVE  Inv' /\ SendsWanted
<1>1. CASE /\ Becomes(Deleted(panel, name)) /\ TestIf(IsLast(panel'))
           /\ UNCHANGED <<listings, adding, alive>>
  BY <1>1, DeletionKeepsInv
<1>2. CASE Ends /\ UNCHANGED deletions
  <2>1. verdict' \in [Printers -> {"keep", "delete"}]
    BY DEF Delete, Inv, TypeOK
  <2>2. queues' = queues /\ up' = up
    BY DEF Delete
  <2>3. Inv'
    BY <1>2, <2>1, <2>2, EndKeepsInv DEF Inv, TypeOK
  <2>4. QED  BY <1>2, <2>3 DEF SendsWanted
<1>3. QED  BY <1>1, <1>2 DEF Delete

LEMMA UndoKeepsInv ==
    ASSUME Inv, Undo
    PROVE  Inv' /\ SendsWanted
<1> DEFINE u == Undone(panel)
           q == Dismissed(u)
<1>1. alive /\ alive' = alive /\ Becomes(q)
  BY DEF Undo
<1>2. /\ u \in PanelStates /\ u.deleting = panel.deleting /\ u.pending = None
      /\ u.entries \cap Gone(u) \subseteq u.hidden
  BY <1>1, PendingFacts, UndoneFacts
<1>3. /\ q \in PanelStates /\ q.deleting = Gone(u) /\ q.pending = None /\ Gone(q) = Gone(u)
      /\ q.entries = u.entries /\ q.hidden = u.hidden
  BY <1>2, DismissedFacts
<1>4. Gone(u) = panel.deleting
  BY <1>2 DEF Gone
<1>5. verdict' \in [Printers -> {"keep", "delete"}]
  BY <1>1, PendingFacts DEF Undo
<1>6. None \notin panel.deleting
  BY <1>1, PendingFacts
<1> HIDE DEF u, q
<1>7. /\ panel' \in PanelStates
      /\ deletions' \in [Printers -> {"none", "sent", "answered"}]
      /\ DeletedIsHidden' /\ DeletionsAreTracked' /\ PendingIsWanted' /\ SendsWanted
  BY <1>1, <1>2, <1>3, <1>4, <1>5, <1>6, BecomesKeepsInv DEF SendsWanted
<1>8. TypeOK'
  BY <1>5, <1>7 DEF Inv, TypeOK, Undo, calls
<1>9. QED  BY <1>7, <1>8 DEF Inv

\* The timer, and the toast when it goes by itself
LEMMA DismissalKeepsInv ==
    ASSUME Inv, alive, Becomes(Dismissed(panel)),
           UNCHANGED <<queues, up, calls, alive, verdict>>
    PROVE  Inv' /\ SendsWanted
<1> DEFINE q == Dismissed(panel)
<1>1. /\ q \in PanelStates /\ q.deleting = Gone(panel) /\ q.pending = None
      /\ Gone(q) = Gone(panel) /\ q.entries = panel.entries /\ q.hidden = panel.hidden
  BY PendingFacts, DismissedFacts
<1>2. verdict' = verdict /\ alive' = alive /\ Becomes(q)
  OBVIOUS
<1> HIDE DEF q
<1>3. /\ panel' \in PanelStates
      /\ deletions' \in [Printers -> {"none", "sent", "answered"}]
      /\ DeletedIsHidden' /\ DeletionsAreTracked' /\ PendingIsWanted' /\ SendsWanted
  BY <1>1, <1>2, PendingFacts, BecomesKeepsInv DEF SendsWanted
<1>4. TypeOK'
  BY <1>3 DEF Inv, TypeOK, calls
<1>5. QED  BY <1>3, <1>4 DEF Inv

LEMMA ListingArrivesKeepsInv ==
    ASSUME Inv, NEW i \in DOMAIN listings, ListingArrives(i)
    PROVE  Inv' /\ SendsWanted
<1> DEFINE q == Paged(Listed(panel, listings[i].dests))
<1>1. /\ alive /\ alive' = alive /\ Becomes(q) /\ verdict' = verdict
      /\ listings' = RemoveAt(listings, i)
  BY DEF ListingArrives
<1>2. listings \in Seq(Listings) /\ listings[i].dests \in SUBSET Printers
  <2>1. listings \in Seq(Listings)
    BY DEF Inv, TypeOK
  <2>2. listings[i] \in Listings
    BY <2>1
  <2>3. QED  BY <2>1, <2>2 DEF Listings
<1>3. /\ q \in PanelStates /\ q.deleting = panel.deleting /\ q.pending = panel.pending
      /\ q.entries \cap Gone(q) \subseteq q.hidden
  BY <1>1, <1>2, PendingFacts, ListedFacts
<1> HIDE DEF q
<1>4. q.pending # None => verdict'[q.pending] = "delete"
  BY <1>1, <1>3 DEF Inv, PendingIsWanted
<1>5. /\ panel' \in PanelStates
      /\ deletions' \in [Printers -> {"none", "sent", "answered"}]
      /\ DeletedIsHidden' /\ DeletionsAreTracked' /\ PendingIsWanted' /\ SendsWanted
  BY <1>1, <1>3, <1>4, PendingFacts, BecomesKeepsInv DEF SendsWanted
<1>6. testing' \in Nat
  BY TestIfType DEF ListingArrives, Inv, TypeOK
<1>7. TypeOK'
  BY <1>1, <1>2, <1>5, <1>6, ListingsAreTyped DEF Inv, TypeOK, ListingArrives
<1>8. QED  BY <1>5, <1>7 DEF Inv

LEMMA PrinterRemovedKeepsInv ==
    ASSUME Inv, NEW name \in Printers, PrinterRemoved(name)
    PROVE  Inv' /\ SendsWanted
<1>1. /\ panel \in PanelStates
      /\ deletions \in [Printers -> {"none", "sent", "answered"}]
      /\ deletions' = [deletions EXCEPT ![name] = "none"]
      /\ panel' = IF alive THEN Removed(panel, name) ELSE panel
  BY DEF PrinterRemoved, Inv, TypeOK
<1>2. /\ panel' \in PanelStates
      /\ deletions' \in [Printers -> {"none", "sent", "answered"}]
      /\ SendsWanted
  BY <1>1 DEF Removed, PanelStates, SendsWanted
<1>3. TypeOK'
  BY <1>2 DEF Inv, TypeOK, PrinterRemoved, calls
<1>4. CASE alive
  <2>1. panel' = [panel EXCEPT !.deleting = @ \ {name}]
    BY <1>1, <1>4 DEF Removed
  <2>2. /\ panel'.deleting = panel.deleting \ {name} /\ panel'.pending = panel.pending
        /\ panel'.entries = panel.entries /\ panel'.hidden = panel.hidden
    BY <1>1, <2>1 DEF PanelStates
  <2>3. panel.deleting = {p \in Printers : deletions[p] # "none"}
        /\ panel.pending \notin panel.deleting
    BY <1>4 DEF Inv, DeletionsAreTracked
  <2>4. DeletionsAreTracked'
    BY <1>1, <2>2, <2>3 DEF DeletionsAreTracked
  <2>5. DeletedIsHidden' /\ PendingIsWanted'
    BY <1>4, <2>2, PendingFacts
       DEF Inv, DeletedIsHidden, PendingIsWanted, PrinterRemoved, Gone
  <2>6. QED  BY <1>2, <1>3, <2>4, <2>5 DEF Inv
<1>5. CASE ~alive
  <2>1. DeletionsAreTracked' /\ DeletedIsHidden' /\ PendingIsWanted'
    BY <1>5 DEF DeletionsAreTracked, DeletedIsHidden, PendingIsWanted, PrinterRemoved
  <2>2. QED  BY <1>2, <1>3, <2>1 DEF Inv
<1>6. QED  BY <1>4, <1>5

LEMMA DisposeKeepsInv ==
    ASSUME Inv, Dispose
    PROVE  Inv' /\ SendsWanted
<1>1. /\ deletions \in [Printers -> {"none", "sent", "answered"}]
      /\ verdict' = verdict
      /\ deletions' = [p \in Printers |-> IF p = panel.pending THEN "sent" ELSE deletions[p]]
  BY DEF Dispose, Inv, TypeOK
<1>2. \A p \in Printers : p = panel.pending => verdict[p] = "delete"
  BY PrintersAssumption DEF Dispose, Inv, PendingIsWanted
<1>3. deletions' \in [Printers -> {"none", "sent", "answered"}] /\ SendsWanted
  BY <1>1, <1>2 DEF SendsWanted
<1>4. Inv'
  BY <1>3, <1>1, EndKeepsInv DEF Dispose, Inv, TypeOK
<1>5. QED  BY <1>3, <1>4

\* Steps that leave the deletions alone, on both sides
LEMMA OthersKeepInv ==
    ASSUME Inv, TypeOK', alive' = alive, deletions' = deletions, verdict' = verdict,
           panel'.deleting = panel.deleting, panel'.pending = panel.pending,
           panel'.entries = panel.entries, panel'.hidden = panel.hidden
    PROVE  Inv' /\ SendsWanted
<1>1. DeletedIsHidden' /\ DeletionsAreTracked' /\ PendingIsWanted' /\ SendsWanted
  BY DEF Inv, DeletedIsHidden, DeletionsAreTracked, PendingIsWanted, Gone, SendsWanted
<1>2. QED  BY <1>1 DEF Inv

LEMMA NextKeepsInv ==
    ASSUME Inv, [Next]_vars
    PROVE  Inv' /\ SendsWanted
<1> USE DEF calls
<1>1. listings \in Seq(Listings) /\ panel \in PanelStates /\ adding \in Names
      /\ queues \in SUBSET Printers
  BY DEF Inv, TypeOK
<1>2. ASSUME NEW name \in Printers, Delete(name)
      PROVE  Inv' /\ SendsWanted
  BY <1>2, DeleteKeepsInv
<1>3. ASSUME NEW name \in Printers, PrinterRemoved(name)
      PROVE  Inv' /\ SendsWanted
  BY <1>3, PrinterRemovedKeepsInv
<1>4. ASSUME NEW name \in Printers, RunDeletion(name)
      PROVE  Inv' /\ SendsWanted
  <2>1. /\ deletions \in [Printers -> {"none", "sent", "answered"}]
        /\ deletions[name] = "sent"
        /\ deletions' = [deletions EXCEPT ![name] = "answered"]
        /\ panel' = panel /\ alive' = alive /\ verdict' = verdict
    BY <1>4 DEF RunDeletion, Inv, TypeOK
  <2>2. deletions' \in [Printers -> {"none", "sent", "answered"}]
        /\ {p \in Printers : deletions'[p] # "none"} = {p \in Printers : deletions[p] # "none"}
        /\ SendsWanted
    BY <2>1 DEF SendsWanted
  <2>3. queues' \in SUBSET Printers
    BY <1>1, <1>4 DEF RunDeletion
  <2>4. TypeOK'
    BY <1>4, <2>2, <2>3 DEF RunDeletion, Inv, TypeOK
  <2>5. DeletedIsHidden' /\ PendingIsWanted'
    BY <2>1 DEF Inv, DeletedIsHidden, PendingIsWanted, Gone
  <2>6. DeletionsAreTracked'
    BY <2>1, <2>2 DEF Inv, DeletionsAreTracked
  <2>7. QED  BY <2>2, <2>4, <2>5, <2>6 DEF Inv
<1>5. ASSUME NEW name \in Additions, Add(name)
      PROVE  Inv' /\ SendsWanted
  <2>1. name \in Names /\ panel' = [panel EXCEPT !.new = name] /\ adding' = name
    BY <1>5, PrintersAssumption DEF Add, Names
  <2>2. /\ panel' \in PanelStates /\ panel'.deleting = panel.deleting
        /\ panel'.pending = panel.pending /\ panel'.entries = panel.entries
        /\ panel'.hidden = panel.hidden
    BY <1>1, <2>1 DEF PanelStates
  <2>3. listings' \in Seq(Listings)
    BY <1>1, <1>5, ListingsAreTyped DEF Add, AskListing
  <2>4. TypeOK'
    BY <1>5, <2>1, <2>2, <2>3 DEF Add, Inv, TypeOK
  <2>5. QED  BY <1>5, <2>2, <2>4, OthersKeepInv DEF Add
<1>6. ASSUME NEW pair \in Renamings, Renamed(pair[1], pair[2])
      PROVE  Inv' /\ SendsWanted
  <2>1. pair[1] \in Names /\ pair[2] \in Names
    BY PrintersAssumption DEF Names
  <2>2. panel' = [panel EXCEPT !.renamed = [old |-> pair[1], new |-> pair[2]]]
    BY <1>6 DEF Renamed
  <2>3. /\ panel' \in PanelStates /\ panel'.deleting = panel.deleting
        /\ panel'.pending = panel.pending /\ panel'.entries = panel.entries
        /\ panel'.hidden = panel.hidden
    BY <1>1, <2>1, <2>2 DEF PanelStates
  <2>4. TypeOK'
    BY <1>6, <2>3 DEF Renamed, Inv, TypeOK
  <2>5. QED  BY <1>6, <2>3, <2>4, OthersKeepInv DEF Renamed
<1>7. CASE Undo
  BY <1>7, UndoKeepsInv
<1>8. CASE ToastExpires
  BY <1>8, DismissalKeepsInv DEF ToastExpires
<1>9. CASE Timeout
  BY <1>9, DismissalKeepsInv DEF Timeout
<1>10. CASE Dispose
  BY <1>10, DisposeKeepsInv
<1>11. ASSUME NEW i \in DOMAIN listings, ReadListing(i)
       PROVE  Inv' /\ SendsWanted
  <2>1. [read |-> TRUE, dests |-> IF up THEN queues ELSE {}] \in Listings
    BY <1>1 DEF Listings
  <2>2. listings' \in Seq(Listings)
    BY <1>1, <1>11, <2>1, ListingsAreTyped DEF ReadListing
  <2>3. TypeOK'
    BY <1>11, <2>2 DEF ReadListing, Inv, TypeOK
  <2>4. QED  BY <1>11, <2>3, OthersKeepInv DEF ReadListing
<1>12. ASSUME NEW i \in DOMAIN listings, ListingArrives(i)
       PROVE  Inv' /\ SendsWanted
  BY <1>12, ListingArrivesKeepsInv
<1>13. CASE PageTested
  <2>1. panel' = [panel EXCEPT !.page = IF up THEN "empty-state" ELSE "no-cups-page"]
    BY <1>13 DEF PageTested
  <2>2. /\ panel' \in PanelStates /\ panel'.deleting = panel.deleting
        /\ panel'.pending = panel.pending /\ panel'.entries = panel.entries
        /\ panel'.hidden = panel.hidden
    BY <1>1, <2>1 DEF PanelStates
  <2>3. testing' \in Nat
    BY <1>13 DEF PageTested, Inv, TypeOK
  <2>4. TypeOK'
    BY <1>13, <2>2, <2>3 DEF PageTested, Inv, TypeOK
  <2>5. QED  BY <1>13, <2>2, <2>4, OthersKeepInv DEF PageTested
<1>14. CASE Notified
  <2>1. TypeOK'
    BY <1>1, <1>14, ListingsAreTyped DEF Notified, AskListing, Inv, TypeOK
  <2>2. QED  BY <1>14, <2>1, OthersKeepInv DEF Notified
<1>15. CASE Added
  <2>1. panel' = panel
        \/ panel' = [panel EXCEPT !.toast = IF @ = "none" THEN "plain" ELSE @]
    BY <1>15 DEF Added
  <2>2. /\ panel' \in PanelStates /\ panel'.deleting = panel.deleting
        /\ panel'.pending = panel.pending /\ panel'.entries = panel.entries
        /\ panel'.hidden = panel.hidden
    BY <1>1, <2>1 DEF PanelStates
  <2>3. queues' \in SUBSET Printers /\ adding' \in Names
    BY <1>1, <1>15 DEF Added, Names
  <2>4. listings' \in Seq(Listings)
    BY <1>1, <1>15, ListingsAreTyped DEF Added, AskListing
  <2>5. TypeOK'
    BY <1>15, <2>2, <2>3, <2>4 DEF Added, Inv, TypeOK
  <2>6. QED  BY <1>15, <2>2, <2>5, OthersKeepInv DEF Added
<1>16. CASE ChangeQueues
  <2>1. TypeOK'
    BY <1>16 DEF ChangeQueues, Inv, TypeOK
  <2>2. QED  BY <1>16, <2>1, OthersKeepInv DEF ChangeQueues
<1>17. CASE Flip
  <2>1. TypeOK'
    BY <1>17 DEF Flip, Inv, TypeOK
  <2>2. QED  BY <1>17, <2>1, OthersKeepInv DEF Flip
<1>18. CASE UNCHANGED vars
  <2>1. TypeOK'
    BY <1>18 DEF vars, Inv, TypeOK
  <2>2. QED  BY <1>18, <2>1, OthersKeepInv DEF vars
<1>19. CASE PlainToastExpires
  <2>1. panel' = [panel EXCEPT !.toast = "freed"]
    BY <1>19 DEF PlainToastExpires
  <2>2. /\ panel' \in PanelStates /\ panel'.deleting = panel.deleting
        /\ panel'.pending = panel.pending /\ panel'.entries = panel.entries
        /\ panel'.hidden = panel.hidden
    BY <1>1, <2>1 DEF PanelStates
  <2>3. TypeOK'
    BY <1>19, <2>2 DEF PlainToastExpires, Inv, TypeOK
  <2>4. QED  BY <1>19, <2>2, <2>3, OthersKeepInv DEF PlainToastExpires
<1>20. QED
  BY <1>2, <1>3, <1>4, <1>5, <1>6, <1>7, <1>8, <1>9, <1>10, <1>11, <1>12, <1>13, <1>14,
     <1>15, <1>16, <1>17, <1>18, <1>19 DEF Next

LEMMA InvHolds == Spec => []Inv
  BY InitInv, NextKeepsInv, PTL DEF Spec

\* Every variable of the printers panel and of CUPS keeps its type.
THEOREM PrintersTypes == Spec => []TypeOK
<1>1. Inv => TypeOK
  BY DEF Inv
<1>2. QED  BY <1>1, InvHolds, PTL

\* No listing shows the row of a printer while its deletion is pending or on its way.
THEOREM DeletedStaysHidden == Spec => []DeletedIsHidden
<1>1. Inv => DeletedIsHidden
  BY DEF Inv
<1>2. QED  BY <1>1, InvHolds, PTL

\* deleted_printers and the calls in flight agree, and exclude what can be undone.
THEOREM DeletionsTracked == Spec => []DeletionsAreTracked
<1>1. Inv => DeletionsAreTracked
  BY DEF Inv
<1>2. QED  BY <1>1, InvHolds, PTL

\* No timer, toast, second deletion or closing of the panel deletes a printer whose
\* deletion was undone.
THEOREM UndoneIsKept == Spec => OnlyDeletedAreRemoved
<1>1. Inv /\ [Next]_vars
        => [\A p \in Printers : deletions[p] = "none" /\ deletions'[p] # "none"
                                => verdict'[p] = "delete"]_vars
  BY NextKeepsInv DEF SendsWanted
<1>2. QED  BY <1>1, InvHolds, PTL DEF Spec, OnlyDeletedAreRemoved
==============================================================================
