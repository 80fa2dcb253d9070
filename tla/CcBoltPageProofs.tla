--------------------------- MODULE CcBoltPageProofs ---------------------------
(***************************************************************************)
(* The Thunderbolt page, for any number of devices, chained in any way,    *)
(* and any number of messages on their way: its lists follow the daemon,   *)
(* and devices are authorised from the root on.                            *)
(*                                                                         *)
(* The page reads what the daemon knows now, while messages about earlier   *)
(* changes still wait.  The invariant therefore says what the messages     *)
(* under way tell (OwnersAlternate, MessagesTell), and that the lists are  *)
(* right for every device about which none is (ListsAgree).  Operations    *)
(* are independent: each waits for at most one answer (RepliesFit) and     *)
(* makes its calls upwards (CallsFit).                                     *)
(***************************************************************************)
EXTENDS CcBoltPage, WellFoundedInduction, TLAPS

------------------------------------------------------------------------------
(* The invariant *)

IsOwner(i) == inbox[i].type = "owner"
OfDevice(i) == inbox[i].type \in {"added", "removed", "props"}
Says(i, type, d) == inbox[i].type = type /\ inbox[i].device = d
NoOwner == \A i \in DOMAIN inbox : ~IsOwner(i)
Up == page.container = "devices-listing"

\* The page is told of every stop and start of boltd in turn, and devices speak only while
\* boltd runs.
OwnersAlternate ==
    /\ NoOwner => (Up <=> running)
    /\ \A i \in DOMAIN inbox :
            IsOwner(i) /\ (\A j \in DOMAIN inbox : i < j => ~IsOwner(j))
                => inbox[i].up = running
    /\ \A i \in DOMAIN inbox :
            (\A j \in DOMAIN inbox : j < i => ~IsOwner(j))
                => /\ IsOwner(i) => inbox[i].up = ~Up
                   /\ OfDevice(i) => Up
    /\ \A i, j \in DOMAIN inbox :
            i < j /\ IsOwner(i) /\ (\A k \in DOMAIN inbox : i < k /\ k < j => ~IsOwner(k))
                => /\ IsOwner(j) => inbox[j].up = ~inbox[i].up
                   /\ OfDevice(j) => inbox[i].up

\* What was said of a device last is how boltd knows it.
LastWord(i, types, d) == \A j \in DOMAIN inbox, t \in types : i < j => ~Says(j, t, d)
MessagesTell ==
    \A i \in DOMAIN inbox, d \in Devices :
        /\ (Says(i, "added", d) \/ Says(i, "props", d)) /\ LastWord(i, {"removed"}, d)
              => boltd[d] # Gone
        /\ Says(i, "removed", d) /\ LastWord(i, {"added"}, d) => boltd[d] = Gone
        /\ Says(i, "props", d) /\ LastWord(i, {"props", "removed"}, d)
              => inbox[i].props = boltd[d]

Unsaid(types, d) == \A i \in DOMAIN inbox, t \in types : ~Says(i, t, d)

\* A device about which nothing waits is listed if boltd knows it, and in its list.
TableAgrees(d) ==
    Unsaid({"added", "removed"}, d) => (d \in Table(page) <=> boltd[d] # Gone)
ListAgrees(d) ==
    Unsaid({"removed", "props"}, d) /\ d \in Table(page) /\ boltd[d].status # "active"
        => (d \in page.lists["pending"] <=> IsPending(boltd[d].status))

\* Nobody is listed while boltd is known to be down.
ListsAgree ==
    /\ ~Up => Table(page) = {}
    /\ Up /\ NoOwner => \A d \in Devices : TableAgrees(d) /\ ListAgrees(d)

\* "No devices" hides rows only while their removal waits, or that of boltd as a whole.
StackFits ==
    page.stack = "no-devices" /\ NoOwner => \A d \in Table(page) : ~Unsaid({"removed"}, d)

\* The parents a dialog has found are numbered downwards, as they hang on each other.
DialogFits ==
    /\ dialog.open => dialog.device \in Devices
    /\ \A i \in DOMAIN dialog.parents :
            /\ dialog.parents[i] < dialog.device
            /\ \A j \in DOMAIN dialog.parents : i < j => dialog.parents[j] < dialog.parents[i]

\* There is at most one answer on its way to an operation, for its call in flight.
IsReply(i) == inbox[i].type = "reply"
RepliesFit ==
    \A i \in DOMAIN inbox : IsReply(i) =>
        /\ inbox[i].of \in Slots /\ ops[inbox[i].of].call # 0
        /\ \A j \in DOMAIN inbox : IsReply(j) /\ inbox[j].of = inbox[i].of => i = j

\* The calls still to be made are numbered upwards, and all others have been authorised.
CallFits(op) ==
    /\ op.call = 0 => op = Idle
    /\ op.call # 0 =>
            /\ op.all \subseteq op.done \cup {op.call} \cup ToSet(op.queue)
            /\ \A i \in DOMAIN op.queue :
                  /\ op.call < op.queue[i]
                  /\ \A j \in DOMAIN op.queue : i < j => op.queue[i] < op.queue[j]
CallsFit == \A s \in Slots : CallFits(ops[s])

IInv ==
    /\ TypeOK
    /\ BoxesFollowLists
    /\ OwnersAlternate
    /\ MessagesTell
    /\ ListsAgree
    /\ StackFits
    /\ DialogFits
    /\ RepliesFit
    /\ CallsFit

------------------------------------------------------------------------------
(* Messages *)

LEMMA MessageTypes ==
    ASSUME NEW m \in Messages
    PROVE  /\ m.type \in {"added", "removed", "props", "owner", "reply"}
           /\ m.type \in {"added", "removed", "props"} => m.device \in Devices
           /\ m.type = "props" => m.props \in Props
           /\ m.type = "owner" => m.up \in BOOLEAN
           /\ m.type = "reply" => m.of \in Slots /\ m.ok \in BOOLEAN
  BY DEF Messages

LEMMA MessagesAre ==
    /\ \A d \in Devices : [type |-> "added", device |-> d] \in Messages
    /\ \A d \in Devices : [type |-> "removed", device |-> d] \in Messages
    /\ \A d \in Devices, p \in Props : [type |-> "props", device |-> d, props |-> p] \in Messages
    /\ \A up \in BOOLEAN : [type |-> "owner", up |-> up] \in Messages
    /\ \A s \in Slots, ok \in BOOLEAN : [type |-> "reply", of |-> s, ok |-> ok] \in Messages
  BY DEF Messages

LEMMA PopFacts ==
    ASSUME inbox \in Seq(Messages), inbox # <<>>, Pop
    PROVE  /\ inbox' \in Seq(Messages)
           /\ Len(inbox) \in Nat /\ Len(inbox) >= 1
           /\ DOMAIN inbox = 1..Len(inbox) /\ DOMAIN inbox' = 1..Len(inbox) - 1
           /\ Head(inbox) = inbox[1] /\ 1 \in DOMAIN inbox
           /\ \A i \in DOMAIN inbox' : i + 1 \in DOMAIN inbox /\ inbox'[i] = inbox[i + 1]
  BY DEF Pop

LEMMA SendFacts ==
    ASSUME inbox \in Seq(Messages), NEW messages \in Seq(Messages), Send(messages)
    PROVE  /\ inbox' \in Seq(Messages)
           /\ Len(inbox) \in Nat
           /\ DOMAIN inbox = 1..Len(inbox)
           /\ DOMAIN inbox' = 1..Len(inbox) + Len(messages)
           /\ \A i \in DOMAIN inbox : inbox'[i] = inbox[i]
           /\ \A i \in DOMAIN messages : inbox'[Len(inbox) + i] = messages[i]
  BY DEF Send

LEMMA NumbersOfDevices ==
    /\ Devices \subseteq Nat /\ 0 \notin Devices
    /\ \A d \in Devices : Parent[d] \in Devices \cup {0} /\ Parent[d] < d
  BY DevicesAssumption DEF Devices

------------------------------------------------------------------------------
(* The page *)

Lists == {"pending", "devices"}

Fits(p) ==
    /\ p \in Pages
    /\ p.lists["pending"] \cap p.lists["devices"] = {}
    /\ p.boxes = {l \in DOMAIN p.lists : p.lists[l] # {}}
    /\ p.boxes = {} => p.stack = "no-devices"

\* q has the devices of p in the same lists, except d.
SameBut(p, q, d) ==
    \A e \in Devices \ {d}, l \in Lists : e \in q.lists[l] <=> e \in p.lists[l]

LEMMA PageFacts ==
    ASSUME NEW p \in Pages
    PROVE  /\ p.lists \in [Lists -> SUBSET Devices]
           /\ p.boxes \in SUBSET Lists
           /\ p.stack \in {"no-devices", "have-devices"}
           /\ p.container \in {"no-thunderbolt", "devices-listing"}
           /\ p = [lists |-> p.lists, boxes |-> p.boxes, stack |-> p.stack,
                   container |-> p.container, shown |-> p.shown]
           /\ p.shown \in BOOLEAN
           /\ DOMAIN p.lists = Lists
  BY DEF Pages, Lists

LEMMA AddDeviceFacts ==
    ASSUME NEW p, Fits(p), NEW d \in Devices \ Table(p), NEW status
    PROVE  LET q == AddDevice(p, d, status)
           IN  /\ Fits(q) /\ SameBut(p, q, d) /\ q.container = p.container
               /\ Table(q) = Table(p) \cup {d} /\ q.stack = "have-devices"
               /\ d \in q.lists["pending"] <=> IsPending(status)
<1> DEFINE list == IF IsPending(status) THEN "pending" ELSE "devices"
           lists == [p.lists EXCEPT ![list] = @ \cup {d}]
           q == AddDevice(p, d, status)
<1>1. /\ p.lists \in [Lists -> SUBSET Devices] /\ p.boxes \in SUBSET Lists
      /\ p = [lists |-> p.lists, boxes |-> p.boxes, stack |-> p.stack,
              container |-> p.container, shown |-> p.shown]
      /\ p.container \in {"no-thunderbolt", "devices-listing"} /\ p.shown \in BOOLEAN
  BY PageFacts DEF Fits
<1>2. q = [lists |-> lists, boxes |-> p.boxes \cup {list}, stack |-> "have-devices",
           container |-> p.container, shown |-> p.shown]
  <2>1. q = [p EXCEPT !.lists[list] = p.lists[list] \cup {d},
                      !.boxes = p.boxes \cup {list},
                      !.stack = "have-devices"]
    BY <1>1, Zenon DEF AddDevice
  <2> HIDE DEF q, list
  <2> QED BY <1>1, <2>1
<1>3. list \in Lists /\ (list = "pending" <=> IsPending(status))
  BY DEF Lists
<1> HIDE DEF list
<1>4. /\ lists \in [Lists -> SUBSET Devices]
      /\ lists[list] = p.lists[list] \cup {d}
      /\ \A l \in Lists : l # list => lists[l] = p.lists[l]
  BY <1>1, <1>3
<1> HIDE DEF lists
<1>5. q \in Pages
  BY <1>1, <1>2, <1>3, <1>4 DEF Pages, Lists
<1>6. d \notin p.lists["pending"] /\ d \notin p.lists["devices"]
  BY DEF Table
<1>7. lists["pending"] \cap lists["devices"] = {}
  BY <1>3, <1>4, <1>6 DEF Fits, Lists
<1>8. p.boxes \cup {list} = {l \in Lists : lists[l] # {}}
  <2>1. p.boxes = {l \in Lists : p.lists[l] # {}}
    BY <1>1 DEF Fits
  <2> QED BY <1>3, <1>4, <2>1
<1>9. lists["pending"] \cup lists["devices"] = p.lists["pending"] \cup p.lists["devices"] \cup {d}
  BY <1>3, <1>4 DEF Lists
<1>10. d \in lists["pending"] <=> IsPending(status)
  BY <1>3, <1>4, <1>6 DEF Lists
<1>11. \A e \in Devices \ {d}, l \in Lists : e \in lists[l] <=> e \in p.lists[l]
  BY <1>4
<1>13. p.boxes \cup {list} # {}
  OBVIOUS
<1> HIDE DEF q
<1>12. DOMAIN q.lists = Lists
  BY <1>2, <1>4
<1> QED BY <1>2, <1>13, <1>5, <1>7, <1>8, <1>9, <1>10, <1>11, <1>12 DEF Fits, SameBut, Table, q

LEMMA DelEntryFacts ==
    ASSUME NEW p, Fits(p), NEW d \in Table(p)
    PROVE  LET q == DelEntry(p, d)
           IN  /\ Fits(q) /\ SameBut(p, q, d) /\ q.container = p.container
               /\ Table(q) = Table(p) \ {d}
               /\ q.stack = "no-devices" /\ Table(q) # {} => p.stack = "no-devices" \/ ~p.shown
<1> DEFINE list == CHOOSE l \in DOMAIN p.lists : d \in p.lists[l]
           lists == [p.lists EXCEPT ![list] = @ \ {d}]
           boxes == IF p.lists[list] = {d} THEN p.boxes \ {list} ELSE p.boxes \cup {list}
           stack == IF boxes = {} \/ ~p.shown THEN "no-devices" ELSE p.stack
           q == DelEntry(p, d)
<1>1. /\ p.lists \in [Lists -> SUBSET Devices] /\ p.boxes \in SUBSET Lists
      /\ p = [lists |-> p.lists, boxes |-> p.boxes, stack |-> p.stack,
              container |-> p.container, shown |-> p.shown]
      /\ p.container \in {"no-thunderbolt", "devices-listing"} /\ p.shown \in BOOLEAN
      /\ p.stack \in {"no-devices", "have-devices"}
      /\ DOMAIN p.lists = Lists
  BY PageFacts DEF Fits
<1>2. q = [lists |-> lists, boxes |-> boxes, stack |-> stack, container |-> p.container,
           shown |-> p.shown]
  <2>1. q = [p EXCEPT !.lists[list] = p.lists[list] \ {d},
                      !.boxes = boxes,
                      !.stack = IF boxes = {} \/ ~p.shown THEN "no-devices" ELSE p.stack]
    BY <1>1, Zenon DEF DelEntry
  <2> HIDE DEF q, list, boxes
  <2> QED BY <1>1, <2>1
<1>3. list \in Lists /\ d \in p.lists[list]
  <2>1. \E l \in DOMAIN p.lists : d \in p.lists[l]
    BY <1>1 DEF Table, Lists
  <2> QED BY <1>1, <2>1
<1> HIDE DEF list
<1>4. /\ lists \in [Lists -> SUBSET Devices]
      /\ lists[list] = p.lists[list] \ {d}
      /\ \A l \in Lists : l # list => lists[l] = p.lists[l] /\ d \notin p.lists[l]
  BY <1>1, <1>3 DEF Fits, Lists
<1> HIDE DEF lists
<1>5. p.boxes = {l \in Lists : p.lists[l] # {}}
  BY <1>1 DEF Fits
<1>6. boxes = {l \in Lists : lists[l] # {}}
  <2>1. CASE p.lists[list] = {d}
    BY <1>3, <1>4, <1>5, <2>1
  <2>2. CASE p.lists[list] # {d}
    BY <1>3, <1>4, <1>5, <2>2
  <2> QED BY <2>1, <2>2
<1>7. /\ boxes = {} => stack = "no-devices"
      /\ stack \in {"no-devices", "have-devices"}
      /\ stack = "no-devices" /\ boxes # {} => p.stack = "no-devices" \/ ~p.shown
  BY <1>1
<1>13. lists["pending"] \cup lists["devices"] # {} => boxes # {}
  BY <1>6 DEF Lists
<1> HIDE DEF boxes
<1>8. q \in Pages
  BY <1>1, <1>2, <1>4, <1>6, <1>7 DEF Pages, Lists
<1>9. lists["pending"] \cap lists["devices"] = {}
  BY <1>3, <1>4 DEF Fits, Lists
<1>10. lists["pending"] \cup lists["devices"] = (p.lists["pending"] \cup p.lists["devices"]) \ {d}
  BY <1>3, <1>4 DEF Lists
<1>11. \A e \in Devices \ {d}, l \in Lists : e \in lists[l] <=> e \in p.lists[l]
  BY <1>4
<1> HIDE DEF q, stack
<1>12. DOMAIN q.lists = Lists
  BY <1>2, <1>4
<1> QED BY <1>2, <1>6, <1>7, <1>8, <1>9, <1>10, <1>11, <1>12, <1>13 DEF Fits, SameBut, Table, q

LEMMA StatusChangedFacts ==
    ASSUME NEW p, Fits(p), NEW d \in Table(p), NEW status
    PROVE  LET q == StatusChanged(p, d, status)
           IN  /\ Fits(q) /\ SameBut(p, q, d) /\ q.container = p.container
               /\ Table(q) = Table(p) /\ q.stack = p.stack
               /\ status # "active" => (d \in q.lists["pending"] <=> IsPending(status))
<1> DEFINE to == IF IsPending(status) THEN "pending" ELSE "devices"
           from == IF IsPending(status) THEN "devices" ELSE "pending"
           lists == [l \in DOMAIN p.lists |-> IF l = to THEN p.lists[l] \cup {d}
                                              ELSE p.lists[l] \ {d}]
           boxes == IF p.lists[from] = {d} THEN p.boxes \ {from} ELSE p.boxes \cup {from}
           q == StatusChanged(p, d, status)
<1>1. /\ p.lists \in [Lists -> SUBSET Devices] /\ p.boxes \in SUBSET Lists
      /\ p = [lists |-> p.lists, boxes |-> p.boxes, stack |-> p.stack,
              container |-> p.container, shown |-> p.shown]
      /\ p.container \in {"no-thunderbolt", "devices-listing"} /\ p.shown \in BOOLEAN
      /\ p.stack \in {"no-devices", "have-devices"}
      /\ DOMAIN p.lists = Lists
  BY PageFacts DEF Fits
<1>2. d \in Devices
  BY <1>1 DEF Table, Lists
<1>3. CASE status = "active" \/ d \notin p.lists[from]
  BY <1>3 DEF StatusChanged, SameBut, IsPending, Table, Fits
<1>4. CASE status # "active" /\ d \in p.lists[from]
  <2>1. q = [lists |-> lists, boxes |-> boxes \cup {to}, stack |-> p.stack,
             container |-> p.container, shown |-> p.shown]
    BY <1>1, <1>4 DEF StatusChanged
  <2>2. /\ to \in Lists /\ from \in Lists /\ Lists = {to, from} /\ to # from
        /\ to = "pending" <=> IsPending(status)
    BY DEF Lists
  <2>3. lists \in [Lists -> SUBSET Devices]
        /\ lists[to] = p.lists[to] \cup {d} /\ lists[from] = p.lists[from] \ {d}
    BY <1>1, <1>2, <2>2
  <2>4. d \notin p.lists[to] /\ p.lists[to] \cap p.lists[from] = {}
    BY <1>4, <2>2 DEF Fits, Lists
  <2>5. p.boxes = {l \in Lists : p.lists[l] # {}}
    BY <1>1 DEF Fits
  <2>6. d \in p.lists[from]
    BY <1>4
  <2> DEFINE a == to
             b == from
  <2> HIDE DEF to, from, lists
  <2>7. boxes \cup {to} = {l \in Lists : lists[l] # {}}
    <3>1. CASE p.lists[from] = {d}
      BY <2>2, <2>3, <2>5, <3>1
    <3>2. CASE p.lists[from] # {d}
      BY <2>2, <2>3, <2>5, <2>6, <3>2
    <3> QED BY <3>1, <3>2
  <2>8. boxes \cup {to} # {}
    OBVIOUS
  <2>9. lists[to] \cap lists[from] = {} /\ lists[to] \cup lists[from] = p.lists[to] \cup p.lists[from]
    BY <2>3, <2>4, <2>6
  <2>10. \A e \in Devices \ {d}, l \in Lists : e \in lists[l] <=> e \in p.lists[l]
    BY <2>2, <2>3
  <2> HIDE DEF boxes
  <2>11. q \in Pages
    BY <1>1, <2>1, <2>3, <2>7 DEF Pages, Lists
  <2> HIDE DEF q
  <2>12. DOMAIN q.lists = Lists
    BY <2>1, <2>3
  <2>13. d \in lists["pending"] <=> IsPending(status)
    BY <2>2, <2>3 DEF Lists
  <2>14. lists["pending"] \cap lists["devices"] = {}
         /\ lists["pending"] \cup lists["devices"] = p.lists["pending"] \cup p.lists["devices"]
    BY <2>2, <2>9 DEF Lists
  <2> QED BY <2>1, <2>7, <2>8, <2>10, <2>11, <2>12, <2>13, <2>14
          DEF Fits, SameBut, Table, q
<1> QED BY <1>3, <1>4

LEMMA VisibilityFacts ==
    ASSUME NEW p, Fits(p)
    PROVE  LET q == UpdateVisibility(p)
           IN  /\ Fits(q) /\ q.lists = p.lists /\ q.container = p.container
               /\ Table(q) = Table(p) /\ q.stack = p.stack
               /\ q.shown <=> Known # {}
<1> DEFINE q == UpdateVisibility(p)
           b == Known # {}
<1>1. q = [p EXCEPT !.shown = b]
  BY DEF UpdateVisibility
<1>2. b \in BOOLEAN
  OBVIOUS
<1> HIDE DEF b, q
<1>3. /\ q \in Pages /\ q.lists = p.lists /\ q.boxes = p.boxes /\ q.stack = p.stack
      /\ q.container = p.container /\ q.shown = b
  BY <1>1, <1>2 DEF Fits, Pages
<1>4. Fits(q) /\ Table(q) = Table(p)
  BY <1>3 DEF Fits, Table
<1> QED BY <1>3, <1>4 DEF q, b

------------------------------------------------------------------------------
(* The loops over the devices *)

\* Induction up to a number, with the set of the numbers for which the fact holds
LEMMA Upwards ==
    ASSUME NEW N \in Nat, NEW S, 0 \in S, \A n \in Nat : n + 1 <= N /\ n \in S => n + 1 \in S
    PROVE  N \in S
<1> SUFFICES ASSUME N \notin S PROVE FALSE
  OBVIOUS
<1> DEFINE Bad == {n \in Nat : n <= N /\ n \notin S}
<1>1. N \in Bad
  OBVIOUS
<1>2. \E m \in Bad : \A n \in Bad : ~ (<<n, m>> \in OpToRel(<, Nat))
  BY <1>1, NatLessThanWellFounded, WFMin
<1>3. PICK m \in Bad : \A n \in Bad : ~ (n < m)
  BY <1>2 DEF OpToRel
<1>4. m # 0 /\ m - 1 \in Nat /\ (m - 1) + 1 = m /\ m - 1 < m /\ m <= N
  OBVIOUS
<1>5. m - 1 \in S
  BY <1>3, <1>4
<1> QED BY <1>4, <1>5

LEMMA ClearingSteps ==
    ASSUME NEW p, NEW old
    PROVE  LET f == Clearing(p, old)
           IN  /\ f[0] = p
               /\ \A n \in 1..NDevices :
                     f[n] = IF n \in old THEN DelEntry(f[n - 1], n) ELSE f[n - 1]
<1> DEFINE Step(q, n) == IF n \in old THEN DelEntry(q, n) ELSE q
           P(f, k) == f = [n \in 0..k |-> IF n = 0 THEN p ELSE Step(f[n - 1], n)]
           Found == {k \in Nat : \E f : P(f, k)}
<1>1. 0 \in Found
  <2>1. P([n \in 0..0 |-> p], 0)
    OBVIOUS
  <2> QED BY <2>1
<1>2. ASSUME NEW k \in Nat, k \in Found
      PROVE  k + 1 \in Found
  <2> HIDE DEF Step
  <2>1. PICK f : P(f, k)
    BY <1>2
  <2> DEFINE g == [n \in 0..k + 1 |-> IF n <= k THEN f[n] ELSE Step(f[k], k + 1)]
  <2>2. \A n \in 0..k + 1 : g[n] = IF n = 0 THEN p ELSE Step(g[n - 1], n)
    BY <2>1
  <2>3. P(g, k + 1)
    BY <2>2
  <2> HIDE DEF P, g
  <2> QED BY <2>3
<1>3. NDevices \in Found
  <2> HIDE DEF P
  <2> QED BY <1>1, <1>2, Upwards, DevicesAssumption
<1>4. P(Clearing(p, old), NDevices)
  BY <1>3, Zenon DEF Clearing
<1> QED BY <1>4, DevicesAssumption

LEMMA AddingSteps ==
    ASSUME NEW p, NEW new
    PROVE  LET f == Adding(p, new)
           IN  /\ f[0] = p
               /\ \A n \in 1..NDevices :
                     f[n] = IF n \in new THEN AddDevice(f[n - 1], n, boltd[n].status) ELSE f[n - 1]
<1> DEFINE Step(q, n) == IF n \in new THEN AddDevice(q, n, boltd[n].status) ELSE q
           P(f, k) == f = [n \in 0..k |-> IF n = 0 THEN p ELSE Step(f[n - 1], n)]
           Found == {k \in Nat : \E f : P(f, k)}
<1>1. 0 \in Found
  <2>1. P([n \in 0..0 |-> p], 0)
    OBVIOUS
  <2> QED BY <2>1
<1>2. ASSUME NEW k \in Nat, k \in Found
      PROVE  k + 1 \in Found
  <2> HIDE DEF Step
  <2>1. PICK f : P(f, k)
    BY <1>2
  <2> DEFINE g == [n \in 0..k + 1 |-> IF n <= k THEN f[n] ELSE Step(f[k], k + 1)]
  <2>2. \A n \in 0..k + 1 : g[n] = IF n = 0 THEN p ELSE Step(g[n - 1], n)
    BY <2>1
  <2>3. P(g, k + 1)
    BY <2>2
  <2> HIDE DEF P, g
  <2> QED BY <2>3
<1>3. NDevices \in Found
  <2> HIDE DEF P
  <2> QED BY <1>1, <1>2, Upwards, DevicesAssumption
<1>4. P(Adding(p, new), NDevices)
  BY <1>3, Zenon DEF Adding
<1> QED BY <1>4, DevicesAssumption

\* Clearing takes the devices out, whatever the order, and leaves the others where they are.
LEMMA ClearFacts ==
    ASSUME NEW p, Fits(p), NEW old \in SUBSET Table(p)
    PROVE  LET q == Clear(p, old)
           IN  /\ Fits(q) /\ q.container = p.container
               /\ Table(q) = Table(p) \ old
               /\ old = {} => q.stack = p.stack
               /\ \A e \in Devices \ old, l \in Lists : e \in q.lists[l] <=> e \in p.lists[l]
<1> DEFINE f == Clearing(p, old)
           Here(n) == /\ Fits(f[n]) /\ f[n].container = p.container
                      /\ old = {} => f[n].stack = p.stack
                      /\ \A e \in Devices :
                            e \in Table(f[n]) <=> e \in Table(p) /\ ~ (e \in old /\ e <= n)
                      /\ \A e \in Devices \ old, l \in Lists :
                            e \in f[n].lists[l] <=> e \in p.lists[l]
           Good == {n \in Nat : Here(n)}
<1>1. /\ f[0] = p
      /\ \A n \in 1..NDevices : f[n] = IF n \in old THEN DelEntry(f[n - 1], n) ELSE f[n - 1]
  BY ClearingSteps
<1> HIDE DEF f
<1>2. 0 \in Good
  BY <1>1, NumbersOfDevices DEF Devices
<1>3. ASSUME NEW n \in Nat, n + 1 <= NDevices, n \in Good
      PROVE  n + 1 \in Good
  <2>1. n + 1 \in Devices /\ n + 1 \in 1..NDevices /\ (n + 1) - 1 = n
    BY <1>3, DevicesAssumption DEF Devices
  <2>2. f[n + 1] = IF n + 1 \in old THEN DelEntry(f[n], n + 1) ELSE f[n]
    BY <1>1, <2>1
  <2>3. \A e \in Devices : e <= n + 1 <=> e <= n \/ e = n + 1
    BY NumbersOfDevices
  <2>4. CASE n + 1 \notin old
    BY <1>3, <2>2, <2>3, <2>4
  <2>5. CASE n + 1 \in old
    <3>1. n + 1 \in Table(f[n]) /\ Fits(f[n])
      BY <1>3, <2>1, <2>5
    <3>2. /\ Fits(f[n + 1]) /\ SameBut(f[n], f[n + 1], n + 1)
          /\ f[n + 1].container = f[n].container
          /\ Table(f[n + 1]) = Table(f[n]) \ {n + 1}
      BY <2>2, <2>5, <3>1, DelEntryFacts
    <3> QED BY <1>3, <2>3, <2>5, <3>2 DEF SameBut
  <2> QED BY <2>4, <2>5
<1>4. NDevices \in Good
  <2> HIDE DEF Good
  <2> QED BY <1>2, <1>3, Upwards, DevicesAssumption
<1>5. \A e \in Devices : e <= NDevices
  BY DevicesAssumption DEF Devices
<1>6. \A q : Fits(q) => Table(q) \subseteq Devices
  BY PageFacts DEF Fits, Table, Lists
<1> DEFINE q == f[NDevices]
<1>7. /\ Fits(q) /\ q.container = p.container /\ (old = {} => q.stack = p.stack)
      /\ \A e \in Devices : e \in Table(q) <=> e \in Table(p) /\ e \notin old
      /\ \A e \in Devices \ old, l \in Lists : e \in q.lists[l] <=> e \in p.lists[l]
  BY <1>4, <1>5
<1>8. Table(q) = Table(p) \ old
  <2>1. Table(q) \subseteq Devices /\ Table(p) \subseteq Devices
    BY <1>6, <1>7
  <2> QED BY <1>7, <2>1
<1> QED BY <1>7, <1>8 DEF Clear, f

LEMMA AddingFacts ==
    ASSUME NEW p, Fits(p), NEW new \in SUBSET (Devices \ Table(p))
    PROVE  LET q == Adding(p, new)[NDevices]
           IN  /\ Fits(q) /\ q.container = p.container
               /\ Table(q) = Table(p) \cup new
               /\ new # {} => q.stack = "have-devices"
               /\ \A d \in new : d \in q.lists["pending"] <=> IsPending(boltd[d].status)
<1> DEFINE f == Adding(p, new)
           Here(n) == /\ Fits(f[n]) /\ f[n].container = p.container
                      /\ \A e \in Devices :
                            e \in Table(f[n]) <=> e \in Table(p) \/ (e \in new /\ e <= n)
                      /\ (\E e \in new : e <= n) => f[n].stack = "have-devices"
                      /\ \A e \in new : e <= n =>
                            (e \in f[n].lists["pending"] <=> IsPending(boltd[e].status))
           Good == {n \in Nat : Here(n)}
<1>1. /\ f[0] = p
      /\ \A n \in 1..NDevices :
            f[n] = IF n \in new THEN AddDevice(f[n - 1], n, boltd[n].status) ELSE f[n - 1]
  BY AddingSteps
<1> HIDE DEF f
<1>2. 0 \in Good
  BY <1>1, NumbersOfDevices DEF Devices
<1>3. ASSUME NEW n \in Nat, n + 1 <= NDevices, n \in Good
      PROVE  n + 1 \in Good
  <2>1. n + 1 \in Devices /\ n + 1 \in 1..NDevices /\ (n + 1) - 1 = n /\ ~ (n + 1 <= n)
    BY <1>3, DevicesAssumption DEF Devices
  <2>2. f[n + 1] = IF n + 1 \in new THEN AddDevice(f[n], n + 1, boltd[n + 1].status) ELSE f[n]
    BY <1>1, <2>1
  <2>3. \A e \in Devices : e <= n + 1 <=> e <= n \/ e = n + 1
    BY NumbersOfDevices
  <2>4. CASE n + 1 \notin new
    BY <1>3, <2>2, <2>3, <2>4
  <2>5. CASE n + 1 \in new
    <3>1. n + 1 \in Devices \ Table(f[n]) /\ Fits(f[n])
      BY <1>3, <2>1, <2>5
    <3>2. /\ Fits(f[n + 1]) /\ SameBut(f[n], f[n + 1], n + 1)
          /\ f[n + 1].container = f[n].container /\ f[n + 1].stack = "have-devices"
          /\ Table(f[n + 1]) = Table(f[n]) \cup {n + 1}
          /\ n + 1 \in f[n + 1].lists["pending"] <=> IsPending(boltd[n + 1].status)
      BY <2>2, <2>5, <3>1, AddDeviceFacts
    <3>3. "pending" \in Lists
      BY DEF Lists
    <3> QED BY <1>3, <2>3, <2>5, <3>2, <3>3 DEF SameBut
  <2> QED BY <2>4, <2>5
<1>4. NDevices \in Good
  <2> HIDE DEF Good
  <2> QED BY <1>2, <1>3, Upwards, DevicesAssumption
<1>5. \A e \in Devices : e <= NDevices
  BY DevicesAssumption DEF Devices
<1>6. \A q : Fits(q) => Table(q) \subseteq Devices
  BY PageFacts DEF Fits, Table, Lists
<1> DEFINE q == f[NDevices]
<1>7. /\ Fits(q) /\ q.container = p.container /\ (new # {} => q.stack = "have-devices")
      /\ \A e \in Devices : e \in Table(q) <=> e \in Table(p) \/ e \in new
      /\ \A e \in new : e \in q.lists["pending"] <=> IsPending(boltd[e].status)
  BY <1>4, <1>5
<1>8. Table(q) = Table(p) \cup new
  <2>1. Table(q) \subseteq Devices /\ Table(p) \subseteq Devices
    BY <1>6, <1>7
  <2> QED BY <1>7, <2>1
<1> QED BY <1>7, <1>8 DEF f

\* Synchronizing lists what boltd knows, in the right lists if nothing was listed before.
LEMMA SynchronizeFacts ==
    ASSUME NEW p, Fits(p)
    PROVE  LET q == Synchronize(p)
           IN  /\ Fits(q) /\ q.container = "devices-listing"
               /\ Table(q) = Known
               /\ Table(p) = {} /\ Known # {} => q.stack = "have-devices"
               /\ Table(p) = {} => \A d \in Known :
                     d \in q.lists["pending"] <=> IsPending(boltd[d].status)
<1> DEFINE listed == Known
           added == Adding(p, listed \ Table(p))[NDevices]
           cleared == Clear(added, Table(p) \ listed)
           q == Synchronize(p)
<1>1. q = [cleared EXCEPT !.container = "devices-listing"]
  BY DEF Synchronize
<1>2. listed \in SUBSET Devices
  BY DEF Known
<1> HIDE DEF listed, q
<1>3. /\ Fits(added) /\ Table(added) = Table(p) \cup listed
      /\ listed \ Table(p) # {} => added.stack = "have-devices"
      /\ \A d \in listed \ Table(p) :
            d \in added.lists["pending"] <=> IsPending(boltd[d].status)
  <2>1. listed \ Table(p) \in SUBSET (Devices \ Table(p))
    BY <1>2
  <2> QED BY <2>1, AddingFacts
<1> HIDE DEF added
<1>4. /\ Fits(cleared) /\ Table(cleared) = listed
      /\ Table(p) \ listed = {} => cleared.stack = added.stack
      /\ \A e \in listed, l \in Lists : e \in cleared.lists[l] <=> e \in added.lists[l]
  <2>1. Table(p) \ listed \in SUBSET Table(added)
    BY <1>3
  <2>2. Table(added) \ (Table(p) \ listed) = listed
    BY <1>3
  <2> QED BY <1>2, <1>3, <2>1, <2>2, ClearFacts
<1> HIDE DEF cleared
<1>5. /\ q \in Pages /\ q.lists = cleared.lists /\ q.boxes = cleared.boxes
      /\ q.stack = cleared.stack /\ q.container = "devices-listing"
  BY <1>1, <1>4 DEF Fits, Pages
<1>6. Fits(q) /\ Table(q) = listed
  BY <1>4, <1>5 DEF Fits, Table
<1>7. Table(p) = {} => \A d \in listed :
            d \in q.lists["pending"] <=> IsPending(boltd[d].status)
  BY <1>3, <1>4, <1>5 DEF Lists
<1>8. Table(p) = {} /\ listed # {} => q.stack = "have-devices"
  BY <1>3, <1>4, <1>5
<1> QED BY <1>5, <1>6, <1>7, <1>8 DEF q, listed

LEMMA OwnerLostFacts ==
    ASSUME NEW p, Fits(p)
    PROVE  LET q == OwnerChanged(p, FALSE)
           IN  Fits(q) /\ q.container = "no-thunderbolt" /\ Table(q) = {}
<1> DEFINE cleared == Clear(p, Table(p))
           q == OwnerChanged(p, FALSE)
<1>1. q = [cleared EXCEPT !.container = "no-thunderbolt"]
  BY DEF OwnerChanged
<1> HIDE DEF q
<1>2. Fits(cleared) /\ Table(cleared) = {}
  BY ClearFacts
<1> HIDE DEF cleared
<1>3. /\ q \in Pages /\ q.lists = cleared.lists /\ q.boxes = cleared.boxes
      /\ q.stack = cleared.stack /\ q.container = "no-thunderbolt"
  BY <1>1, <1>2 DEF Fits, Pages
<1>4. Fits(q) /\ Table(q) = {}
  BY <1>2, <1>3 DEF Fits, Table
<1> QED BY <1>3, <1>4 DEF q

------------------------------------------------------------------------------
(* Chains of devices *)

Downwards(s) == \A i, j \in DOMAIN s : i < j => s[j] < s[i]
Ascending(s) == \A i, j \in DOMAIN s : i < j => s[i] < s[j]

LEMMA ParentsStep ==
    \A d \in 0..NDevices :
        ParentsOf[d] = IF d = 0 \/ Parent[d] \notin Table(page) THEN <<>>
                       ELSE <<Parent[d]>> \o ParentsOf[Parent[d]]
<1> DEFINE Step(f, d) == IF d = 0 \/ Parent[d] \notin Table(page) THEN <<>>
                         ELSE <<Parent[d]>> \o f[Parent[d]]
           P(f, k) == f = [d \in 0..k |-> Step(f, d)]
           Found == {k \in Nat : \E f : P(f, k)}
<1>1. 0 \in Found
  <2>1. P([d \in 0..0 |-> <<>>], 0)
    OBVIOUS
  <2> QED BY <2>1
<1>2. ASSUME NEW k \in Nat, k + 1 <= NDevices, k \in Found
      PROVE  k + 1 \in Found
  <2>1. PICK f : P(f, k)
    BY <1>2
  <2> DEFINE g == [d \in 0..k + 1 |-> IF d <= k THEN f[d] ELSE Step(f, k + 1)]
  <2>2. \A d \in 0..k + 1 : d # 0 => Parent[d] \in 0..k /\ Parent[d] < d
    BY <1>2, NumbersOfDevices, DevicesAssumption DEF Devices
  <2>3. \A d \in 0..k + 1 : Step(g, d) = Step(f, d)
    <3>1. \A d \in 0..k + 1 : d # 0 => g[Parent[d]] = f[Parent[d]]
      BY <2>2
    <3> QED BY <3>1
  <2>4. \A d \in 0..k : f[d] = Step(f, d)
    BY <2>1
  <2> HIDE DEF Step
  <2>5. \A d \in 0..k + 1 : g[d] = Step(g, d)
    BY <2>3, <2>4
  <2>6. P(g, k + 1)
    BY <2>5
  <2> HIDE DEF P, g
  <2> QED BY <2>6
<1>3. NDevices \in Found
  <2> HIDE DEF P
  <2> QED BY <1>1, <1>2, Upwards, DevicesAssumption
<1>4. Devices \cup {0} = 0..NDevices
  BY DevicesAssumption DEF Devices
<1>5. ParentsOf = CHOOSE f : P(f, NDevices)
  BY <1>4, Zenon DEF ParentsOf
<1>6. P(ParentsOf, NDevices)
  BY <1>3, <1>5
<1> QED BY <1>6

LEMMA AboveStep ==
    \A d \in 0..NDevices : Above[d] = IF d = 0 THEN {} ELSE {Parent[d]} \cup Above[Parent[d]]
<1> DEFINE Step(f, d) == IF d = 0 THEN {} ELSE {Parent[d]} \cup f[Parent[d]]
           P(f, k) == f = [d \in 0..k |-> Step(f, d)]
           Found == {k \in Nat : \E f : P(f, k)}
<1>1. 0 \in Found
  <2>1. P([d \in 0..0 |-> {}], 0)
    OBVIOUS
  <2> QED BY <2>1
<1>2. ASSUME NEW k \in Nat, k + 1 <= NDevices, k \in Found
      PROVE  k + 1 \in Found
  <2>1. PICK f : P(f, k)
    BY <1>2
  <2> DEFINE g == [d \in 0..k + 1 |-> IF d <= k THEN f[d] ELSE Step(f, k + 1)]
  <2>2. \A d \in 0..k + 1 : d # 0 => Parent[d] \in 0..k /\ Parent[d] < d
    BY <1>2, NumbersOfDevices, DevicesAssumption DEF Devices
  <2>3. \A d \in 0..k + 1 : Step(g, d) = Step(f, d)
    <3>1. \A d \in 0..k + 1 : d # 0 => g[Parent[d]] = f[Parent[d]]
      BY <2>2
    <3> QED BY <3>1
  <2>4. \A d \in 0..k : f[d] = Step(f, d)
    BY <2>1
  <2> HIDE DEF Step
  <2>5. \A d \in 0..k + 1 : g[d] = Step(g, d)
    BY <2>3, <2>4
  <2>6. P(g, k + 1)
    BY <2>5
  <2> HIDE DEF P, g
  <2> QED BY <2>6
<1>3. NDevices \in Found
  <2> HIDE DEF P
  <2> QED BY <1>1, <1>2, Upwards, DevicesAssumption
<1>4. Devices \cup {0} = 0..NDevices
  BY DevicesAssumption DEF Devices
<1>5. Above = CHOOSE f : P(f, NDevices)
  BY <1>4, Zenon DEF Above
<1>6. P(Above, NDevices)
  BY <1>3, <1>5
<1> QED BY <1>6

\* What a device hangs on has a smaller number.
LEMMA AboveIsLower ==
    ASSUME NEW d \in Devices, NEW a \in Above[d]
    PROVE  a < d
<1> DEFINE Good == {n \in Nat : n <= NDevices => \A e \in 0..n : \A b \in Above[e] : b < e}
<1>1. 0 \in Good
  <2>1. 0 \in 0..NDevices
    BY DevicesAssumption
  <2>2. Above[0] = {}
    BY <2>1, AboveStep
  <2>3. \A e \in 0..0 : e = 0
    OBVIOUS
  <2> QED BY <2>2, <2>3
<1>2. ASSUME NEW n \in Nat, n + 1 <= NDevices, n \in Good
      PROVE  n + 1 \in Good
  <2>1. n + 1 \in Devices /\ n + 1 \in 0..NDevices /\ n + 1 # 0
    BY <1>2, DevicesAssumption DEF Devices
  <2>2. Parent[n + 1] \in 0..n /\ Parent[n + 1] < n + 1
    BY <2>1, NumbersOfDevices DEF Devices
  <2>3. Above[n + 1] = {Parent[n + 1]} \cup Above[Parent[n + 1]]
    BY <2>1, AboveStep
  <2>4. \A e \in 0..n : \A b \in Above[e] : b < e
    BY <1>2, DevicesAssumption
  <2>5. \A e \in 0..n : Above[e] \subseteq Nat
    <3> DEFINE Typed == {k \in Nat : k <= NDevices => \A e \in 0..k : Above[e] \subseteq Nat}
    <3>1. 0 \in Typed
      <4>1. 0 \in 0..NDevices
        BY DevicesAssumption
      <4>2. Above[0] = {}
        BY <4>1, AboveStep
      <4>3. \A e \in 0..0 : e = 0
        OBVIOUS
      <4> QED BY <4>2, <4>3
    <3>2. ASSUME NEW k \in Nat, k + 1 <= NDevices, k \in Typed
          PROVE  k + 1 \in Typed
      <4>1. k + 1 \in Devices /\ k + 1 \in 0..NDevices /\ k + 1 # 0
        BY <3>2, DevicesAssumption DEF Devices
      <4>2. Parent[k + 1] \in 0..k
        BY <4>1, NumbersOfDevices DEF Devices
      <4>3. Above[k + 1] = {Parent[k + 1]} \cup Above[Parent[k + 1]]
        BY <4>1, AboveStep
      <4>4. Above[k + 1] \subseteq Nat
        BY <3>2, <4>2, <4>3, DevicesAssumption
      <4> QED BY <3>2, <4>4, DevicesAssumption
    <3>3. NDevices \in Typed
      <4> HIDE DEF Typed
      <4> QED BY <3>1, <3>2, Upwards, DevicesAssumption
    <3> QED BY <1>2, <3>3, DevicesAssumption
  <2>6. \A b \in Above[n + 1] : b < n + 1
    <3> SUFFICES ASSUME NEW b \in Above[n + 1] PROVE b < n + 1
      OBVIOUS
    <3>1. CASE b = Parent[n + 1]
      BY <2>2, <3>1
    <3>2. CASE b \in Above[Parent[n + 1]]
      <4>1. b \in Nat /\ b < Parent[n + 1]
        BY <2>2, <2>4, <2>5, <3>2
      <4> QED BY <2>2, <4>1
    <3> QED BY <2>3, <3>1, <3>2
  <2>7. \A e \in 0..n + 1 : e \in 0..n \/ e = n + 1
    OBVIOUS
  <2> QED BY <2>4, <2>6, <2>7
<1>3. NDevices \in Good
  <2> HIDE DEF Good
  <2> QED BY <1>1, <1>2, Upwards, DevicesAssumption
<1> QED BY <1>3, DevicesAssumption DEF Devices

\* The parents a dialog is given hang on each other: their numbers decrease.
LEMMA ParentsFacts ==
    ASSUME Table(page) \subseteq Devices, NEW d \in Devices
    PROVE  /\ ParentsOf[d] \in Seq(Devices)
           /\ Downwards(ParentsOf[d])
           /\ \A i \in DOMAIN ParentsOf[d] : ParentsOf[d][i] < d
<1> DEFINE Fine(e) == /\ ParentsOf[e] \in Seq(Devices)
                      /\ Downwards(ParentsOf[e])
                      /\ \A i \in DOMAIN ParentsOf[e] : ParentsOf[e][i] < e
           Good == {n \in Nat : n <= NDevices => \A e \in 0..n : Fine(e)}
<1>1. 0 \in Good
  <2>1. 0 \in 0..NDevices
    BY DevicesAssumption
  <2>2. ParentsOf[0] = <<>>
    BY <2>1, ParentsStep
  <2>3. Fine(0)
    BY <2>2 DEF Downwards
  <2>4. \A e \in 0..0 : e = 0
    OBVIOUS
  <2> HIDE DEF Fine
  <2> QED BY <2>3, <2>4
<1>2. ASSUME NEW n \in Nat, n + 1 <= NDevices, n \in Good
      PROVE  n + 1 \in Good
  <2>1. n + 1 \in Devices /\ n + 1 \in 0..NDevices /\ n + 1 # 0
    BY <1>2, DevicesAssumption DEF Devices
  <2>2. Parent[n + 1] \in 0..n /\ Parent[n + 1] < n + 1
    BY <2>1, NumbersOfDevices DEF Devices
  <2>3. \A e \in 0..n : Fine(e)
    BY <1>2, DevicesAssumption
  <2>4. Fine(n + 1)
    <3>1. CASE Parent[n + 1] \notin Table(page)
      <4>1. ParentsOf[n + 1] = <<>>
        BY <2>1, <3>1, ParentsStep
      <4> QED BY <4>1 DEF Downwards
    <3>2. CASE Parent[n + 1] \in Table(page)
      <4> DEFINE p == Parent[n + 1]
                 s == ParentsOf[p]
                 t == ParentsOf[n + 1]
      <4>1. t = <<p>> \o s
        BY <2>1, <3>2, ParentsStep
      <4>2. p \in Devices /\ p \in Nat /\ p < n + 1 /\ Fine(p)
        BY <2>2, <2>3, <3>2
      <4>3. s \in Seq(Devices) /\ Downwards(s) /\ \A i \in DOMAIN s : s[i] < p
        BY <4>2
      <4> HIDE DEF p, s, t
      <4>4. t \in Seq(Devices)
        BY <4>1, <4>2, <4>3
      <4>5. /\ DOMAIN t = 1..Len(s) + 1 /\ Len(s) \in Nat /\ DOMAIN s = 1..Len(s)
            /\ t[1] = p /\ \A i \in DOMAIN t : i # 1 => i - 1 \in DOMAIN s /\ t[i] = s[i - 1]
        BY <4>1, <4>2, <4>3
      <4>6. \A i \in DOMAIN s : s[i] \in Nat
        <5>1. \A i \in DOMAIN s : s[i] \in Devices
          BY <4>3
        <5> QED BY <5>1, NumbersOfDevices
      <4>7. \A i \in DOMAIN t : t[i] < n + 1
        <5> SUFFICES ASSUME NEW i \in DOMAIN t PROVE t[i] < n + 1
          OBVIOUS
        <5>1. CASE i = 1
          BY <4>2, <4>5, <5>1
        <5>2. CASE i # 1
          <6>1. s[i - 1] < p /\ s[i - 1] \in Nat
            BY <4>3, <4>5, <4>6, <5>2
          <6> QED BY <4>2, <4>5, <5>2, <6>1
        <5> QED BY <5>1, <5>2
      <4>8. Downwards(t)
        <5> SUFFICES ASSUME NEW i \in DOMAIN t, NEW j \in DOMAIN t, i < j PROVE t[j] < t[i]
          BY DEF Downwards
        <5>1. j # 1 /\ i \in Nat /\ j \in Nat
          BY <4>5
        <5>2. CASE i = 1
          BY <4>3, <4>5, <5>1, <5>2
        <5>3. CASE i # 1
          <6>1. i - 1 < j - 1 /\ i - 1 \in DOMAIN s /\ j - 1 \in DOMAIN s
            BY <4>5, <5>1, <5>3
          <6> QED BY <4>3, <4>5, <5>1, <5>3, <6>1 DEF Downwards
        <5> QED BY <5>2, <5>3
      <4> QED BY <4>4, <4>7, <4>8 DEF t
    <3> QED BY <3>1, <3>2
  <2> HIDE DEF Fine
  <2>5. \A e \in 0..n + 1 : e \in 0..n \/ e = n + 1
    OBVIOUS
  <2> QED BY <2>3, <2>4, <2>5
<1>3. NDevices \in Good
  <2> HIDE DEF Good
  <2> QED BY <1>1, <1>2, Upwards, DevicesAssumption
<1>4. d \in 0..NDevices
  BY DevicesAssumption DEF Devices
<1> QED BY <1>3, <1>4, DevicesAssumption

LEMMA WaitingStep ==
    ASSUME NEW g, Len(g.parents) \in Nat
    PROVE  LET f == Waiting(g)
               last(n) == g.parents[Len(g.parents) + 1 - n]
           IN  /\ f[0] = <<>>
               /\ \A n \in 1..Len(g.parents) :
                     f[n] = IF IsPending(seen[last(n)].status) THEN Append(f[n - 1], last(n))
                            ELSE f[n - 1]
<1> DEFINE last(n) == g.parents[Len(g.parents) + 1 - n]
           Step(q, n) == IF IsPending(seen[last(n)].status) THEN Append(q, last(n)) ELSE q
           P(f, k) == f = [n \in 0..k |-> IF n = 0 THEN <<>> ELSE Step(f[n - 1], n)]
           Found == {k \in Nat : \E f : P(f, k)}
<1>1. 0 \in Found
  <2>1. P([n \in 0..0 |-> <<>>], 0)
    OBVIOUS
  <2> QED BY <2>1
<1>2. ASSUME NEW k \in Nat, k \in Found
      PROVE  k + 1 \in Found
  <2> HIDE DEF Step
  <2>1. PICK f : P(f, k)
    BY <1>2
  <2> DEFINE h == [n \in 0..k + 1 |-> IF n <= k THEN f[n] ELSE Step(f[k], k + 1)]
  <2>2. \A n \in 0..k + 1 : h[n] = IF n = 0 THEN <<>> ELSE Step(h[n - 1], n)
    BY <2>1
  <2>3. P(h, k + 1)
    BY <2>2
  <2> HIDE DEF P, h
  <2> QED BY <2>3
<1>3. Len(g.parents) \in Found
  <2> HIDE DEF P
  <2> QED BY <1>1, <1>2, Upwards
<1>4. P(Waiting(g), Len(g.parents))
  BY <1>3, Zenon DEF Waiting
<1> HIDE DEF Step
<1>5. /\ Waiting(g)[0] = <<>>
      /\ \A n \in 1..Len(g.parents) : Waiting(g)[n] = Step(Waiting(g)[n - 1], n)
  BY <1>4
<1> QED BY <1>5 DEF Step

\* The devices of a connect operation are numbered upwards: from the root to the device.
LEMMA ChainFacts ==
    ASSUME NEW g, g.parents \in Seq(Devices), g.device \in Devices, Downwards(g.parents),
           \A i \in DOMAIN g.parents : g.parents[i] < g.device
    PROVE  Chain(g) \in Seq(Devices) /\ Chain(g) # <<>> /\ Ascending(Chain(g))
<1> DEFINE f == Waiting(g)
           s == g.parents
           N == Len(s)
           Good == {n \in Nat : n <= N =>
                        /\ f[n] \in Seq(Devices) /\ Ascending(f[n])
                        /\ \A i \in DOMAIN f[n] :
                              /\ f[n][i] < g.device
                              /\ \A m \in 1..N - n : f[n][i] < s[m]}
<1>1. N \in Nat /\ DOMAIN s = 1..N /\ \A m \in 1..N : s[m] \in Devices /\ s[m] < g.device
  OBVIOUS
<1>2. /\ f[0] = <<>>
      /\ \A n \in 1..N : f[n] = IF IsPending(seen[s[N + 1 - n]].status)
                                THEN Append(f[n - 1], s[N + 1 - n]) ELSE f[n - 1]
  BY <1>1, WaitingStep
<1>3. Downwards(s)
  OBVIOUS
<1> HIDE DEF f, s, N
<1>4. 0 \in Good
  <2>1. f[0] \in Seq(Devices) /\ DOMAIN f[0] = {}
    BY <1>2
  <2> QED BY <2>1 DEF Ascending
<1>5. ASSUME NEW n \in Nat, n + 1 <= N, n \in Good
      PROVE  n + 1 \in Good
  <2> DEFINE d == s[N - n]
             a == f[n]
             b == f[n + 1]
  <2>1. n + 1 \in 1..N /\ (n + 1) - 1 = n /\ N + 1 - (n + 1) = N - n /\ N - n \in 1..N
    BY <1>1, <1>5
  <2>2. b = IF IsPending(seen[d].status) THEN Append(a, d) ELSE a
    BY <1>2, <2>1
  <2>3. /\ a \in Seq(Devices) /\ Ascending(a)
        /\ \A i \in DOMAIN a : /\ a[i] < g.device
                               /\ \A m \in 1..N - n : a[i] < s[m]
    BY <1>1, <1>5
  <2>4. d \in Devices /\ d < g.device /\ \A i \in DOMAIN a : a[i] < d
    BY <1>1, <2>1, <2>3
  <2>5. \A m \in 1..N - (n + 1) : m \in 1..N - n /\ d < s[m]
    <3> SUFFICES ASSUME NEW m \in 1..N - (n + 1) PROVE m \in 1..N - n /\ d < s[m]
      OBVIOUS
    <3>1. m \in DOMAIN s /\ N - n \in DOMAIN s /\ m < N - n /\ m \in 1..N - n
      BY <1>1, <1>5, <2>1
    <3> QED BY <1>3, <3>1 DEF Downwards
  <2> HIDE DEF a, b, d
  <2>6. CASE b = a
    BY <1>5, <2>3, <2>5, <2>6 DEF b
  <2>7. CASE b = Append(a, d)
    <3>1. /\ b \in Seq(Devices) /\ Len(a) \in Nat /\ DOMAIN a = 1..Len(a)
          /\ DOMAIN b = 1..Len(a) + 1
          /\ b[Len(a) + 1] = d /\ \A i \in DOMAIN a : b[i] = a[i]
      BY <2>3, <2>4, <2>7
    <3>2. \A i \in DOMAIN b : i \in DOMAIN a \/ i = Len(a) + 1
      BY <3>1
    <3>3. Ascending(b)
      <4> SUFFICES ASSUME NEW i \in DOMAIN b, NEW j \in DOMAIN b, i < j PROVE b[i] < b[j]
        BY DEF Ascending
      <4>1. i \in DOMAIN a
        BY <3>1
      <4> QED BY <2>3, <2>4, <3>1, <3>2, <4>1 DEF Ascending
    <3>4. \A i \in DOMAIN b : b[i] < g.device
      BY <2>3, <2>4, <3>1, <3>2
    <3>5. \A i \in DOMAIN b : \A m \in 1..N - (n + 1) : b[i] < s[m]
      BY <2>3, <2>5, <3>1, <3>2
    <3> QED BY <1>5, <3>1, <3>3, <3>4, <3>5 DEF b
  <2> QED BY <2>2, <2>6, <2>7
<1>6. N \in Good
  <2> HIDE DEF Good
  <2> QED BY <1>1, <1>4, <1>5, Upwards
<1> DEFINE w == f[N]
           c == Chain(g)
<1>7. w \in Seq(Devices) /\ Ascending(w) /\ \A i \in DOMAIN w : w[i] < g.device
  BY <1>1, <1>6
<1>8. c = Append(w, g.device)
  BY DEF Chain, f, N, s
<1> HIDE DEF w, c
<1>9. /\ c \in Seq(Devices) /\ Len(w) \in Nat /\ DOMAIN w = 1..Len(w)
      /\ DOMAIN c = 1..Len(w) + 1 /\ c # <<>>
      /\ c[Len(w) + 1] = g.device /\ \A i \in DOMAIN w : c[i] = w[i]
  BY <1>7, <1>8
<1>10. Ascending(c)
  <2> SUFFICES ASSUME NEW i \in DOMAIN c, NEW j \in DOMAIN c, i < j PROVE c[i] < c[j]
    BY DEF Ascending
  <2>1. i \in DOMAIN w /\ (j \in DOMAIN w \/ j = Len(w) + 1)
    BY <1>9
  <2> QED BY <1>7, <1>9, <2>1 DEF Ascending
<1> QED BY <1>9, <1>10 DEF c

------------------------------------------------------------------------------
(* What a step does to the messages *)

\* The first message is taken.
Popped ==
    /\ inbox # <<>> /\ Pop
    /\ UNCHANGED <<boltd, running>>

Kept ==
    /\ Len(inbox) \in Nat /\ DOMAIN inbox = 1..Len(inbox)
    /\ inbox' \in Seq(Messages) /\ Len(inbox') \in Nat /\ DOMAIN inbox' = 1..Len(inbox')
    /\ \A i \in DOMAIN inbox : i \in DOMAIN inbox' /\ inbox'[i] = inbox[i]

\* Nothing but answers is sent, or nothing at all.
Quiet ==
    /\ Kept
    /\ \A i \in DOMAIN inbox' : i \in DOMAIN inbox \/ inbox'[i].type = "reply"
    /\ UNCHANGED <<boltd, running, page>>

\* boltd tells of a change of device d, and may answer.
Told(d, props) ==
    /\ Kept
    /\ Len(inbox) + 1 \in DOMAIN inbox' /\ inbox'[Len(inbox) + 1] = Change(d, props)
    /\ \A i \in DOMAIN inbox' :
            i \in DOMAIN inbox \/ i = Len(inbox) + 1 \/ inbox'[i].type = "reply"
    /\ d \in Devices /\ props \in Props /\ boltd[d] # props /\ running
    /\ boltd' = [boltd EXCEPT ![d] = props]
    /\ UNCHANGED <<running, page>>

\* boltd stops or starts.
Restarted ==
    /\ Kept
    /\ Len(inbox') = Len(inbox) + 1
    /\ inbox'[Len(inbox) + 1].type = "owner" /\ inbox'[Len(inbox) + 1].up = running'
    /\ running' = ~running
    /\ UNCHANGED <<boltd, page>>

LEMMA OwnersQuiet ==
    ASSUME OwnersAlternate, Quiet
    PROVE  OwnersAlternate'
<1> USE DEF IsOwner, OfDevice, Up, Quiet, Kept
<1>1. \A i \in DOMAIN inbox' : IsOwner(i)' \/ OfDevice(i)' => i \in DOMAIN inbox
  OBVIOUS
<1>2. \A i \in DOMAIN inbox : (IsOwner(i)' <=> IsOwner(i)) /\ (OfDevice(i)' <=> OfDevice(i))
                              /\ inbox'[i] = inbox[i] /\ i \in DOMAIN inbox'
  OBVIOUS
<1>3. (Up' <=> Up) /\ running' = running
  OBVIOUS
<1> HIDE DEF IsOwner, OfDevice, Up, Quiet, Kept
<1>4. NoOwner' => (Up' <=> running')
  BY <1>2, <1>3 DEF OwnersAlternate, NoOwner
<1>5. \A i \in DOMAIN inbox' :
            IsOwner(i)' /\ (\A j \in DOMAIN inbox' : i < j => ~IsOwner(j)')
                => inbox'[i].up = running'
  BY <1>1, <1>2, <1>3 DEF OwnersAlternate
<1>6. \A i \in DOMAIN inbox' :
            (\A j \in DOMAIN inbox' : j < i => ~IsOwner(j)')
                => /\ IsOwner(i)' => inbox'[i].up = ~Up'
                   /\ OfDevice(i)' => Up'
  BY <1>1, <1>2, <1>3 DEF OwnersAlternate
<1>7. \A i, j \in DOMAIN inbox' :
            i < j /\ IsOwner(i)' /\ (\A k \in DOMAIN inbox' : i < k /\ k < j => ~IsOwner(k)')
                => /\ IsOwner(j)' => inbox'[j].up = ~inbox'[i].up
                   /\ OfDevice(j)' => inbox'[i].up
  BY <1>1, <1>2, <1>3 DEF OwnersAlternate
<1> QED BY <1>4, <1>5, <1>6, <1>7 DEF OwnersAlternate

LEMMA OwnersTold ==
    ASSUME OwnersAlternate, NEW d, NEW props, Told(d, props)
    PROVE  OwnersAlternate'
<1>0. PICK n \in Nat : n = Len(inbox) + 1
  BY DEF Told, Kept
<1>1. n \in DOMAIN inbox' /\ ~IsOwner(n)' /\ \A i \in DOMAIN inbox : i < n
  BY <1>0 DEF Told, Kept, Change, IsOwner
<1>2. \A i \in DOMAIN inbox' : IsOwner(i)' \/ OfDevice(i)' => i \in DOMAIN inbox \/ i = n
  BY <1>0 DEF Told, Kept, IsOwner, OfDevice
<1>3. \A i \in DOMAIN inbox : (IsOwner(i)' <=> IsOwner(i)) /\ (OfDevice(i)' <=> OfDevice(i))
                              /\ inbox'[i] = inbox[i] /\ i \in DOMAIN inbox'
  BY DEF Told, Kept, IsOwner, OfDevice
<1>4. (Up' <=> Up) /\ running' = running /\ running = TRUE
  BY DEF Told, Up
<1>5. NoOwner' => (Up' <=> running')
  BY <1>3, <1>4 DEF OwnersAlternate, NoOwner
<1>6. \A i \in DOMAIN inbox' :
            IsOwner(i)' /\ (\A j \in DOMAIN inbox' : i < j => ~IsOwner(j)')
                => inbox'[i].up = running'
  BY <1>1, <1>2, <1>3, <1>4 DEF OwnersAlternate
<1>7. \A i \in DOMAIN inbox' :
            (\A j \in DOMAIN inbox' : j < i => ~IsOwner(j)')
                => /\ IsOwner(i)' => inbox'[i].up = ~Up'
                   /\ OfDevice(i)' => Up'
  <2> SUFFICES ASSUME NEW i \in DOMAIN inbox', \A j \in DOMAIN inbox' : j < i => ~IsOwner(j)'
               PROVE  /\ IsOwner(i)' => inbox'[i].up = ~Up'
                      /\ OfDevice(i)' => Up'
    OBVIOUS
  <2>1. CASE i \in DOMAIN inbox
    BY <1>3, <1>4, <2>1 DEF OwnersAlternate
  <2>2. CASE i = n
    <3>1. NoOwner
      BY <1>1, <1>3, <2>2 DEF NoOwner
    <3> QED BY <1>1, <1>4, <2>2, <3>1 DEF OwnersAlternate
  <2> QED BY <1>2, <2>1, <2>2
<1>8. \A i, j \in DOMAIN inbox' :
            i < j /\ IsOwner(i)' /\ (\A k \in DOMAIN inbox' : i < k /\ k < j => ~IsOwner(k)')
                => /\ IsOwner(j)' => inbox'[j].up = ~inbox'[i].up
                   /\ OfDevice(j)' => inbox'[i].up
  <2> SUFFICES ASSUME NEW i \in DOMAIN inbox', NEW j \in DOMAIN inbox', i < j, IsOwner(i)',
                      \A k \in DOMAIN inbox' : i < k /\ k < j => ~IsOwner(k)'
               PROVE  /\ IsOwner(j)' => inbox'[j].up = ~inbox'[i].up
                      /\ OfDevice(j)' => inbox'[i].up
    OBVIOUS
  <2>1. i \in DOMAIN inbox /\ IsOwner(i) /\ inbox'[i] = inbox[i]
    BY <1>1, <1>2, <1>3
  <2>2. CASE j \in DOMAIN inbox
    BY <1>3, <1>4, <2>1, <2>2 DEF OwnersAlternate
  <2>3. CASE j = n
    <3>1. \A k \in DOMAIN inbox : i < k => ~IsOwner(k)
      BY <1>1, <1>3, <2>3
    <3>2. inbox[i].up = running
      BY <2>1, <3>1 DEF OwnersAlternate
    <3> QED BY <1>1, <1>4, <2>1, <2>3, <3>2
  <2> QED BY <1>2, <2>2, <2>3
<1> QED BY <1>5, <1>6, <1>7, <1>8 DEF OwnersAlternate

LEMMA OwnersRestarted ==
    ASSUME OwnersAlternate, Restarted, running \in BOOLEAN
    PROVE  OwnersAlternate'
<1>0. PICK n \in Nat : n = Len(inbox) + 1
  BY DEF Restarted, Kept
<1>1. n \in DOMAIN inbox' /\ IsOwner(n)' /\ ~OfDevice(n)' /\ \A i \in DOMAIN inbox : i < n
  BY <1>0 DEF Restarted, Kept, IsOwner, OfDevice
<1>2. \A i \in DOMAIN inbox' : i \in DOMAIN inbox \/ i = n
  BY <1>0 DEF Restarted, Kept
<1>3. \A i \in DOMAIN inbox : (IsOwner(i)' <=> IsOwner(i)) /\ (OfDevice(i)' <=> OfDevice(i))
                              /\ inbox'[i] = inbox[i] /\ i \in DOMAIN inbox'
  BY DEF Restarted, Kept, IsOwner, OfDevice
<1>4. (Up' <=> Up) /\ running' = ~running /\ inbox'[n].up = ~running
  BY <1>0 DEF Restarted, Up
<1>5. ~NoOwner'
  BY <1>1 DEF NoOwner
<1>6. \A i \in DOMAIN inbox' :
            IsOwner(i)' /\ (\A j \in DOMAIN inbox' : i < j => ~IsOwner(j)')
                => inbox'[i].up = running'
  BY <1>1, <1>2, <1>4
<1>7. \A i \in DOMAIN inbox' :
            (\A j \in DOMAIN inbox' : j < i => ~IsOwner(j)')
                => /\ IsOwner(i)' => inbox'[i].up = ~Up'
                   /\ OfDevice(i)' => Up'
  <2> SUFFICES ASSUME NEW i \in DOMAIN inbox', \A j \in DOMAIN inbox' : j < i => ~IsOwner(j)'
               PROVE  /\ IsOwner(i)' => inbox'[i].up = ~Up'
                      /\ OfDevice(i)' => Up'
    OBVIOUS
  <2>1. CASE i \in DOMAIN inbox
    BY <1>3, <1>4, <2>1 DEF OwnersAlternate
  <2>2. CASE i = n
    <3>1. NoOwner
      BY <1>1, <1>3, <2>2 DEF NoOwner
    <3>2. Up <=> running
      BY <3>1 DEF OwnersAlternate
    <3>3. Up \in BOOLEAN
      BY DEF Up
    <3> QED BY <1>1, <1>4, <2>2, <3>2, <3>3
  <2> QED BY <1>2, <2>1, <2>2
<1>8. \A i, j \in DOMAIN inbox' :
            i < j /\ IsOwner(i)' /\ (\A k \in DOMAIN inbox' : i < k /\ k < j => ~IsOwner(k)')
                => /\ IsOwner(j)' => inbox'[j].up = ~inbox'[i].up
                   /\ OfDevice(j)' => inbox'[i].up
  <2> SUFFICES ASSUME NEW i \in DOMAIN inbox', NEW j \in DOMAIN inbox', i < j, IsOwner(i)',
                      \A k \in DOMAIN inbox' : i < k /\ k < j => ~IsOwner(k)'
               PROVE  /\ IsOwner(j)' => inbox'[j].up = ~inbox'[i].up
                      /\ OfDevice(j)' => inbox'[i].up
    OBVIOUS
  <2>1. i \in DOMAIN inbox /\ IsOwner(i) /\ inbox'[i] = inbox[i]
    <3>1. i # n
      <4>1. \A k \in DOMAIN inbox' : ~ (n < k)
        BY <1>0 DEF Restarted, Kept
      <4> QED BY <4>1
    <3> QED BY <1>2, <1>3, <3>1
  <2>2. CASE j \in DOMAIN inbox
    BY <1>3, <1>4, <2>1, <2>2 DEF OwnersAlternate
  <2>3. CASE j = n
    <3>1. \A k \in DOMAIN inbox : i < k => ~IsOwner(k)
      BY <1>1, <1>3, <2>3
    <3>2. inbox[i].up = running
      BY <2>1, <3>1 DEF OwnersAlternate
    <3> QED BY <1>1, <1>4, <2>1, <2>3, <3>2
  <2> QED BY <1>2, <2>2, <2>3
<1> QED BY <1>5, <1>6, <1>7, <1>8 DEF OwnersAlternate

LEMMA PoppedFacts ==
    ASSUME inbox \in Seq(Messages), Popped
    PROVE  /\ inbox' \in Seq(Messages)
           /\ 1 \in DOMAIN inbox /\ Head(inbox) = inbox[1]
           /\ DOMAIN inbox \subseteq Nat \ {0} /\ DOMAIN inbox' \subseteq Nat \ {0}
           /\ \A i \in DOMAIN inbox' : i + 1 \in DOMAIN inbox /\ inbox'[i] = inbox[i + 1]
                  /\ (IsOwner(i)' <=> IsOwner(i + 1)) /\ (OfDevice(i)' <=> OfDevice(i + 1))
           /\ \A i \in DOMAIN inbox : i # 1 => i - 1 \in DOMAIN inbox' /\ (i - 1) + 1 = i
  BY PopFacts DEF Popped, IsOwner, OfDevice

LEMMA OwnersPopped ==
    ASSUME OwnersAlternate, inbox \in Seq(Messages), Popped,
           IF IsOwner(1) THEN Up' = inbox[1].up ELSE Up' = Up
    PROVE  OwnersAlternate'
<1>1. /\ 1 \in DOMAIN inbox
      /\ DOMAIN inbox \subseteq Nat \ {0} /\ DOMAIN inbox' \subseteq Nat \ {0}
      /\ \A i \in DOMAIN inbox' : i + 1 \in DOMAIN inbox /\ inbox'[i] = inbox[i + 1]
             /\ (IsOwner(i)' <=> IsOwner(i + 1)) /\ (OfDevice(i)' <=> OfDevice(i + 1))
      /\ \A i \in DOMAIN inbox : i # 1 => i - 1 \in DOMAIN inbox' /\ (i - 1) + 1 = i
  BY PoppedFacts
<1>2. running' = running
  BY DEF Popped
<1>3. \A i, j \in Nat : i < j <=> i + 1 < j + 1
  OBVIOUS
<1>4. NoOwner' => \A j \in DOMAIN inbox : j # 1 => ~IsOwner(j)
  <2> SUFFICES ASSUME NoOwner', NEW j \in DOMAIN inbox, j # 1 PROVE ~IsOwner(j)
    OBVIOUS
  <2>1. PICK i \in DOMAIN inbox' : i + 1 = j
    BY <1>1
  <2> QED BY <1>1, <2>1 DEF NoOwner
<1>5. NoOwner' => (Up' <=> running')
  <2> SUFFICES ASSUME NoOwner' PROVE Up' <=> running'
    OBVIOUS
  <2>1. CASE IsOwner(1)
    <3>1. \A j \in DOMAIN inbox : 1 < j => ~IsOwner(j)
      BY <1>1, <1>4
    <3>2. inbox[1].up = running
      BY <1>1, <2>1, <3>1 DEF OwnersAlternate
    <3> QED BY <1>2, <2>1, <3>2
  <2>2. CASE ~IsOwner(1)
    <3>1. NoOwner
      BY <1>4, <2>2 DEF NoOwner
    <3> QED BY <1>2, <2>2, <3>1 DEF OwnersAlternate
  <2> QED BY <2>1, <2>2
<1>6. \A i \in DOMAIN inbox' :
            IsOwner(i)' /\ (\A j \in DOMAIN inbox' : i < j => ~IsOwner(j)')
                => inbox'[i].up = running'
  <2> SUFFICES ASSUME NEW i \in DOMAIN inbox', IsOwner(i)',
                      \A j \in DOMAIN inbox' : i < j => ~IsOwner(j)'
               PROVE  inbox'[i].up = running'
    OBVIOUS
  <2>1. \A j \in DOMAIN inbox : i + 1 < j => ~IsOwner(j)
    <3> SUFFICES ASSUME NEW j \in DOMAIN inbox, i + 1 < j PROVE ~IsOwner(j)
      OBVIOUS
    <3>1. PICK k \in DOMAIN inbox' : k + 1 = j
      BY <1>1
    <3> QED BY <1>1, <3>1
  <2> QED BY <1>1, <1>2, <2>1 DEF OwnersAlternate
<1>7. \A i \in DOMAIN inbox' :
            (\A j \in DOMAIN inbox' : j < i => ~IsOwner(j)')
                => /\ IsOwner(i)' => inbox'[i].up = ~Up'
                   /\ OfDevice(i)' => Up'
  <2> SUFFICES ASSUME NEW i \in DOMAIN inbox', \A j \in DOMAIN inbox' : j < i => ~IsOwner(j)'
               PROVE  /\ IsOwner(i)' => inbox'[i].up = ~Up'
                      /\ OfDevice(i)' => Up'
    OBVIOUS
  <2>1. \A j \in DOMAIN inbox : j # 1 /\ j < i + 1 => ~IsOwner(j)
    <3> SUFFICES ASSUME NEW j \in DOMAIN inbox, j # 1, j < i + 1 PROVE ~IsOwner(j)
      OBVIOUS
    <3>1. PICK k \in DOMAIN inbox' : k + 1 = j
      BY <1>1
    <3> QED BY <1>1, <3>1
  <2>2. i + 1 \in DOMAIN inbox /\ 1 < i + 1
    BY <1>1
  <2>3. CASE IsOwner(1)
    <3>1. \A k \in DOMAIN inbox : 1 < k /\ k < i + 1 => ~IsOwner(k)
      BY <1>1, <2>1
    <3>2. /\ IsOwner(i + 1) => inbox[i + 1].up = ~inbox[1].up
          /\ OfDevice(i + 1) => inbox[1].up
      BY <1>1, <2>2, <2>3, <3>1 DEF OwnersAlternate
    <3> QED BY <1>1, <2>3, <3>2
  <2>4. CASE ~IsOwner(1)
    <3>1. \A k \in DOMAIN inbox : k < i + 1 => ~IsOwner(k)
      BY <2>1, <2>4
    <3>2. /\ IsOwner(i + 1) => inbox[i + 1].up = ~Up
          /\ OfDevice(i + 1) => Up
      BY <2>2, <3>1 DEF OwnersAlternate
    <3> QED BY <1>1, <2>4, <3>2
  <2> QED BY <2>3, <2>4
<1>8. \A i, j \in DOMAIN inbox' :
            i < j /\ IsOwner(i)' /\ (\A k \in DOMAIN inbox' : i < k /\ k < j => ~IsOwner(k)')
                => /\ IsOwner(j)' => inbox'[j].up = ~inbox'[i].up
                   /\ OfDevice(j)' => inbox'[i].up
  <2> SUFFICES ASSUME NEW i \in DOMAIN inbox', NEW j \in DOMAIN inbox', i < j, IsOwner(i)',
                      \A k \in DOMAIN inbox' : i < k /\ k < j => ~IsOwner(k)'
               PROVE  /\ IsOwner(j)' => inbox'[j].up = ~inbox'[i].up
                      /\ OfDevice(j)' => inbox'[i].up
    OBVIOUS
  <2>1. \A k \in DOMAIN inbox : i + 1 < k /\ k < j + 1 => ~IsOwner(k)
    <3> SUFFICES ASSUME NEW k \in DOMAIN inbox, i + 1 < k, k < j + 1 PROVE ~IsOwner(k)
      OBVIOUS
    <3>0. k # 1
      BY <1>1
    <3>1. PICK m \in DOMAIN inbox' : m + 1 = k
      BY <1>1, <3>0
    <3>2. i < m /\ m < j
      BY <1>1, <3>1, SMTT(30)
    <3> QED BY <1>1, <3>1, <3>2
  <2>2. i + 1 < j + 1 /\ i + 1 \in DOMAIN inbox /\ j + 1 \in DOMAIN inbox /\ IsOwner(i + 1)
    BY <1>1
  <2>3. /\ IsOwner(j + 1) => inbox[j + 1].up = ~inbox[i + 1].up
        /\ OfDevice(j + 1) => inbox[i + 1].up
    BY <2>1, <2>2 DEF OwnersAlternate
  <2> QED BY <1>1, <2>3
<1> QED BY <1>5, <1>6, <1>7, <1>8 DEF OwnersAlternate

LEMMA MessagesKept ==
    ASSUME MessagesTell, Kept, boltd' = boltd,
           \A i \in DOMAIN inbox' : i \in DOMAIN inbox \/ ~OfDevice(i)'
    PROVE  MessagesTell'
<1> SUFFICES ASSUME NEW i \in DOMAIN inbox', NEW d \in Devices
             PROVE  /\ (Says(i, "added", d) \/ Says(i, "props", d))' /\ LastWord(i, {"removed"}, d)'
                          => boltd'[d] # Gone
                    /\ Says(i, "removed", d)' /\ LastWord(i, {"added"}, d)' => boltd'[d] = Gone
                    /\ Says(i, "props", d)' /\ LastWord(i, {"props", "removed"}, d)'
                          => inbox'[i].props = boltd'[d]
  BY DEF MessagesTell
<1>1. CASE i \notin DOMAIN inbox
  BY <1>1 DEF OfDevice, Says
<1>2. CASE i \in DOMAIN inbox
  <2>1. \A types : LastWord(i, types, d)' => LastWord(i, types, d)
    BY DEF LastWord, Says, Kept
  <2>2. inbox'[i] = inbox[i] /\ \A type : Says(i, type, d)' <=> Says(i, type, d)
    BY <1>2 DEF Says, Kept
  <2> QED BY <1>2, <2>1, <2>2 DEF MessagesTell
<1> QED BY <1>1, <1>2

LEMMA MessagesTold ==
    ASSUME MessagesTell, boltd \in [Devices -> Props], NEW d, NEW props, Told(d, props)
    PROVE  MessagesTell'
<1> SUFFICES ASSUME NEW i \in DOMAIN inbox', NEW e \in Devices
             PROVE  /\ (Says(i, "added", e) \/ Says(i, "props", e))' /\ LastWord(i, {"removed"}, e)'
                          => boltd'[e] # Gone
                    /\ Says(i, "removed", e)' /\ LastWord(i, {"added"}, e)' => boltd'[e] = Gone
                    /\ Says(i, "props", e)' /\ LastWord(i, {"props", "removed"}, e)'
                          => inbox'[i].props = boltd'[e]
  BY DEF MessagesTell
<1>0. PICK n \in Nat : n = Len(inbox) + 1
  BY DEF Told, Kept
<1>1. /\ n \in DOMAIN inbox' /\ inbox'[n] = Change(d, props) /\ \A k \in DOMAIN inbox : k < n
      /\ \A k \in DOMAIN inbox' : k \in DOMAIN inbox \/ k = n \/ inbox'[k].type = "reply"
      /\ \A k \in DOMAIN inbox : k \in DOMAIN inbox' /\ inbox'[k] = inbox[k]
  BY <1>0 DEF Told, Kept
<1>2. boltd'[d] = props /\ boltd[d] # props /\ \A f \in Devices : f # d => boltd'[f] = boltd[f]
  BY DEF Told
<1>3. CASE i \in DOMAIN inbox
  <2>1. \A types : LastWord(i, types, e)' => LastWord(i, types, e)
    BY <1>1 DEF LastWord, Says
  <2>2. inbox'[i] = inbox[i] /\ \A type : Says(i, type, e)' <=> Says(i, type, e)
    BY <1>1, <1>3 DEF Says
  <2>3. CASE e # d
    BY <1>2, <1>3, <2>1, <2>2, <2>3 DEF MessagesTell
  <2>4. CASE e = d
    <3>1. i < n /\ n \in DOMAIN inbox'
      BY <1>1, <1>3
    <3>2. /\ boltd[d] = Gone => Says(n, "added", e)'
          /\ boltd[d] # Gone /\ props = Gone => Says(n, "removed", e)'
          /\ boltd[d] # Gone /\ props # Gone => Says(n, "props", e)'
      BY <1>1, <2>4 DEF Change, Says
    <3>3. /\ (Says(i, "added", e) \/ Says(i, "props", e)) /\ LastWord(i, {"removed"}, e)
                => boltd[e] # Gone
          /\ Says(i, "removed", e) /\ LastWord(i, {"added"}, e) => boltd[e] = Gone
      BY <1>3 DEF MessagesTell
    <3>4. /\ LastWord(i, {"removed"}, e)' => ~Says(n, "removed", e)'
          /\ LastWord(i, {"added"}, e)' => ~Says(n, "added", e)'
          /\ LastWord(i, {"props", "removed"}, e)'
                => ~Says(n, "props", e)' /\ ~Says(n, "removed", e)' /\ LastWord(i, {"removed"}, e)'
      BY <3>1 DEF LastWord
    <3> QED BY <1>2, <2>1, <2>2, <2>4, <3>2, <3>3, <3>4
  <2> QED BY <2>3, <2>4
<1>4. CASE i = n
  BY <1>1, <1>2, <1>4 DEF Change, Says
<1>5. CASE inbox'[i].type = "reply"
  BY <1>5 DEF Says
<1> QED BY <1>1, <1>3, <1>4, <1>5

LEMMA PoppedSays ==
    ASSUME inbox \in Seq(Messages), Popped, NEW d
    PROVE  /\ \A i \in DOMAIN inbox' : \A type : Says(i, type, d)' <=> Says(i + 1, type, d)
           /\ \A i \in DOMAIN inbox' : \A types : LastWord(i, types, d)' => LastWord(i + 1, types, d)
           /\ \A types : Unsaid(types, d)' => LastWord(1, types, d)
           /\ \A types : Unsaid(types, d)' /\ (\A type \in types : ~Says(1, type, d))
                  => Unsaid(types, d)
<1>1. /\ 1 \in DOMAIN inbox
      /\ DOMAIN inbox \subseteq Nat \ {0} /\ DOMAIN inbox' \subseteq Nat \ {0}
      /\ \A i \in DOMAIN inbox' : i + 1 \in DOMAIN inbox /\ inbox'[i] = inbox[i + 1]
      /\ \A i \in DOMAIN inbox : i # 1 => i - 1 \in DOMAIN inbox' /\ (i - 1) + 1 = i
  BY PoppedFacts
<1>2. \A i \in DOMAIN inbox' : \A type : Says(i, type, d)' <=> Says(i + 1, type, d)
  BY <1>1 DEF Says
<1>3. ASSUME NEW j \in DOMAIN inbox, NEW types, NEW t \in types, j # 1,
             \A k \in DOMAIN inbox' : k + 1 = j => ~Says(k, t, d)'
      PROVE  ~Says(j, t, d)
  <2>1. PICK k \in DOMAIN inbox' : k + 1 = j
    BY <1>1, <1>3
  <2> QED BY <1>2, <1>3, <2>1
<1>4. \A i \in DOMAIN inbox' : \A types : LastWord(i, types, d)' => LastWord(i + 1, types, d)
  <2> SUFFICES ASSUME NEW i \in DOMAIN inbox', NEW types, LastWord(i, types, d)',
                      NEW j \in DOMAIN inbox, NEW t \in types, i + 1 < j
               PROVE  ~Says(j, t, d)
    BY DEF LastWord
  <2>1. j # 1 /\ \A k \in DOMAIN inbox' : k + 1 = j => i < k
    BY <1>1
  <2> QED BY <1>3, <2>1 DEF LastWord
<1>5. \A types : Unsaid(types, d)' => LastWord(1, types, d)
  <2> SUFFICES ASSUME NEW types, Unsaid(types, d)',
                      NEW j \in DOMAIN inbox, NEW t \in types, 1 < j
               PROVE  ~Says(j, t, d)
    BY DEF LastWord
  <2>1. j # 1
    BY <1>1
  <2> QED BY <1>3, <2>1 DEF Unsaid
<1>6. \A types : Unsaid(types, d)' /\ (\A type \in types : ~Says(1, type, d))
            => Unsaid(types, d)
  <2> SUFFICES ASSUME NEW types, Unsaid(types, d)', \A type \in types : ~Says(1, type, d),
                      NEW j \in DOMAIN inbox, NEW t \in types
               PROVE  ~Says(j, t, d)
    BY DEF Unsaid
  <2>1. CASE j = 1
    BY <2>1
  <2>2. CASE j # 1
    BY <1>3, <2>2 DEF Unsaid
  <2> QED BY <2>1, <2>2
<1> QED BY <1>2, <1>4, <1>5, <1>6

LEMMA MessagesPopped ==
    ASSUME MessagesTell, inbox \in Seq(Messages), Popped
    PROVE  MessagesTell'
<1> SUFFICES ASSUME NEW i \in DOMAIN inbox', NEW d \in Devices
             PROVE  /\ (Says(i, "added", d) \/ Says(i, "props", d))' /\ LastWord(i, {"removed"}, d)'
                          => boltd'[d] # Gone
                    /\ Says(i, "removed", d)' /\ LastWord(i, {"added"}, d)' => boltd'[d] = Gone
                    /\ Says(i, "props", d)' /\ LastWord(i, {"props", "removed"}, d)'
                          => inbox'[i].props = boltd'[d]
  BY DEF MessagesTell
<1>1. i + 1 \in DOMAIN inbox /\ inbox'[i] = inbox[i + 1] /\ boltd' = boltd
  BY PoppedFacts DEF Popped
<1>2. \A type : Says(i, type, d)' <=> Says(i + 1, type, d)
  BY PoppedSays
<1>3. \A types : LastWord(i, types, d)' => LastWord(i + 1, types, d)
  BY PoppedSays
<1> QED BY <1>1, <1>2, <1>3 DEF MessagesTell

------------------------------------------------------------------------------
(* What a step does to the lists *)

LEMMA ListsKept ==
    ASSUME ListsAgree, Kept, boltd' = boltd, page' = page,
           \A i \in DOMAIN inbox' : i \in DOMAIN inbox \/ ~OfDevice(i)'
    PROVE  ListsAgree'
<1>1. NoOwner' => NoOwner
  BY DEF NoOwner, IsOwner, Kept
<1>2. \A d, types : Unsaid(types, d)' => Unsaid(types, d)
  BY DEF Unsaid, Says, Kept
<1>3. (Up' <=> Up) /\ Table(page)' = Table(page)
  BY DEF Up, Table
<1>4. ASSUME NEW d \in Devices, TableAgrees(d), ListAgrees(d)
      PROVE  TableAgrees(d)' /\ ListAgrees(d)'
  BY <1>2, <1>3, <1>4 DEF TableAgrees, ListAgrees
<1> QED BY <1>1, <1>3, <1>4 DEF ListsAgree

LEMMA ListsTold ==
    ASSUME ListsAgree, MessagesTell, boltd \in [Devices -> Props],
           NEW d, NEW props, Told(d, props)
    PROVE  ListsAgree'
<1>0. PICK n \in Nat : n = Len(inbox) + 1
  BY DEF Told, Kept
<1>1. /\ n \in DOMAIN inbox' /\ inbox'[n] = Change(d, props)
      /\ \A i \in DOMAIN inbox : i \in DOMAIN inbox' /\ inbox'[i] = inbox[i]
  BY <1>0 DEF Told, Kept
<1>2. boltd'[d] = props /\ boltd[d] # props /\ \A f \in Devices : f # d => boltd'[f] = boltd[f]
  BY DEF Told
<1>3. NoOwner' => NoOwner
  BY <1>1 DEF NoOwner, IsOwner
<1>4. \A e, types : Unsaid(types, e)' => Unsaid(types, e)
  BY <1>1 DEF Unsaid, Says
<1>5. (Up' <=> Up) /\ Table(page)' = Table(page) /\ page' = page
  BY DEF Up, Table, Told
<1>6. ASSUME NEW e \in Devices, TableAgrees(e), ListAgrees(e)
      PROVE  TableAgrees(e)' /\ ListAgrees(e)'
  <2>1. CASE e # d
    BY <1>2, <1>4, <1>5, <1>6, <2>1 DEF TableAgrees, ListAgrees
  <2>2. CASE e = d
    <3>1. /\ boltd[d] = Gone => Says(n, "added", e)'
          /\ boltd[d] # Gone /\ props = Gone => Says(n, "removed", e)'
          /\ boltd[d] # Gone /\ props # Gone => Says(n, "props", e)'
      BY <1>1, <2>2 DEF Change, Says
    <3>2. ASSUME Unsaid({"added", "removed"}, e)'
          PROVE  e \in Table(page)' <=> boltd'[e] # Gone
      <4>1. ~Says(n, "added", e)' /\ ~Says(n, "removed", e)'
        BY <1>1, <3>2 DEF Unsaid
      <4>2. boltd[e] # Gone /\ props # Gone
        BY <2>2, <3>1, <4>1
      <4> QED BY <1>2, <1>4, <1>5, <1>6, <2>2, <3>2, <4>2 DEF TableAgrees
    <3>3. ASSUME Unsaid({"removed", "props"}, e)', e \in Table(page)
          PROVE  FALSE
      <4>1. ~Says(n, "props", e)' /\ ~Says(n, "removed", e)'
        BY <1>1, <3>3 DEF Unsaid
      <4>2. boltd[e] = Gone
        BY <2>2, <3>1, <4>1
      <4>3. ~Unsaid({"added", "removed"}, e)
        BY <1>6, <3>3, <4>2 DEF TableAgrees
      <4>4. Unsaid({"removed", "props"}, e)
        BY <1>4, <3>3
      <4>5. PICK i \in DOMAIN inbox : Says(i, "added", e) /\ LastWord(i, {"removed"}, e)
        BY <4>3, <4>4 DEF Unsaid, LastWord
      <4> QED BY <4>2, <4>5 DEF MessagesTell
    <3> QED BY <1>5, <3>2, <3>3 DEF TableAgrees, ListAgrees
  <2> QED BY <2>1, <2>2
<1> QED BY <1>3, <1>5, <1>6 DEF ListsAgree

LEMMA OwnerStays ==
    ASSUME inbox \in Seq(Messages), Popped, ~IsOwner(1), NoOwner'
    PROVE  NoOwner
<1> SUFFICES ASSUME NEW j \in DOMAIN inbox, IsOwner(j) PROVE FALSE
  BY DEF NoOwner
<1>1. j # 1
  OBVIOUS
<1>2. PICK i \in DOMAIN inbox' : i + 1 = j
  BY <1>1, PoppedFacts
<1> QED BY <1>2, PoppedFacts DEF NoOwner

\* A message about device d, or about none, does not disturb the others.
LEMMA OthersAgree ==
    ASSUME ListsAgree, inbox \in Seq(Messages), Popped, ~IsOwner(1), Up, NoOwner',
           NEW e \in Devices, \A type \in {"added", "removed", "props"} : ~Says(1, type, e),
           \A l \in Lists : e \in page'.lists[l] <=> e \in page.lists[l]
    PROVE  TableAgrees(e)' /\ ListAgrees(e)'
<1>1. NoOwner
  BY OwnerStays
<1>2. TableAgrees(e) /\ ListAgrees(e)
  BY <1>1 DEF ListsAgree
<1>3. \A types : Unsaid(types, e)' /\ types \subseteq {"added", "removed", "props"}
            => Unsaid(types, e)
  BY PoppedSays
<1>4. boltd' = boltd /\ (e \in Table(page)' <=> e \in Table(page))
      /\ (e \in page'.lists["pending"] <=> e \in page.lists["pending"])
  BY DEF Popped, Table, Lists
<1>5. TableAgrees(e)'
  BY <1>2, <1>3, <1>4 DEF TableAgrees
<1>6. ListAgrees(e)'
  BY <1>2, <1>3, <1>4 DEF ListAgrees
<1> QED BY <1>5, <1>6

LEMMA StackKept ==
    ASSUME StackFits, Kept, page' = page
    PROVE  StackFits'
<1>1. NoOwner' => NoOwner
  BY DEF NoOwner, IsOwner, Kept
<1>2. \A d, types : Unsaid(types, d)' => Unsaid(types, d)
  BY DEF Unsaid, Says, Kept
<1>3. Table(page)' = Table(page)
  BY DEF Table
<1> QED BY <1>1, <1>2, <1>3 DEF StackFits

\* The removals that wait are of other devices than the one a message is about.
LEMMA RemovalsWait ==
    ASSUME inbox \in Seq(Messages), Popped, NEW d, ~Says(1, "removed", d),
           ~Unsaid({"removed"}, d)
    PROVE  ~Unsaid({"removed"}, d)'
BY PoppedSays

LEMMA StackPopped ==
    ASSUME StackFits, inbox \in Seq(Messages), Popped, ~IsOwner(1),
           page'.stack = page.stack, Table(page') = Table(page),
           \A d \in Table(page) : ~Says(1, "removed", d)
    PROVE  StackFits'
<1> SUFFICES ASSUME page'.stack = "no-devices", NoOwner', NEW d \in Table(page')
             PROVE  ~Unsaid({"removed"}, d)'
  BY DEF StackFits, Table
<1>1. NoOwner
  BY OwnerStays
<1>2. ~Unsaid({"removed"}, d)
  BY <1>1 DEF StackFits
<1> QED BY <1>2, RemovalsWait

PageInv ==
    /\ boltd \in [Devices -> Props]
    /\ running \in BOOLEAN
    /\ inbox \in Seq(Messages)
    /\ Fits(page)
    /\ OwnersAlternate
    /\ MessagesTell
    /\ ListsAgree
    /\ StackFits

\* The page lists devices only, and handles messages about them only while it knows boltd up.
LEMMA FirstFacts ==
    ASSUME PageInv, Popped
    PROVE  /\ 1 \in DOMAIN inbox /\ Head(inbox) = inbox[1] /\ inbox[1] \in Messages
           /\ Table(page) \subseteq Devices
           /\ IsOwner(1) => inbox[1].up = ~Up
           /\ OfDevice(1) => Up
<1>1. 1 \in DOMAIN inbox /\ Head(inbox) = inbox[1] /\ inbox[1] \in Messages
      /\ \A i \in DOMAIN inbox : ~ (i < 1)
  BY PopFacts DEF Popped, PageInv
<1>2. Table(page) \subseteq Devices
  BY PageFacts DEF PageInv, Fits, Table, Lists
<1> QED BY <1>1, <1>2 DEF PageInv, OwnersAlternate

LEMMA AddedKeeps ==
    ASSUME PageInv, HandleAdded
    PROVE  Fits(page)' /\ OwnersAlternate' /\ MessagesTell' /\ ListsAgree' /\ StackFits'
<1>1. Popped /\ inbox[1].type = "added"
  BY FirstFacts DEF HandleAdded, Received, Popped
<1>2. ~IsOwner(1) /\ OfDevice(1) /\ inbox[1].device \in Devices /\ inbox[1] \in Messages
  BY <1>1, FirstFacts, MessageTypes DEF IsOwner, OfDevice
<1>3. PICK d \in Devices : d = inbox[1].device
  BY <1>2
<1>4. Up /\ 1 \in DOMAIN inbox /\ Head(inbox) = inbox[1]
  BY <1>1, <1>2, FirstFacts
<1> DEFINE p == UpdateVisibility(page)
           status == (IF running THEN boltd[d] ELSE Gone).status
<1>5. page' = IF d \in Table(page) THEN p ELSE AddDevice(p, d, status)
  BY <1>3, <1>4 DEF HandleAdded
<1>13. /\ Fits(p) /\ p.lists = page.lists /\ p.container = page.container
       /\ Table(p) = Table(page) /\ p.stack = page.stack
  BY VisibilityFacts DEF PageInv
<1>14. running => status = boltd[d].status
  OBVIOUS
<1> HIDE DEF p, status
<1>6. /\ Fits(page') /\ SameBut(page, page', d) /\ page'.container = page.container
      /\ d \in Table(page) => /\ page'.lists = page.lists /\ page'.stack = page.stack
                              /\ Table(page') = Table(page)
      /\ d \in Table(page')
      /\ d \notin Table(page) =>
            /\ d \in page'.lists["pending"] <=> IsPending(status)
            /\ page'.stack = "have-devices"
  <2>1. CASE d \in Table(page)
    BY <1>5, <1>13, <2>1 DEF SameBut
  <2>2. CASE d \notin Table(page)
    <3>1. d \in Devices \ Table(p) /\ page' = AddDevice(p, d, status)
      BY <1>5, <1>13, <2>2
    <3>2. /\ Fits(page') /\ SameBut(p, page', d) /\ page'.container = p.container
          /\ Table(page') = Table(p) \cup {d} /\ page'.stack = "have-devices"
          /\ d \in page'.lists["pending"] <=> IsPending(status)
      BY <1>13, <3>1, AddDeviceFacts
    <3> QED BY <1>13, <2>2, <3>2 DEF SameBut
  <2> QED BY <2>1, <2>2
<1>7. Up' = Up
  BY <1>6 DEF Up
<1>8. OwnersAlternate'
  BY <1>1, <1>2, <1>7, OwnersPopped DEF PageInv
<1>9. MessagesTell'
  BY <1>1, MessagesPopped DEF PageInv
<1>10. ASSUME NoOwner', NEW e \in Devices
       PROVE  TableAgrees(e)' /\ ListAgrees(e)'
  <2>1. CASE e # d
    <3>1. \A type \in {"added", "removed", "props"} : ~Says(1, type, e)
      BY <1>3, <2>1 DEF Says
    <3>2. \A l \in Lists : e \in page'.lists[l] <=> e \in page.lists[l]
      BY <1>6, <2>1 DEF SameBut
    <3> QED BY <1>1, <1>2, <1>4, <1>10, <3>1, <3>2, OthersAgree DEF PageInv
  <2>2. CASE e = d
    <3>1. running = running' /\ boltd' = boltd
      BY <1>1 DEF Popped
    <3>2. running
      BY <1>4, <1>7, <1>8, <1>10, <3>1 DEF OwnersAlternate
    <3>3. Says(1, "added", d) /\ ~Says(1, "removed", d) /\ ~Says(1, "props", d)
      BY <1>1, <1>3 DEF Says
    <3>4. ASSUME Unsaid({"added", "removed"}, d)'
          PROVE  d \in Table(page)' <=> boltd'[d] # Gone
      <4>1. LastWord(1, {"added", "removed"}, d)
        BY <1>1, <3>4, PoppedSays DEF PageInv
      <4>2. LastWord(1, {"removed"}, d)
        BY <4>1 DEF LastWord
      <4>3. boltd[d] # Gone
        BY <1>4, <3>3, <4>2 DEF PageInv, MessagesTell
      <4>4. d \in Table(page')
        BY <1>6
      <4> QED BY <3>1, <4>3, <4>4 DEF Table
    <3>5. ASSUME Unsaid({"removed", "props"}, d)', d \in Table(page)',
                 boltd'[d].status # "active"
          PROVE  d \in page'.lists["pending"] <=> IsPending(boltd'[d].status)
      <4>1. CASE d \in Table(page)
        <5>1. NoOwner
          BY <1>1, <1>2, <1>10, OwnerStays DEF PageInv
        <5>2. \A type \in {"removed", "props"} : ~Says(1, type, d)
          BY <3>3
        <5>3. Unsaid({"removed", "props"}, d)
          BY <1>1, <3>5, <5>2, PoppedSays DEF PageInv
        <5>4. ListAgrees(d) /\ page'.lists = page.lists
          BY <1>4, <1>6, <4>1, <5>1 DEF PageInv, ListsAgree
        <5> QED BY <3>1, <3>5, <4>1, <5>3, <5>4 DEF ListAgrees
      <4>2. CASE d \notin Table(page)
        BY <1>6, <1>14, <3>1, <3>2, <4>2
      <4> QED BY <4>1, <4>2
    <3> QED BY <2>2, <3>4, <3>5 DEF TableAgrees, ListAgrees
  <2> QED BY <2>1, <2>2
<1>11. ListsAgree'
  BY <1>4, <1>7, <1>10 DEF ListsAgree
<1>12. Fits(page)'
  BY <1>6 DEF Fits
<1>15. StackFits'
  <2>1. CASE d \in Table(page)
    <3>1. \A e \in Table(page) : ~Says(1, "removed", e)
      BY <1>1 DEF Says
    <3> QED BY <1>1, <1>2, <1>6, <2>1, <3>1, StackPopped DEF PageInv
  <2>2. CASE d \notin Table(page)
    BY <1>6, <2>2 DEF StackFits
  <2> QED BY <2>1, <2>2
<1> QED BY <1>8, <1>9, <1>11, <1>12, <1>15

LEMMA RemovedKeeps ==
    ASSUME PageInv, HandleRemoved
    PROVE  Fits(page)' /\ OwnersAlternate' /\ MessagesTell' /\ ListsAgree' /\ StackFits'
<1>1. Popped /\ inbox[1].type = "removed"
  BY FirstFacts DEF HandleRemoved, Received, Popped
<1>2. ~IsOwner(1) /\ OfDevice(1) /\ inbox[1].device \in Devices /\ inbox[1] \in Messages
  BY <1>1, FirstFacts, MessageTypes DEF IsOwner, OfDevice
<1>3. PICK d \in Devices : d = inbox[1].device
  BY <1>2
<1>4. Up /\ 1 \in DOMAIN inbox /\ Head(inbox) = inbox[1]
  BY <1>1, <1>2, FirstFacts
<1> DEFINE p == UpdateVisibility(page)
<1>5. page' = IF d \in Table(page) THEN DelEntry(p, d) ELSE p
  BY <1>3, <1>4 DEF HandleRemoved
<1>13. /\ Fits(p) /\ p.lists = page.lists /\ p.container = page.container
       /\ Table(p) = Table(page) /\ p.stack = page.stack /\ (p.shown <=> Known # {})
  BY VisibilityFacts DEF PageInv
<1> HIDE DEF p
<1>6. /\ Fits(page') /\ SameBut(page, page', d) /\ page'.container = page.container
      /\ Table(page') = Table(page) \ {d}
      /\ page'.stack = "no-devices" /\ Table(page') # {}
            => page.stack = "no-devices" \/ (d \in Table(page) /\ Known = {})
  <2>1. CASE d \in Table(page)
    <3>1. d \in Table(p) /\ page' = DelEntry(p, d)
      BY <1>5, <1>13, <2>1
    <3>2. /\ Fits(page') /\ SameBut(p, page', d) /\ page'.container = p.container
          /\ Table(page') = Table(p) \ {d}
          /\ page'.stack = "no-devices" /\ Table(page') # {}
                => p.stack = "no-devices" \/ ~p.shown
      BY <1>13, <3>1, DelEntryFacts
    <3> QED BY <1>13, <2>1, <3>2 DEF SameBut
  <2>2. CASE d \notin Table(page)
    BY <1>5, <1>13, <2>2 DEF SameBut
  <2> QED BY <2>1, <2>2
<1>7. Up' = Up
  BY <1>6 DEF Up
<1>8. OwnersAlternate'
  BY <1>1, <1>2, <1>7, OwnersPopped DEF PageInv
<1>9. MessagesTell'
  BY <1>1, MessagesPopped DEF PageInv
<1>10. ASSUME NoOwner', NEW e \in Devices
       PROVE  TableAgrees(e)' /\ ListAgrees(e)'
  <2>1. CASE e # d
    <3>1. \A type \in {"added", "removed", "props"} : ~Says(1, type, e)
      BY <1>3, <2>1 DEF Says
    <3>2. \A l \in Lists : e \in page'.lists[l] <=> e \in page.lists[l]
      BY <1>6, <2>1 DEF SameBut
    <3> QED BY <1>1, <1>2, <1>4, <1>10, <3>1, <3>2, OthersAgree DEF PageInv
  <2>2. CASE e = d
    <3>1. boltd' = boltd /\ d \notin Table(page)'
      BY <1>1, <1>6 DEF Popped, Table
    <3>2. ASSUME Unsaid({"added", "removed"}, d)'
          PROVE  boltd[d] = Gone
      <4>1. LastWord(1, {"added", "removed"}, d)
        BY <1>1, <3>2, PoppedSays DEF PageInv
      <4>2. LastWord(1, {"added"}, d) /\ Says(1, "removed", d)
        BY <1>1, <1>3, <4>1 DEF LastWord, Says
      <4> QED BY <1>4, <4>2 DEF PageInv, MessagesTell
    <3> QED BY <2>2, <3>1, <3>2 DEF TableAgrees, ListAgrees
  <2> QED BY <2>1, <2>2
<1>11. ListsAgree'
  BY <1>4, <1>7, <1>10 DEF ListsAgree
<1>12. Fits(page)'
  BY <1>6 DEF Fits
<1>14. ASSUME page'.stack = "no-devices", NoOwner', NEW e \in Table(page')
       PROVE  ~Unsaid({"removed"}, e)'
  <2>1. e \in Table(page) /\ e # d /\ ~Says(1, "removed", e) /\ e \in Devices
    BY <1>1, <1>3, <1>6, FirstFacts DEF Says
  <2>2. NoOwner
    BY <1>1, <1>2, <1>14, OwnerStays DEF PageInv
  <2>3. CASE page.stack = "no-devices"
    BY <1>1, <2>1, <2>2, <2>3, RemovalsWait DEF PageInv, StackFits
  <2>4. CASE Known = {}
    <3>1. running
      <4>1. running' = running
        BY <1>1 DEF Popped
      <4> QED BY <1>4, <1>7, <1>8, <1>14, <4>1 DEF OwnersAlternate
    <3>2. boltd[e] = Gone /\ TableAgrees(e)
      BY <1>4, <2>1, <2>2, <2>4, <3>1 DEF Known, PageInv, ListsAgree
    <3>3. ~Unsaid({"added", "removed"}, e)
      BY <2>1, <3>2 DEF TableAgrees
    <3>4. ~Unsaid({"removed"}, e)
      <4> SUFFICES ASSUME Unsaid({"removed"}, e) PROVE FALSE
        OBVIOUS
      <4>1. PICK i \in DOMAIN inbox : Says(i, "added", e)
        BY <3>3 DEF Unsaid
      <4>2. LastWord(i, {"removed"}, e)
        BY DEF LastWord, Unsaid
      <4> QED BY <2>1, <3>2, <4>1, <4>2 DEF PageInv, MessagesTell
    <3> QED BY <1>1, <2>1, <3>4, RemovalsWait DEF PageInv
  <2> QED BY <1>6, <1>14, <2>3, <2>4
<1>15. StackFits'
  BY <1>14 DEF StackFits, Table
<1> QED BY <1>8, <1>9, <1>11, <1>12, <1>15

LEMMA PropsKeeps ==
    ASSUME PageInv, HandleProps
    PROVE  Fits(page)' /\ OwnersAlternate' /\ MessagesTell' /\ ListsAgree' /\ StackFits'
<1>1. Popped /\ inbox[1].type = "props"
  BY FirstFacts DEF HandleProps, Received, Popped
<1>2. ~IsOwner(1) /\ OfDevice(1) /\ inbox[1].device \in Devices /\ inbox[1] \in Messages
  BY <1>1, FirstFacts, MessageTypes DEF IsOwner, OfDevice
<1>3. PICK d \in Devices : d = inbox[1].device
  BY <1>2
<1>4. Up /\ 1 \in DOMAIN inbox /\ Head(inbox) = inbox[1]
  BY <1>1, <1>2, FirstFacts
<1>5. page' = IF d \in Table(page) THEN StatusChanged(page, d, inbox[1].props.status) ELSE page
  BY <1>3, <1>4 DEF HandleProps
<1>6. /\ Fits(page') /\ SameBut(page, page', d) /\ page'.container = page.container
      /\ Table(page') = Table(page) /\ page'.stack = page.stack
      /\ d \in Table(page) /\ inbox[1].props.status # "active" =>
            (d \in page'.lists["pending"] <=> IsPending(inbox[1].props.status))
  <2>1. CASE d \in Table(page)
    BY <1>5, <2>1, StatusChangedFacts DEF PageInv
  <2>2. CASE d \notin Table(page)
    BY <1>5, <2>2 DEF PageInv, SameBut
  <2> QED BY <2>1, <2>2
<1>7. Up' = Up
  BY <1>6 DEF Up
<1>8. OwnersAlternate'
  BY <1>1, <1>2, <1>7, OwnersPopped DEF PageInv
<1>9. MessagesTell'
  BY <1>1, MessagesPopped DEF PageInv
<1>10. ASSUME NoOwner', NEW e \in Devices
       PROVE  TableAgrees(e)' /\ ListAgrees(e)'
  <2>1. CASE e # d
    <3>1. \A type \in {"added", "removed", "props"} : ~Says(1, type, e)
      BY <1>3, <2>1 DEF Says
    <3>2. \A l \in Lists : e \in page'.lists[l] <=> e \in page.lists[l]
      BY <1>6, <2>1 DEF SameBut
    <3> QED BY <1>1, <1>2, <1>4, <1>10, <3>1, <3>2, OthersAgree DEF PageInv
  <2>2. CASE e = d
    <3>1. boltd' = boltd /\ Table(page)' = Table(page)
      BY <1>1, <1>6 DEF Popped, Table
    <3>2. TableAgrees(d)
      BY <1>1, <1>2, <1>4, <1>10, OwnerStays DEF PageInv, ListsAgree
    <3>3. ASSUME Unsaid({"added", "removed"}, d)'
          PROVE  Unsaid({"added", "removed"}, d)
      <4>1. \A type \in {"added", "removed"} : ~Says(1, type, d)
        BY <1>1 DEF Says
      <4> QED BY <1>1, <3>3, <4>1, PoppedSays DEF PageInv
    <3>4. ASSUME Unsaid({"removed", "props"}, d)'
          PROVE  inbox[1].props = boltd[d]
      <4>1. LastWord(1, {"removed", "props"}, d)
        BY <1>1, <3>4, PoppedSays DEF PageInv
      <4>2. LastWord(1, {"props", "removed"}, d) /\ Says(1, "props", d)
        BY <1>1, <1>3, <4>1 DEF LastWord, Says
      <4> QED BY <1>4, <4>2 DEF PageInv, MessagesTell
    <3>5. TableAgrees(d)'
      BY <3>1, <3>2, <3>3 DEF TableAgrees
    <3>6. ListAgrees(d)'
      BY <1>6, <3>1, <3>4 DEF ListAgrees
    <3> QED BY <2>2, <3>5, <3>6
  <2> QED BY <2>1, <2>2
<1>11. ListsAgree'
  BY <1>4, <1>7, <1>10 DEF ListsAgree
<1>12. Fits(page)'
  BY <1>6 DEF Fits
<1>13. \A e \in Table(page) : ~Says(1, "removed", e)
  BY <1>1 DEF Says
<1>14. StackFits'
  BY <1>1, <1>2, <1>6, <1>13, StackPopped DEF PageInv
<1> QED BY <1>8, <1>9, <1>11, <1>12, <1>14

LEMMA OwnerKeeps ==
    ASSUME PageInv, HandleOwner
    PROVE  Fits(page)' /\ OwnersAlternate' /\ MessagesTell' /\ ListsAgree' /\ StackFits'
<1>1. Popped /\ inbox[1].type = "owner" /\ IsOwner(1)
  BY FirstFacts DEF HandleOwner, Received, Popped, IsOwner
<1>2. 1 \in DOMAIN inbox /\ inbox[1].up = ~Up /\ page' = OwnerChanged(page, inbox[1].up)
  BY <1>1, FirstFacts DEF HandleOwner
<1>3. CASE Up
  <2>1. inbox[1].up = FALSE
    BY <1>2, <1>3
  <2>2. page' = OwnerChanged(page, FALSE)
    BY <1>2, <2>1
  <2>3. Fits(page') /\ page'.container = "no-thunderbolt" /\ Table(page') = {}
    BY <2>2, OwnerLostFacts DEF PageInv
  <2>4. ~Up' /\ Table(page)' = {} /\ Fits(page)'
    BY <2>3 DEF Up, Table, Fits
  <2>5. OwnersAlternate'
    BY <1>1, <2>1, <2>4, OwnersPopped DEF PageInv, Up
  <2>6. ListsAgree' /\ StackFits'
    BY <2>4 DEF ListsAgree, StackFits
  <2> QED BY <1>1, <2>4, <2>5, <2>6, MessagesPopped DEF PageInv
<1>4. CASE ~Up
  <2>1. inbox[1].up = TRUE
    BY <1>2, <1>4
  <2>2. page' = Synchronize(page) /\ Table(page) = {}
    BY <1>2, <1>4, <2>1 DEF OwnerChanged, PageInv, ListsAgree
  <2>3. /\ Fits(page') /\ page'.container = "devices-listing" /\ Table(page') = Known
        /\ Known # {} => page'.stack = "have-devices"
        /\ \A d \in Known : d \in page'.lists["pending"] <=> IsPending(boltd[d].status)
    BY <2>2, SynchronizeFacts DEF PageInv
  <2>4. Up' /\ Table(page)' = Known /\ Fits(page)'
    BY <2>3 DEF Up, Table, Fits
  <2>5. OwnersAlternate'
    BY <1>1, <2>1, <2>4, OwnersPopped DEF PageInv, Up
  <2>6. running' = running /\ boltd' = boltd
    BY <1>1 DEF Popped
  <2>7. ASSUME NoOwner', NEW e \in Devices
        PROVE  TableAgrees(e)' /\ ListAgrees(e)'
    <3>1. running
      BY <2>4, <2>5, <2>6, <2>7 DEF OwnersAlternate
    <3> QED BY <2>3, <2>4, <2>6, <3>1 DEF TableAgrees, ListAgrees, Known
  <2>8. ListsAgree'
    BY <2>4, <2>7 DEF ListsAgree
  <2>9. StackFits'
    BY <2>3, <2>4 DEF StackFits
  <2> QED BY <1>1, <2>4, <2>5, <2>8, <2>9, MessagesPopped DEF PageInv
<1> QED BY <1>3, <1>4

LEMMA ReplyKeeps ==
    ASSUME PageInv, Popped, inbox[1].type = "reply", page' = page
    PROVE  Fits(page)' /\ OwnersAlternate' /\ MessagesTell' /\ ListsAgree' /\ StackFits'
<1>1. ~IsOwner(1) /\ (Up' <=> Up) /\ Table(page)' = Table(page) /\ Fits(page)'
  BY DEF IsOwner, Up, Table, PageInv, Fits
<1>2. OwnersAlternate'
  BY <1>1, OwnersPopped DEF PageInv, Up
<1>3. ASSUME Up, NoOwner', NEW e \in Devices
      PROVE  TableAgrees(e)' /\ ListAgrees(e)'
  <2>1. \A type \in {"added", "removed", "props"} : ~Says(1, type, e)
    BY DEF Says
  <2> QED BY <1>1, <1>3, <2>1, OthersAgree DEF PageInv
<1>4. ListsAgree'
  BY <1>1, <1>3 DEF ListsAgree, PageInv
<1>5. StackFits'
  <2>1. \A d \in Table(page) : ~Says(1, "removed", d)
    BY DEF Says
  <2> QED BY <1>1, <2>1, StackPopped DEF PageInv
<1> QED BY <1>1, <1>2, <1>4, <1>5, MessagesPopped DEF PageInv

------------------------------------------------------------------------------
(* What boltd does *)

LEMMA SentIsKept ==
    ASSUME inbox \in Seq(Messages), NEW messages \in Seq(Messages), Send(messages)
    PROVE  Kept
BY SendFacts DEF Kept

LEMMA ChangeFacts ==
    ASSUME NEW d \in Devices, NEW props \in Props
    PROVE  Change(d, props) \in Messages /\ Change(d, props).type \in {"added", "removed", "props"}
BY MessagesAre DEF Change

\* No answer is sent.
NoAnswer == \A i \in DOMAIN inbox' : i \in DOMAIN inbox \/ inbox'[i].type # "reply"

LEMMA BecomesTells ==
    ASSUME inbox \in Seq(Messages), boltd \in [Devices -> Props], running,
           NEW d \in Devices, NEW props \in Props, boltd[d] # props, Becomes(d, props)
    PROVE  Told(d, props) /\ NoAnswer
<1> DEFINE messages == <<Change(d, props)>>
<1>1. Change(d, props) \in Messages /\ Change(d, props).type # "reply"
  BY ChangeFacts
<1>2. messages \in Seq(Messages) /\ Len(messages) = 1 /\ messages[1] = Change(d, props)
      /\ DOMAIN messages = 1..1 /\ Send(messages)
  BY <1>1 DEF Becomes
<1> HIDE DEF messages
<1>3. /\ Kept /\ Len(inbox) \in Nat /\ DOMAIN inbox = 1..Len(inbox)
      /\ DOMAIN inbox' = 1..Len(inbox) + 1 /\ inbox'[Len(inbox) + 1] = Change(d, props)
  BY <1>2, SentIsKept, SendFacts, SMTT(30)
<1>4. \A i \in DOMAIN inbox' : i \in DOMAIN inbox \/ i = Len(inbox) + 1
  BY <1>3
<1>5. boltd' = [boltd EXCEPT ![d] = props] /\ running' = running /\ page' = page
  BY DEF Becomes
<1> QED BY <1>1, <1>3, <1>4, <1>5 DEF Told, NoAnswer

LEMMA ToldKeeps ==
    ASSUME PageInv, NEW d, NEW props, Told(d, props)
    PROVE  PageInv'
<1>1. boltd' \in [Devices -> Props] /\ running' \in BOOLEAN /\ inbox' \in Seq(Messages)
  BY DEF PageInv, Told, Kept
<1>2. Fits(page)'
  BY DEF PageInv, Told, Fits
<1>3. OwnersAlternate' /\ MessagesTell' /\ ListsAgree' /\ StackFits'
  BY OwnersTold, MessagesTold, ListsTold, StackKept DEF PageInv, Told
<1> QED BY <1>1, <1>2, <1>3 DEF PageInv

LEMMA QuietKeeps ==
    ASSUME PageInv, Quiet
    PROVE  PageInv'
<1>1. boltd' \in [Devices -> Props] /\ running' \in BOOLEAN /\ inbox' \in Seq(Messages)
  BY DEF PageInv, Quiet, Kept
<1>2. Fits(page)'
  BY DEF PageInv, Quiet, Fits
<1>3. \A i \in DOMAIN inbox' : i \in DOMAIN inbox \/ ~OfDevice(i)'
  BY DEF Quiet, OfDevice
<1>4. OwnersAlternate' /\ MessagesTell' /\ ListsAgree' /\ StackFits'
  BY <1>3, OwnersQuiet, MessagesKept, ListsKept, StackKept DEF PageInv, Quiet
<1> QED BY <1>1, <1>2, <1>4 DEF PageInv

LEMMA RestartKeeps ==
    ASSUME PageInv, Restart
    PROVE  PageInv' /\ NoAnswer /\ Kept
<1> DEFINE m == [type |-> "owner", up |-> running']
           messages == <<m>>
<1>1. running' = ~running /\ running' \in BOOLEAN /\ m \in Messages /\ m.type = "owner"
      /\ m.up = running'
  BY MessagesAre DEF Restart, PageInv
<1> HIDE DEF m
<1>2. messages \in Seq(Messages) /\ Len(messages) = 1 /\ messages[1] = m
      /\ DOMAIN messages = 1..1 /\ Send(messages)
  BY <1>1 DEF Restart, m
<1> HIDE DEF messages
<1>3. /\ Kept /\ Len(inbox) \in Nat /\ DOMAIN inbox = 1..Len(inbox) /\ inbox' \in Seq(Messages)
      /\ DOMAIN inbox' = 1..Len(inbox) + 1 /\ inbox'[Len(inbox) + 1] = m
  BY <1>2, SentIsKept, SendFacts DEF PageInv
<1>4. \A i \in DOMAIN inbox' : i \in DOMAIN inbox \/ i = Len(inbox) + 1
  BY <1>3
<1>5. boltd' = boltd /\ page' = page
  BY DEF Restart
<1>6. Restarted /\ NoAnswer
  <2>1. Len(inbox') = Len(inbox) + 1
    BY <1>3
  <2> QED BY <1>1, <1>3, <1>4, <1>5, <2>1 DEF Restarted, NoAnswer
<1>7. \A i \in DOMAIN inbox' : i \in DOMAIN inbox \/ ~OfDevice(i)'
  BY <1>1, <1>3, <1>4 DEF OfDevice
<1>8. OwnersAlternate' /\ MessagesTell' /\ ListsAgree' /\ StackFits'
  BY <1>3, <1>5, <1>6, <1>7, OwnersRestarted, MessagesKept, ListsKept, StackKept DEF PageInv
<1>9. Fits(page)'
  BY <1>5 DEF PageInv, Fits
<1> QED BY <1>1, <1>3, <1>5, <1>6, <1>8, <1>9 DEF PageInv

\* Every step of a device is told of.
LEMMA DevicesTell ==
    ASSUME PageInv, NEW d \in Devices,
           Plug(d) \/ Unplug(d) \/ Authorize(d) \/ \E ok \in BOOLEAN : Authorized(d, ok)
    PROVE  /\ PageInv' /\ NoAnswer /\ Kept
           /\ UNCHANGED <<seen, dialog, ops>>
<1>1. /\ boltd \in [Devices -> Props] /\ inbox \in Seq(Messages) /\ boltd[d] \in Props
      /\ boltd[d].status \in Statuses /\ boltd[d].stored \in BOOLEAN
  BY DEF PageInv, Props
<1>2. ASSUME NEW props, props \in Props, boltd[d] # props, Becomes(d, props), running
      PROVE  PageInv' /\ NoAnswer /\ Kept /\ UNCHANGED <<seen, dialog, ops>>
  <2>1. Told(d, props) /\ NoAnswer
    BY <1>1, <1>2, BecomesTells
  <2>2. UNCHANGED <<seen, dialog, ops>>
    BY <1>2 DEF Becomes
  <2> QED BY <2>1, <2>2, ToldKeeps DEF Told
<1>3. CASE Plug(d)
  <2> DEFINE props == [boltd[d] EXCEPT !.status = "connected"]
  <2>1. props \in Props /\ boltd[d] # props /\ Becomes(d, props) /\ running
    BY <1>1, <1>3 DEF Plug, Present, Props, Statuses, Room
  <2> QED BY <1>2, <2>1
<1>4. CASE Unplug(d)
  <2> DEFINE props == IF boltd[d].stored THEN [boltd[d] EXCEPT !.status = "disconnected"]
                      ELSE Gone
  <2>1. props \in Props /\ boltd[d] # props /\ Becomes(d, props) /\ running
    BY <1>1, <1>4 DEF Unplug, Present, Props, Statuses, Room, Gone
  <2> QED BY <1>2, <2>1
<1>5. CASE Authorize(d)
  <2> DEFINE props == [boltd[d] EXCEPT !.status = "active"]
  <2>1. props \in Props /\ boltd[d] # props /\ Becomes(d, props) /\ running
    BY <1>1, <1>5 DEF Authorize, CanAuthorize, IsPending, Props, Statuses, Room
  <2> QED BY <1>2, <2>1
<1>6. ASSUME NEW ok \in BOOLEAN, Authorized(d, ok)
      PROVE  PageInv' /\ NoAnswer /\ Kept /\ UNCHANGED <<seen, dialog, ops>>
  <2> DEFINE props == IF ok THEN [status |-> "authorized",
                                  stored |-> d \in Enrolled \/ boltd[d].stored]
                      ELSE [boltd[d] EXCEPT !.status = "error"]
  <2>1. props \in Props /\ boltd[d] # props /\ Becomes(d, props) /\ running
    BY <1>1, <1>6 DEF Authorized, Props, Statuses, Room
  <2> QED BY <1>2, <2>1
<1> QED BY <1>3, <1>4, <1>5, <1>6

LEMMA OneAfterTheOther ==
    ASSUME NEW a \in Messages, NEW b \in Messages
    PROVE  <<a>> \o <<b>> = <<a, b>>
<1> DEFINE x == <<a>>
           y == <<b>>
           z == <<a, b>>
<1>1. /\ x \in Seq(Messages) /\ y \in Seq(Messages) /\ z \in Seq(Messages)
      /\ Len(x) = 1 /\ Len(y) = 1 /\ Len(z) = 2
      /\ x[1] = a /\ y[1] = b /\ z[1] = a /\ z[2] = b
  OBVIOUS
<1> HIDE DEF x, y, z
<1>2. /\ x \o y \in Seq(Messages)
      /\ Len(x \o y) = Len(x) + Len(y)
      /\ \A i \in 1..Len(x) + Len(y) :
            (x \o y)[i] = IF i <= Len(x) THEN x[i] ELSE y[i - Len(x)]
  <2>1. x \in Seq(Messages) /\ y \in Seq(Messages)
    BY <1>1
  <2> QED BY <2>1
<1>3. Len(x \o y) = 2 /\ (x \o y)[1] = a /\ (x \o y)[2] = b
  <2>1. Len(x) + Len(y) = 2 /\ 2 - Len(x) = 1 /\ ~ (2 <= Len(x)) /\ 1 <= Len(x)
    BY <1>1
  <2>2. 1 \in 1..2 /\ 2 \in 1..2
    OBVIOUS
  <2>3. (x \o y)[1] = x[1] /\ (x \o y)[2] = y[1]
    BY <1>2, <2>1, <2>2
  <2> QED BY <1>1, <1>2, <2>1, <2>3
<1>4. x \o y = z
  BY <1>1, <1>2, <1>3
<1> QED BY <1>4 DEF x, y, z

\* The one answer to an operation is sent.
LEMMA RepliesSent ==
    ASSUME RepliesFit, Kept, ops' = ops, NEW s \in Slots, ops[s].call # 0, ~Replied(s),
           NEW n, inbox'[n].of = s,
           \A i \in DOMAIN inbox' : i \in DOMAIN inbox \/ i = n \/ inbox'[i].type # "reply"
    PROVE  RepliesFit'
<1>1. \A i \in DOMAIN inbox' : IsReply(i)' /\ i # n =>
            i \in DOMAIN inbox /\ IsReply(i) /\ inbox'[i] = inbox[i] /\ inbox[i].of # s
  BY DEF Kept, IsReply, Replied
<1> SUFFICES ASSUME NEW i \in DOMAIN inbox', IsReply(i)'
             PROVE  /\ inbox'[i].of \in Slots /\ ops'[inbox'[i].of].call # 0
                    /\ \A j \in DOMAIN inbox' :
                          IsReply(j)' /\ inbox'[j].of = inbox'[i].of => i = j
  BY DEF RepliesFit
<1>2. CASE i = n
  BY <1>1, <1>2
<1>3. CASE i # n
  <2>1. /\ i \in DOMAIN inbox /\ IsReply(i) /\ inbox'[i] = inbox[i] /\ inbox[i].of # s
        /\ inbox[i].of \in Slots /\ ops[inbox[i].of].call # 0
    BY <1>1, <1>3 DEF RepliesFit
  <2>2. ASSUME NEW j \in DOMAIN inbox', IsReply(j)', inbox'[j].of = inbox'[i].of
        PROVE  i = j
    <3>1. j # n
      BY <2>1, <2>2
    <3>2. j \in DOMAIN inbox /\ IsReply(j) /\ inbox[j].of = inbox[i].of
      BY <1>1, <2>1, <2>2, <3>1
    <3> QED BY <2>1, <3>2 DEF RepliesFit
  <2> QED BY <2>1, <2>2
<1> QED BY <1>2, <1>3

\* An answer is sent once, after what it has changed.
LEMMA AnswerKeeps ==
    ASSUME PageInv, ops \in [Slots -> Operations], RepliesFit,
           NEW s \in Slots, NEW ok \in BOOLEAN, Answer(s, ok)
    PROVE  PageInv' /\ RepliesFit'
<1> DEFINE op == ops[s]
           d == op.call
           props == IF Present(d) THEN [boltd[d] EXCEPT !.stored = FALSE] ELSE Gone
           r == [type |-> "reply", of |-> s, ok |-> ok]
<1>1. /\ d \in Devices /\ boltd[d] \in Props /\ props \in Props /\ r \in Messages
      /\ r.type = "reply" /\ r.of = s /\ boltd \in [Devices -> Props] /\ inbox \in Seq(Messages)
      /\ (ok => running) /\ op.sender \in Buttons \cup {"none"}
  <2>1. d \in Devices /\ (ok => running) /\ op.sender \in Buttons \cup {"none"}
    <3>1. op \in Operations
      OBVIOUS
    <3>2. d \in Devices \cup {0} /\ op.sender \in Buttons \cup {"none"}
      BY <3>1 DEF Operations
    <3> QED BY <3>2 DEF Answer
  <2>2. boltd[d] \in Props /\ boltd \in [Devices -> Props] /\ inbox \in Seq(Messages)
    BY <2>1 DEF PageInv
  <2>3. props \in Props
    BY <2>2 DEF Props, Gone, Statuses
  <2> QED BY <2>1, <2>2, <2>3, MessagesAre
<1>2. UNCHANGED <<running, seen, page, dialog, ops>> /\ ~Replied(s) /\ d # 0
  BY DEF Answer
<1>3. \/ /\ boltd' = boltd /\ Send(<<r>>)
      \/ /\ boltd' = [boltd EXCEPT ![d] = props] /\ boltd[d] # props /\ running
         /\ Send(<<Change(d, props), r>>)
  <2>1. CASE op.sender = "forget" /\ ok
    <3>1. boltd' = [boltd EXCEPT ![d] = props]
      <4>1. boltd' = [boltd EXCEPT ![d] = IF Present(d)
                                              THEN [boltd[d] EXCEPT !.stored = FALSE]
                                              ELSE Gone]
        BY <2>1 DEF Answer
      <4> QED BY <4>1
    <3>2. Send((IF boltd'[d] = boltd[d] THEN <<>> ELSE <<Change(d, boltd'[d])>>) \o <<r>>)
      BY DEF Answer
    <3>3. boltd'[d] = props
      BY <1>1, <3>1
    <3> HIDE DEF d, props, r
    <3>4. CASE boltd[d] = props
      <4>1. boltd' = boltd
        BY <1>1, <3>1, <3>4
      <4>2. <<>> \o <<r>> = <<r>>
        OBVIOUS
      <4> QED BY <3>2, <3>3, <3>4, <4>1, <4>2
    <3>5. CASE boltd[d] # props
      <4>1. <<Change(d, props)>> \o <<r>> = <<Change(d, props), r>>
        BY <1>1, ChangeFacts, OneAfterTheOther
      <4> QED BY <1>1, <2>1, <3>1, <3>2, <3>3, <3>5, <4>1
    <3> QED BY <3>4, <3>5
  <2>2. CASE ~(op.sender = "forget" /\ ok)
    <3>1. boltd' = boltd
      BY <2>2 DEF Answer
    <3>2. Send((IF boltd'[d] = boltd[d] THEN <<>> ELSE <<Change(d, boltd'[d])>>) \o <<r>>)
      BY DEF Answer
    <3> HIDE DEF r, d
    <3>3. <<>> \o <<r>> = <<r>>
      OBVIOUS
    <3> QED BY <3>1, <3>2, <3>3
  <2> QED BY <2>1, <2>2
<1>4. PICK c : c = Change(d, props)
  OBVIOUS
<1>5. c \in Messages /\ c.type # "reply"
  BY <1>1, <1>4, ChangeFacts
<1> HIDE DEF d, props, r
<1>6. CASE boltd' = boltd /\ Send(<<r>>)
  <2>1. /\ Kept /\ Len(inbox) \in Nat /\ DOMAIN inbox = 1..Len(inbox)
        /\ DOMAIN inbox' = 1..Len(inbox) + 1 /\ inbox'[Len(inbox) + 1] = r
    <3> DEFINE messages == <<r>>
    <3>1. messages \in Seq(Messages) /\ Len(messages) = 1 /\ messages[1] = r
          /\ DOMAIN messages = 1..1 /\ Send(messages)
      BY <1>1, <1>6
    <3> HIDE DEF messages
    <3>2. 1 \in DOMAIN messages
      BY <3>1
    <3>3. /\ Kept /\ Len(inbox) \in Nat /\ DOMAIN inbox = 1..Len(inbox)
          /\ DOMAIN inbox' = 1..Len(inbox) + Len(messages)
          /\ \A i \in DOMAIN messages : inbox'[Len(inbox) + i] = messages[i]
      BY <1>1, <3>1, SentIsKept, SendFacts
    <3> QED BY <3>1, <3>2, <3>3
  <2>2. \A i \in DOMAIN inbox' : i \in DOMAIN inbox \/ i = Len(inbox) + 1
    BY <2>1
  <2>3. Quiet
    BY <1>1, <1>2, <1>6, <2>1, <2>2 DEF Quiet
  <2>5. RepliesFit'
    BY <1>1, <1>2, <2>1, <2>2, RepliesSent DEF d
  <2> QED BY <2>3, <2>5, QuietKeeps
<1>7. CASE /\ boltd' = [boltd EXCEPT ![d] = props] /\ boltd[d] # props /\ running
           /\ Send(<<c, r>>)
  <2>1. /\ Kept /\ Len(inbox) \in Nat /\ DOMAIN inbox = 1..Len(inbox)
        /\ DOMAIN inbox' = 1..Len(inbox) + 2
        /\ inbox'[Len(inbox) + 1] = c /\ inbox'[Len(inbox) + 2] = r
    <3> DEFINE messages == <<c, r>>
    <3>1. messages \in Seq(Messages) /\ Len(messages) = 2 /\ messages[1] = c /\ messages[2] = r
          /\ DOMAIN messages = 1..2 /\ Send(messages)
      BY <1>1, <1>5, <1>7
    <3> HIDE DEF messages
    <3>2. 1 \in DOMAIN messages /\ 2 \in DOMAIN messages
      BY <3>1
    <3>3. /\ Kept /\ Len(inbox) \in Nat /\ DOMAIN inbox = 1..Len(inbox)
          /\ DOMAIN inbox' = 1..Len(inbox) + Len(messages)
          /\ \A i \in DOMAIN messages : inbox'[Len(inbox) + i] = messages[i]
      BY <1>1, <3>1, SentIsKept, SendFacts
    <3> QED BY <3>1, <3>2, <3>3
  <2>2. \A i \in DOMAIN inbox' : i \in DOMAIN inbox \/ i = Len(inbox) + 1 \/ i = Len(inbox) + 2
    BY <2>1
  <2>3. Told(d, props)
    BY <1>1, <1>2, <1>4, <1>7, <2>1, <2>2 DEF Told
  <2>4. inbox'[Len(inbox) + 1].type # "reply"
    BY <1>5, <2>1
  <2>5. RepliesFit'
    BY <1>1, <1>2, <2>1, <2>2, <2>4, RepliesSent DEF d
  <2> QED BY <2>3, <2>5, ToldKeeps
<1> QED BY <1>3, <1>4, <1>6, <1>7

------------------------------------------------------------------------------
(* The dialog and its operation *)

Rest ==
    /\ seen \in [Devices -> Props]
    /\ dialog \in Dialogs
    /\ ops \in [Slots -> Operations]
    /\ DialogFits
    /\ RepliesFit
    /\ CallsFit

\* Rows without removals that wait are shown.
LEMMA StackIsRight ==
    ASSUME Fits(page), StackFits, inbox = <<>>, page.boxes # {}
    PROVE  page.stack = "have-devices"
<1>1. page.stack \in {"no-devices", "have-devices"} /\ DOMAIN page.lists = Lists
  BY PageFacts DEF Fits
<1>2. Table(page) # {}
  BY <1>1 DEF Fits, Table, Lists
<1>3. NoOwner /\ \A d : Unsaid({"removed"}, d)
  BY DEF NoOwner, Unsaid
<1> QED BY <1>1, <1>2, <1>3 DEF StackFits

LEMMA InvariantParts == IInv <=> PageInv /\ Rest
<1>1. page \in Pages /\ BoxesFollowLists => Fits(page)
  BY DEF Fits, BoxesFollowLists
<1>2. Fits(page) /\ StackFits => page \in Pages /\ BoxesFollowLists
  BY StackIsRight DEF Fits, BoxesFollowLists
<1> QED BY <1>1, <1>2 DEF IInv, TypeOK, PageInv, Rest

LEMMA RepliesKept ==
    ASSUME RepliesFit, Kept, NoAnswer,
           \A s \in Slots : ops[s].call # 0 => ops'[s].call # 0
    PROVE  RepliesFit'
<1>1. \A i \in DOMAIN inbox' : IsReply(i)' =>
            i \in DOMAIN inbox /\ IsReply(i) /\ inbox'[i] = inbox[i]
  BY DEF Kept, NoAnswer, IsReply
<1> QED BY <1>1 DEF RepliesFit

\* An operation makes another call or ends only when its answer is taken.
LEMMA RepliesPopped ==
    ASSUME RepliesFit, inbox \in Seq(Messages), Popped,
           \A s \in Slots : ops[s].call # 0 =>
                ops'[s].call # 0 \/ (IsReply(1) /\ inbox[1].of = s)
    PROVE  RepliesFit'
<1>1. /\ 1 \in DOMAIN inbox /\ DOMAIN inbox' \subseteq Nat \ {0}
      /\ \A i \in DOMAIN inbox' : i + 1 \in DOMAIN inbox /\ inbox'[i] = inbox[i + 1]
  BY PoppedFacts
<1>2. \A i \in DOMAIN inbox' : i + 1 # 1
  BY <1>1
<1>3. \A i, j \in DOMAIN inbox' : i + 1 = j + 1 => i = j
  BY <1>1
<1> SUFFICES ASSUME NEW i \in DOMAIN inbox', IsReply(i)'
             PROVE  /\ inbox'[i].of \in Slots /\ ops'[inbox'[i].of].call # 0
                    /\ \A j \in DOMAIN inbox' :
                          IsReply(j)' /\ inbox'[j].of = inbox'[i].of => i = j
  BY DEF RepliesFit
<1>4. i + 1 \in DOMAIN inbox /\ IsReply(i + 1) /\ inbox'[i] = inbox[i + 1]
  BY <1>1 DEF IsReply
<1>5. /\ inbox[i + 1].of \in Slots /\ ops[inbox[i + 1].of].call # 0
      /\ \A j \in DOMAIN inbox : IsReply(j) /\ inbox[j].of = inbox[i + 1].of => i + 1 = j
  BY <1>4 DEF RepliesFit
<1>6. ops'[inbox[i + 1].of].call # 0
  BY <1>1, <1>2, <1>5
<1>7. ASSUME NEW j \in DOMAIN inbox', IsReply(j)', inbox'[j].of = inbox'[i].of
      PROVE  i = j
  <2>1. j + 1 \in DOMAIN inbox /\ IsReply(j + 1) /\ inbox[j + 1].of = inbox[i + 1].of
    BY <1>1, <1>4, <1>7 DEF IsReply
  <2> QED BY <1>3, <1>5, <2>1
<1> QED BY <1>4, <1>5, <1>6, <1>7

LEMMA ClosedFits == Closed \in Dialogs /\ Closed.parents = <<>> /\ ~Closed.open
<1>1. <<>> \in Seq(Devices)
  OBVIOUS
<1> QED BY <1>1 DEF Closed, Dialogs

LEMMA UpdateFacts ==
    ASSUME NEW g \in Dialogs, NEW props \in Props
    PROVE  LET h == UpdateFromDevice(g, props)
           IN  /\ h \in Dialogs
               /\ h.open = g.open /\ h.device = g.device /\ h.parents = g.parents
<1> DEFINE connect == IF "connect" \notin g.sensitive THEN g.visible \cap {"connect"}
                      ELSE IF props.status = "connected" THEN {"connect"} ELSE {}
           visible == connect \cup IF props.stored THEN {"forget"} ELSE {}
           h == UpdateFromDevice(g, props)
<1>1. h = [g EXCEPT !.visible = visible]
  BY Zenon DEF UpdateFromDevice
<1>2. visible \subseteq Buttons
  BY DEF Buttons
<1> HIDE DEF visible, h
<1>3. h \in Dialogs /\ h.open = g.open /\ h.device = g.device /\ h.parents = g.parents
  BY <1>1, <1>2 DEF Dialogs
<1> QED BY <1>3 DEF h

LEMMA DoneFacts ==
    ASSUME NEW g \in Dialogs, NEW sender, NEW ok
    PROVE  LET h == OperationDone(g, sender, ok)
           IN  /\ h \in Dialogs
               /\ h.open = g.open /\ h.device = g.device /\ h.parents = g.parents
<1> DEFINE sensitive == IF ok THEN Buttons ELSE Buttons \ {sender}
           visible == IF ok THEN g.visible \ {sender} ELSE g.visible
           h == OperationDone(g, sender, ok)
<1>1. h = [g EXCEPT !.spinner = FALSE, !.sensitive = sensitive, !.visible = visible]
  BY Zenon DEF OperationDone
<1>2. visible \subseteq Buttons /\ sensitive \subseteq Buttons
  BY DEF Buttons, Dialogs
<1> HIDE DEF visible, sensitive, h
<1>3. h \in Dialogs /\ h.open = g.open /\ h.device = g.device /\ h.parents = g.parents
  BY <1>1, <1>2 DEF Dialogs
<1> QED BY <1>3 DEF h

LEMMA DialogFitsStill ==
    ASSUME DialogFits, dialog'.open = dialog.open, dialog'.device = dialog.device,
           dialog'.parents = dialog.parents
    PROVE  DialogFits'
BY DEF DialogFits

LEMMA CallsFitStill ==
    ASSUME CallsFit, ops' = ops
    PROVE  CallsFit'
BY DEF CallsFit

LEMMA OperationChanges ==
    ASSUME CallsFit, ops \in [Slots -> Operations],
           NEW s \in Slots, NEW o \in Operations, CallFits(o), ops' = [ops EXCEPT ![s] = o]
    PROVE  ops' \in [Slots -> Operations] /\ CallsFit'
<1>1. \A t \in Slots : ops'[t] = IF t = s THEN o ELSE ops[t]
  OBVIOUS
<1>2. CallsFit'
  BY <1>1 DEF CallsFit
<1> QED BY <1>2

LEMMA IdleFits == Idle \in Operations /\ CallFits(Idle) /\ Idle.call = 0
<1>1. <<>> \in Seq(Devices)
  OBVIOUS
<1> QED BY <1>1 DEF Operations, Idle, CallFits

\* The calls of an operation, taken from the first on
LEMMA QueueFacts ==
    ASSUME NEW s \in Seq(Devices), s # <<>>, Ascending(s)
    PROVE  /\ Head(s) \in Devices /\ Tail(s) \in Seq(Devices)
           /\ Ascending(Tail(s))
           /\ \A i \in DOMAIN Tail(s) : Head(s) < Tail(s)[i]
           /\ ToSet(s) \subseteq {Head(s)} \cup ToSet(Tail(s))
           /\ ToSet(s) \subseteq Devices
<1> DEFINE t == Tail(s)
<1>1. /\ Head(s) = s[1] /\ Head(s) \in Devices /\ t \in Seq(Devices)
      /\ Len(s) \in Nat /\ 1 \in DOMAIN s /\ DOMAIN s = 1..Len(s)
      /\ DOMAIN t = 1..Len(s) - 1
      /\ \A i \in DOMAIN t : t[i] = s[i + 1]
  OBVIOUS
<1> HIDE DEF t
<1>2. \A i \in DOMAIN t : i + 1 \in DOMAIN s /\ 1 < i + 1
  BY <1>1
<1>3. Ascending(t)
  <2> SUFFICES ASSUME NEW i \in DOMAIN t, NEW j \in DOMAIN t, i < j PROVE t[i] < t[j]
    BY DEF Ascending
  <2>1. i + 1 < j + 1
    BY <1>1
  <2> QED BY <1>1, <1>2, <2>1 DEF Ascending
<1>4. \A i \in DOMAIN t : Head(s) < t[i]
  BY <1>1, <1>2 DEF Ascending
<1>5. \A i \in DOMAIN s : i # 1 => i - 1 \in DOMAIN t /\ s[i] = t[i - 1]
  BY <1>1
<1>6. ToSet(s) \subseteq {Head(s)} \cup ToSet(t)
  BY <1>1, <1>5 DEF ToSet
<1>7. ToSet(s) \subseteq Devices
  BY <1>1 DEF ToSet
<1> QED BY <1>1, <1>3, <1>4, <1>6, <1>7 DEF t

LEMMA SilentIsQuiet ==
    ASSUME inbox \in Seq(Messages), UNCHANGED <<boltd, running, inbox, page>>
    PROVE  Quiet /\ NoAnswer
BY DEF Quiet, Kept, NoAnswer

LEMMA OpenKeeps ==
    ASSUME PageInv, Rest, NEW d \in Devices, Open(d)
    PROVE  PageInv' /\ Rest'
<1>1. Quiet /\ NoAnswer
  BY SilentIsQuiet DEF Open, PageInv
<1>2. PageInv'
  BY <1>1, QuietKeeps
<1>3. UNCHANGED <<seen, ops>>
  BY DEF Open
<1>4. Table(page) \subseteq Devices
  BY PageFacts DEF PageInv, Fits, Table, Lists
<1>5. /\ ParentsOf[d] \in Seq(Devices) /\ Downwards(ParentsOf[d])
      /\ \A i \in DOMAIN ParentsOf[d] : ParentsOf[d][i] < d
  BY <1>4, ParentsFacts
<1> DEFINE p == ParentsOf[d]
           g == [Closed EXCEPT !.open = TRUE, !.device = d, !.parents = p, !.sensitive = Buttons]
<1>6. dialog' = UpdateFromDevice(g, seen[d])
  BY DEF Open
<1>7. p \in Seq(Devices) /\ Downwards(p) /\ \A i \in DOMAIN p : p[i] < d
  BY <1>5
<1> HIDE DEF p
<1>8. g \in Dialogs /\ g.open /\ g.device = d /\ g.parents = p
  BY <1>7, ClosedFits DEF Dialogs, Closed, Buttons
<1> HIDE DEF g
<1>9. seen[d] \in Props
  BY DEF Rest
<1>10. dialog' \in Dialogs /\ dialog'.open /\ dialog'.device = d /\ dialog'.parents = p
  BY <1>6, <1>8, <1>9, UpdateFacts
<1>11. DialogFits'
  BY <1>7, <1>10 DEF DialogFits, Downwards
<1>12. RepliesFit' /\ CallsFit'
  BY <1>1, <1>3, RepliesKept, CallsFitStill DEF Rest, Quiet
<1> QED BY <1>2, <1>3, <1>10, <1>11, <1>12 DEF Rest

LEMMA ClickKeeps ==
    ASSUME PageInv, Rest, NEW button \in Buttons, Click(button)
    PROVE  PageInv' /\ Rest'
<1>1. Quiet /\ NoAnswer
  BY SilentIsQuiet DEF Click, PageInv
<1>2. PageInv'
  BY <1>1, QuietKeeps
<1> DEFINE calls == IF button = "connect" THEN Chain(dialog) ELSE <<dialog.device>>
<1>3. PICK s \in Slots :
        /\ Free(s)
        /\ dialog' = [dialog EXCEPT !.sensitive = {}, !.spinner = TRUE, !.op = s]
        /\ ops' = [ops EXCEPT ![s] = [sender |-> button, queue |-> Tail(calls),
                                      call |-> Head(calls), all |-> ToSet(calls), done |-> {}]]
  BY DEF Click
<1>4. dialog' \in Dialogs /\ DialogFits'
  <2>1. dialog' \in Dialogs /\ dialog'.open = dialog.open /\ dialog'.device = dialog.device
        /\ dialog'.parents = dialog.parents
    BY <1>3 DEF Dialogs, Rest
  <2> QED BY <2>1, DialogFitsStill DEF Rest
<1>5. dialog.device \in Devices /\ dialog.parents \in Seq(Devices)
      /\ Downwards(dialog.parents)
      /\ \A i \in DOMAIN dialog.parents : dialog.parents[i] < dialog.device
  BY DEF Rest, Click, Dialogs, DialogFits, Downwards
<1>6. calls \in Seq(Devices) /\ calls # <<>> /\ Ascending(calls)
  <2>1. CASE button = "connect"
    BY <1>5, <2>1, ChainFacts
  <2>2. CASE button # "connect"
    BY <1>5, <2>2 DEF Ascending
  <2> QED BY <2>1, <2>2
<1> HIDE DEF calls
<1>7. /\ Head(calls) \in Devices /\ Tail(calls) \in Seq(Devices)
      /\ Ascending(Tail(calls))
      /\ \A i \in DOMAIN Tail(calls) : Head(calls) < Tail(calls)[i]
      /\ ToSet(calls) \subseteq {Head(calls)} \cup ToSet(Tail(calls))
      /\ ToSet(calls) \subseteq Devices
  BY <1>6, QueueFacts
<1> DEFINE h == Head(calls)
           t == Tail(calls)
           all == ToSet(calls)
           o == [sender |-> button, queue |-> t, call |-> h, all |-> all, done |-> {}]
<1>8. /\ h \in Devices /\ t \in Seq(Devices) /\ Ascending(t)
      /\ \A i \in DOMAIN t : h < t[i]
      /\ all \subseteq {h} \cup ToSet(t) /\ all \subseteq Devices
  BY <1>7
<1>9. ops' = [ops EXCEPT ![s] = o]
  BY <1>3
<1> HIDE DEF h, t, all
<1>10. o \in Operations
  BY <1>8 DEF Operations
<1>11. h # 0
  BY <1>8, NumbersOfDevices
<1>12. CallFits(o)
  BY <1>8, <1>11 DEF CallFits, Ascending
<1>13. ops' \in [Slots -> Operations] /\ CallsFit'
  <2> HIDE DEF o
  <2> QED BY <1>9, <1>10, <1>12, OperationChanges DEF Rest
<1>14. \A u \in Slots : ops[u].call # 0 => ops'[u].call # 0
  BY <1>9, <1>11 DEF Rest
<1>15. RepliesFit'
  BY <1>1, <1>14, RepliesKept DEF Rest, Quiet
<1>16. seen' = seen
  BY DEF Click
<1> QED BY <1>2, <1>4, <1>13, <1>15, <1>16 DEF Rest

LEMMA CloseKeeps ==
    ASSUME PageInv, Rest, Close
    PROVE  PageInv' /\ Rest'
<1>1. Quiet /\ NoAnswer
  BY SilentIsQuiet DEF Close, PageInv
<1>2. PageInv'
  BY <1>1, QuietKeeps
<1>3. UNCHANGED <<seen, ops>> /\ dialog' = Closed
  BY DEF Close
<1>4. dialog' \in Dialogs /\ DialogFits'
  BY <1>3, ClosedFits DEF DialogFits
<1>5. RepliesFit' /\ CallsFit'
  BY <1>1, <1>3, RepliesKept, CallsFitStill DEF Rest, Quiet
<1> QED BY <1>2, <1>3, <1>4, <1>5 DEF Rest

\* An answer is for an operation that waits for it.
LEMMA AnswerFacts ==
    ASSUME PageInv, Rest, Popped, inbox[1].type = "reply"
    PROVE  /\ IsReply(1) /\ Head(inbox) = inbox[1] /\ inbox[1].of \in Slots
           /\ ops[inbox[1].of] \in Operations /\ ops[inbox[1].of].call # 0
           /\ CallFits(ops[inbox[1].of])
<1>1. 1 \in DOMAIN inbox /\ Head(inbox) = inbox[1] /\ IsReply(1)
  BY FirstFacts DEF IsReply
<1>2. inbox[1].of \in Slots /\ ops[inbox[1].of].call # 0
  BY <1>1 DEF Rest, RepliesFit
<1> QED BY <1>1, <1>2 DEF Rest, CallsFit

LEMMA ReplyContinueKeeps ==
    ASSUME PageInv, Rest, HandleReplyContinue
    PROVE  PageInv' /\ Rest'
<1>1. Popped /\ inbox[1].type = "reply" /\ page' = page
  BY FirstFacts DEF HandleReplyContinue, Received, Popped
<1>2. PageInv'
  BY <1>1, ReplyKeeps, PoppedFacts DEF PageInv, Popped
<1>3. PICK s \in Slots : s = Head(inbox).of /\ s = inbox[1].of
  BY <1>1, AnswerFacts
<1> DEFINE op == ops[s]
           h == Head(op.queue)
           t == Tail(op.queue)
           o == [op EXCEPT !.done = op.done \cup {op.call}, !.call = h, !.queue = t]
<1>4. UNCHANGED <<seen, dialog>> /\ op.queue # <<>> /\ ops' = [ops EXCEPT ![s] = o]
  BY <1>3 DEF HandleReplyContinue
<1>5. op \in Operations /\ op.call # 0 /\ CallFits(op)
  BY <1>1, <1>3, AnswerFacts
<1> HIDE DEF op
<1>6. /\ op.queue \in Seq(Devices) /\ op.call \in Devices
      /\ op.done \subseteq Devices /\ Ascending(op.queue)
      /\ op.all \subseteq op.done \cup {op.call} \cup ToSet(op.queue)
  BY <1>5 DEF CallFits, Operations, Ascending
<1>7. /\ h \in Devices /\ t \in Seq(Devices) /\ Ascending(t)
      /\ \A i \in DOMAIN t : h < t[i]
      /\ ToSet(op.queue) \subseteq {h} \cup ToSet(t)
  BY <1>4, <1>6, QueueFacts
<1> HIDE DEF h, t
<1>8. o \in Operations /\ o.call = h /\ o.queue = t /\ o.all = op.all
      /\ o.done = op.done \cup {op.call}
  BY <1>5, <1>6, <1>7 DEF Operations
<1> HIDE DEF o
<1>9. h # 0
  BY <1>7, NumbersOfDevices
<1>10. o.all \subseteq o.done \cup {o.call} \cup ToSet(o.queue)
  BY <1>6, <1>7, <1>8
<1>11. CallFits(o)
  BY <1>7, <1>8, <1>9, <1>10 DEF CallFits, Ascending
<1>12. ops' \in [Slots -> Operations] /\ CallsFit'
  BY <1>4, <1>8, <1>11, OperationChanges DEF Rest
<1>13. \A u \in Slots : ops[u].call # 0 => ops'[u].call # 0
  BY <1>4, <1>8, <1>9 DEF Rest
<1>14. RepliesFit'
  BY <1>1, <1>13, RepliesPopped DEF Rest, PageInv
<1>15. DialogFits'
  BY <1>4, DialogFitsStill DEF Rest
<1> QED BY <1>2, <1>4, <1>12, <1>14, <1>15 DEF Rest

LEMMA ReplyDoneKeeps ==
    ASSUME PageInv, Rest, HandleReplyDone
    PROVE  PageInv' /\ Rest'
<1>1. Popped /\ inbox[1].type = "reply" /\ page' = page
  BY FirstFacts DEF HandleReplyDone, Received, Popped
<1>2. PageInv'
  BY <1>1, ReplyKeeps, PoppedFacts DEF PageInv, Popped
<1>3. PICK s \in Slots : s = Head(inbox).of /\ s = inbox[1].of
  BY <1>1, AnswerFacts
<1> DEFINE g == OperationDone(dialog, ops[s].sender, Head(inbox).ok)
<1>4. seen' = seen /\ ops' = [ops EXCEPT ![s] = Idle]
      /\ (dialog' = dialog \/ dialog' = [g EXCEPT !.op = 0])
  BY <1>3 DEF HandleReplyDone
<1>5. g \in Dialogs /\ g.open = dialog.open /\ g.device = dialog.device
      /\ g.parents = dialog.parents
  BY DoneFacts DEF Rest
<1> HIDE DEF g
<1>6. dialog' \in Dialogs /\ dialog'.open = dialog.open /\ dialog'.device = dialog.device
      /\ dialog'.parents = dialog.parents
  <2>1. CASE dialog' = dialog
    BY <2>1 DEF Rest
  <2>2. CASE dialog' = [g EXCEPT !.op = 0]
    BY <1>5, <2>2 DEF Dialogs
  <2> QED BY <1>4, <2>1, <2>2
<1>7. DialogFits'
  BY <1>6, DialogFitsStill DEF Rest
<1>8. ops' \in [Slots -> Operations] /\ CallsFit'
  BY <1>4, IdleFits, OperationChanges DEF Rest
<1>9. \A u \in Slots : ops[u].call # 0 => ops'[u].call # 0 \/ u = s
  BY <1>4 DEF Rest
<1>10. RepliesFit'
  BY <1>1, <1>3, <1>9, AnswerFacts, RepliesPopped DEF Rest, PageInv
<1> QED BY <1>2, <1>4, <1>6, <1>7, <1>8, <1>10 DEF Rest

LEMMA MessageKeeps ==
    ASSUME PageInv, Rest, HandleAdded \/ HandleRemoved \/ HandleProps \/ HandleOwner
    PROVE  PageInv' /\ Rest'
<1>1. Popped /\ ops' = ops
  BY DEF HandleAdded, HandleRemoved, HandleProps, HandleOwner, Received, Popped
<1>2. Fits(page)' /\ OwnersAlternate' /\ MessagesTell' /\ ListsAgree' /\ StackFits'
  BY AddedKeeps, RemovedKeeps, PropsKeeps, OwnerKeeps
<1>3. boltd' \in [Devices -> Props] /\ running' \in BOOLEAN /\ inbox' \in Seq(Messages)
  BY <1>1, PoppedFacts DEF PageInv, Popped
<1>4. RepliesFit' /\ CallsFit' /\ ops' \in [Slots -> Operations]
  BY <1>1, RepliesPopped, CallsFitStill DEF Rest, PageInv
<1>5. /\ seen' \in [Devices -> Props]
      /\ dialog' \in Dialogs /\ dialog'.open = dialog.open /\ dialog'.device = dialog.device
      /\ dialog'.parents = dialog.parents
  <2>0. /\ seen \in [Devices -> Props] /\ boltd \in [Devices -> Props] /\ dialog \in Dialogs
        /\ dialog.open => dialog.device \in Devices
    BY DEF Rest, PageInv, DialogFits
  <2>1. CASE HandleAdded
    <3>1. Gone \in Props
      BY DEF Gone, Props, Statuses
    <3>2. PICK p \in Props \cup {Gone} :
             seen' = seen \/ seen' = [seen EXCEPT ![Head(inbox).device] = p]
      <4>1. Head(inbox).device \in Devices
        BY <1>1, <2>1, FirstFacts, MessageTypes DEF HandleAdded, Received
      <4> QED BY <2>0, <2>1, <4>1 DEF HandleAdded
    <3> QED BY <2>0, <2>1, <3>1, <3>2 DEF HandleAdded
  <2>2. CASE HandleRemoved
    BY <2>0, <2>2 DEF HandleRemoved
  <2>3. CASE HandleProps
    <3>1. Head(inbox).props \in Props
      BY <1>1, <2>3, FirstFacts, MessageTypes DEF HandleProps, Received
    <3>2. PICK p \in Props : p = Head(inbox).props
      BY <3>1
    <3>3. /\ seen' = [seen EXCEPT ![Head(inbox).device] = p]
          /\ dialog' = dialog \/ dialog' = UpdateFromDevice(dialog, p)
      BY <2>3, <3>2 DEF HandleProps
    <3>4. seen' \in [Devices -> Props]
      BY <2>0, <3>2, <3>3
    <3>5. CASE dialog' = dialog
      BY <2>0, <3>4, <3>5
    <3>6. CASE dialog' = UpdateFromDevice(dialog, p)
      BY <2>0, <3>4, <3>6, UpdateFacts
    <3> QED BY <3>3, <3>5, <3>6
  <2>4. CASE HandleOwner
    <3>1. seen' = boltd \/ seen' = [d \in Devices |-> Gone]
      BY <2>4 DEF HandleOwner
    <3>2. Gone \in Props
      BY DEF Gone, Props, Statuses
    <3>3. \/ dialog' = dialog
          \/ dialog.open /\ dialog' = UpdateFromDevice(dialog, boltd[dialog.device])
      BY <2>4 DEF HandleOwner
    <3>4. dialog.open => boltd[dialog.device] \in Props
      BY <2>0
    <3>5. seen' \in [Devices -> Props]
      BY <2>0, <3>1, <3>2
    <3>6. CASE dialog' = dialog
      BY <2>0, <3>5, <3>6
    <3>7. CASE dialog.open /\ dialog' = UpdateFromDevice(dialog, boltd[dialog.device])
      BY <2>0, <3>4, <3>5, <3>7, UpdateFacts
    <3> QED BY <3>3, <3>6, <3>7
  <2> QED BY <2>1, <2>2, <2>3, <2>4
<1>6. DialogFits'
  BY <1>5, DialogFitsStill DEF Rest
<1> QED BY <1>2, <1>3, <1>4, <1>5, <1>6 DEF PageInv, Rest

------------------------------------------------------------------------------
(* The theorems *)

LEMMA InitHolds == Init => IInv
<1> SUFFICES ASSUME Init PROVE IInv
  OBVIOUS
<1>1. Gone \in Props
  BY DEF Gone, Props, Statuses
<1>2. boltd \in [Devices -> Props] /\ running = TRUE /\ inbox = <<>> /\ inbox \in Seq(Messages)
      /\ DOMAIN inbox = {} /\ seen \in [Devices -> Props] /\ \A d \in Devices : boltd[d] = Gone
  BY <1>1 DEF Init
<1>3. page = [lists |-> [l \in {"pending", "devices"} |-> {}], boxes |-> {},
              stack |-> "no-devices", container |-> "devices-listing", shown |-> FALSE]
  BY DEF Init
<1>4. Fits(page) /\ Up /\ Table(page) = {}
  <2>1. page.lists["pending"] = {} /\ page.lists["devices"] = {} /\ page.boxes = {}
        /\ DOMAIN page.lists = Lists /\ page \in Pages
    BY <1>3 DEF Pages, Lists
  <2> QED BY <1>3, <2>1 DEF Fits, Lists, Up, Table
<1>5. OwnersAlternate /\ MessagesTell
  BY <1>2, <1>4 DEF OwnersAlternate, MessagesTell
<1>6. ListsAgree /\ StackFits
  BY <1>2, <1>4 DEF ListsAgree, TableAgrees, ListAgrees, StackFits
<1>7. PageInv
  BY <1>2, <1>4, <1>5, <1>6 DEF PageInv
<1>8. ops = [s \in Slots |-> Idle]
  BY DEF Init
<1>9. ops \in [Slots -> Operations] /\ CallsFit /\ RepliesFit
  BY <1>2, <1>8, IdleFits DEF CallsFit, RepliesFit
<1>10. dialog \in Dialogs /\ DialogFits
  BY ClosedFits DEF Init, DialogFits
<1> QED BY <1>2, <1>7, <1>9, <1>10, InvariantParts DEF Rest

LEMMA NextHolds == IInv /\ [Next]_vars => IInv'
<1>0. IInv' <=> PageInv' /\ Rest'
  BY InvariantParts, PTL
<1> SUFFICES ASSUME PageInv, Rest, [Next]_vars PROVE PageInv' /\ Rest'
  BY <1>0, InvariantParts
<1>1. ASSUME NEW d \in Devices,
             Plug(d) \/ Unplug(d) \/ Authorize(d) \/ \E ok \in BOOLEAN : Authorized(d, ok)
      PROVE  PageInv' /\ Rest'
  <2>1. PageInv' /\ NoAnswer /\ Kept /\ UNCHANGED <<seen, dialog, ops>>
    BY <1>1, DevicesTell
  <2> QED BY <2>1, RepliesKept, CallsFitStill, DialogFitsStill DEF Rest
<1>2. ASSUME NEW s \in Slots, NEW ok \in BOOLEAN, Answer(s, ok)
      PROVE  PageInv' /\ Rest'
  <2>1. PageInv' /\ RepliesFit'
    BY <1>2, AnswerKeeps DEF Rest
  <2>2. UNCHANGED <<seen, dialog, ops>>
    BY <1>2 DEF Answer
  <2> QED BY <2>1, <2>2, CallsFitStill, DialogFitsStill DEF Rest
<1>3. CASE Restart
  <2>1. PageInv' /\ NoAnswer /\ Kept
    BY <1>3, RestartKeeps
  <2>2. UNCHANGED <<seen, dialog, ops>>
    BY <1>3 DEF Restart
  <2> QED BY <2>1, <2>2, RepliesKept, CallsFitStill, DialogFitsStill DEF Rest
<1>4. CASE UNCHANGED vars
  <2>1. UNCHANGED <<boltd, running, inbox, seen, page, dialog, ops>>
    BY <1>4 DEF vars
  <2>2. Quiet /\ NoAnswer
    BY <2>1, SilentIsQuiet DEF PageInv
  <2>3. PageInv'
    BY <2>2, QuietKeeps
  <2>4. RepliesFit'
    BY <2>1, <2>2, RepliesKept DEF Rest, Quiet
  <2> QED BY <2>1, <2>3, <2>4, CallsFitStill, DialogFitsStill DEF Rest
<1> QED BY <1>1, <1>2, <1>3, <1>4, OpenKeeps, ClickKeeps, CloseKeeps, MessageKeeps,
           ReplyContinueKeeps, ReplyDoneKeeps DEF Next

\* The invariant holds in every state, whatever boltd, its devices and the user do.
THEOREM Invariant == Spec => []IInv
<1>1. Init => IInv
  BY InitHolds
<1>2. IInv /\ [Next]_vars => IInv'
  BY NextHolds
<1> QED BY <1>1, <1>2, PTL DEF Spec

\* All variables keep their types, for any devices and any number of messages under way.
THEOREM TypeCorrect == Spec => []TypeOK
<1>1. IInv => TypeOK
  BY DEF IInv
<1> QED BY <1>1, Invariant, PTL

\* Once the page has handled all that boltd said, it lists what boltd knows, those that wait
\* for authorisation as pending (cc_bolt_page_add_device, on_device_entry_status_changed_cb).
THEOREM ListsFollowBoltdHolds == Spec => []ListsFollowBoltd
<1>1. IInv => ListsFollowBoltd
  <2> SUFFICES ASSUME IInv, running, inbox = <<>> PROVE
            /\ Table(page) = {d \in Devices : boltd[d] # Gone}
            /\ \A d \in Devices : boltd[d].status # "active"
                  => (d \in page.lists["pending"] <=> IsPending(boltd[d].status))
    BY DEF ListsFollowBoltd
  <2>1. PageInv /\ DOMAIN inbox = {}
    BY InvariantParts
  <2>2. NoOwner /\ \A types, d : Unsaid(types, d)
    BY <2>1 DEF NoOwner, Unsaid
  <2>3. Up
    BY <2>1, <2>2 DEF PageInv, OwnersAlternate
  <2>4. \A d \in Devices : TableAgrees(d) /\ ListAgrees(d)
    BY <2>1, <2>2, <2>3 DEF PageInv, ListsAgree
  <2>5. Table(page) \subseteq Devices
    BY <2>1, PageFacts DEF PageInv, Fits, Table, Lists
  <2>6. Table(page) = {d \in Devices : boltd[d] # Gone}
    BY <2>2, <2>4, <2>5 DEF TableAgrees
  <2>7. ~IsPending(Gone.status)
    BY DEF IsPending, Gone
  <2>8. \A d \in Devices : boltd[d].status # "active"
            => (d \in page.lists["pending"] <=> IsPending(boltd[d].status))
    <3> SUFFICES ASSUME NEW d \in Devices, boltd[d].status # "active"
                 PROVE  d \in page.lists["pending"] <=> IsPending(boltd[d].status)
      OBVIOUS
    <3>1. CASE d \in Table(page)
      BY <2>2, <2>4, <3>1 DEF ListAgrees
    <3>2. CASE d \notin Table(page)
      BY <2>6, <2>7, <3>2 DEF Table
    <3> QED BY <3>1, <3>2
  <2> QED BY <2>6, <2>8
<1> QED BY <1>1, Invariant, PTL

\* A list is shown exactly when it has rows, and "no devices" when neither has, after any
\* sequence of devices coming, going and changing lists (cc_panel_list_box_migrate,
\* cc_bolt_page_del_device_entry, devices_table_clear_entries).  The page being hidden may
\* bring up "no devices" over rows, but only while their removal waits (StackFits).
THEOREM BoxesFollowListsHolds == Spec => []BoxesFollowLists
<1>1. IInv => BoxesFollowLists
  BY DEF IInv
<1> QED BY <1>1, Invariant, PTL

\* When a call is made, those above its device have been authorised.
AboveDone(op) == op.call # 0 => Above[op.call] \cap op.all \subseteq op.done

LEMMA CallsAreOrdered ==
    ASSUME NEW op \in Operations, CallFits(op)
    PROVE  AboveDone(op)
<1> SUFFICES ASSUME op.call # 0, NEW a \in Above[op.call], a \in op.all
             PROVE  a \in op.done
  BY DEF AboveDone
<1>1. op.call \in Devices /\ op.queue \in Seq(Devices) /\ op.all \subseteq Devices
  BY DEF Operations
<1>2. a < op.call /\ a \in Nat /\ op.call \in Nat
  BY <1>1, AboveIsLower, NumbersOfDevices
<1>3. a \in op.done \/ a = op.call \/ a \in ToSet(op.queue)
  BY DEF CallFits
<1>4. a \notin ToSet(op.queue)
  <2> SUFFICES ASSUME NEW i \in DOMAIN op.queue, a = op.queue[i] PROVE FALSE
    BY DEF ToSet
  <2>1. op.call < op.queue[i]
    BY DEF CallFits
  <2> QED BY <1>2, <2>1
<1> QED BY <1>2, <1>3, <1>4

\* No device is asked to be authorised before all those above it that the dialog found
\* pending (on_connect_button_clicked_cb, allop_continue), in any operation, also beside
\* those of dialogs that are closed: the calls are made upwards in the numbers of the
\* devices, and what a device hangs on has a smaller number.
THEOREM ParentsFirstHolds == Spec => ParentsFirst
<1> DEFINE Ordered == \A s \in Slots : AboveDone(ops[s])
<1>1. IInv => Ordered
  <2> SUFFICES ASSUME IInv, NEW s \in Slots PROVE AboveDone(ops[s])
    OBVIOUS
  <2>1. ops[s] \in Operations /\ CallFits(ops[s])
    BY InvariantParts DEF Rest, CallsFit
  <2> QED BY <2>1, CallsAreOrdered
<1>2. Ordered' => [\A s \in Slots : ops[s].call # ops'[s].call /\ ops'[s].call # 0
                        => Above[ops'[s].call] \cap ops'[s].all \subseteq ops'[s].done]_vars
  BY DEF AboveDone
<1> HIDE DEF Ordered
<1> QED BY <1>1, <1>2, Invariant, PTL DEF ParentsFirst

=============================================================================
