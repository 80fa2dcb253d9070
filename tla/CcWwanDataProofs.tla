------------------------- MODULE CcWwanDataProofs -------------------------
(***************************************************************************)
(* Proofs about mobile broadband, for any number of SIMs and access points *)
(* and any length of use: what is stored of the access points that         *)
(* NetworkManager had when the panel started is what the page shows, which *)
(* others stay bound to a SIM, and that the devices follow the page.       *)
(***************************************************************************)
EXTENDS CcWwanData, TLAPS, WellFoundedInduction

\* An access point with one connection, NetworkManager's
Held(w, a) == a \in w.remote /\ a \notin w.owned

\* The flags the default access point of SIM s should have
Want(w, s) == {"sim-id"} \cup (IF w.enabled[s] THEN {"autoconnect"} ELSE {})
                         \cup (IF w.high[s] THEN {"high"} ELSE {})

\* What writing to a connection leaves alone
Same(v, w) ==
    /\ v.stored = w.stored /\ v.flags = w.flags /\ v.remote = w.remote
    /\ v.modified = w.modified /\ v.default = w.default /\ v.old = w.old
    /\ v.enabled = w.enabled /\ v.high = w.high /\ v.answers = w.answers
    /\ v.unsaved = w.unsaved /\ v.unlinked = w.unlinked

------------------------------------------------------------------------------
(* The operators of cc-wwan-data.c *)

LEMMA SimOfType == \A a \in Apns : SimOf[a] \in Sims
  BY WwanAssumption

LEMMA ConnectionType ==
    ASSUME NEW w \in Objects, NEW a \in Apns
    PROVE  /\ Connection(w, a) \in SUBSET Flags
           /\ Held(w, a) => Connection(w, a) = w.local[a]
  BY DEF Connection, Objects, Held

LEMMA WriteFacts ==
    ASSUME NEW w \in Objects, NEW a \in Apns, NEW f \in SUBSET Flags
    PROVE  LET q == Write(w, a, f)
           IN  /\ q \in Objects /\ Same(q, w)
               /\ q.owned \subseteq w.owned \cup {a}
               /\ \A b \in Apns \ {a} : q.local[b] = w.local[b]
               /\ Held(w, a) => q.owned = w.owned /\ q.local[a] = f
<1>1. CASE a \in w.owned \/ a \notin w.remote
  <2> DEFINE q == [w EXCEPT !.own[a] = f, !.owned = @ \cup {a}]
  <2>1. Write(w, a, f) = q
    BY <1>1 DEF Write
  <2>2. q \in Objects
    BY DEF Objects
  <2>3. Same(q, w) /\ q.owned = w.owned \cup {a} /\ q.local = w.local
    BY DEF Objects, Same
  <2> HIDE DEF q
  <2>4. QED  BY <1>1, <2>1, <2>2, <2>3 DEF Held
<1>2. CASE ~(a \in w.owned \/ a \notin w.remote)
  <2> DEFINE q == [w EXCEPT !.local[a] = f]
  <2>1. Write(w, a, f) = q
    BY <1>2 DEF Write
  <2>2. q \in Objects
    BY DEF Objects
  <2>3. Same(q, w) /\ q.owned = w.owned /\ q.local = [w.local EXCEPT ![a] = f]
    BY DEF Objects, Same
  <2>4. w.local \in [Apns -> SUBSET Flags]
    BY DEF Objects
  <2> HIDE DEF q
  <2>5. QED  BY <1>2, <2>1, <2>2, <2>3, <2>4 DEF Held
<1>3. QED  BY <1>1, <1>2

LEMMA UpdateFacts ==
    ASSUME NEW w \in Objects, NEW a \in Apns
    PROVE  LET q == UpdateApn(w, a)
               s == SimOf[a]
           IN  /\ q \in Objects /\ Same(q, w)
               /\ q.owned \subseteq w.owned \cup {a}
               /\ \A b \in Apns \ {a} : q.local[b] = w.local[b]
               /\ Held(w, a) =>
                    /\ q.owned = w.owned
                    /\ "sim-id" \in q.local[a] <=> "sim-id" \in w.local[a]
                    /\ w.default[s] = a /\ "sim-id" \in w.local[a] => q.local[a] = Want(w, s)
<1> DEFINE s == SimOf[a]
           f == (Connection(w, a) \cap {"sim-id"})
                    \cup (IF w.enabled[s] THEN {"autoconnect"} ELSE {})
                    \cup (IF w.high[s] /\ w.default[s] = a THEN {"high"} ELSE {})
           q == Write(w, a, f)
<1>1. UpdateApn(w, a) = q
  BY DEF UpdateApn
<1>2. f \in SUBSET Flags
  BY DEF Flags
<1>3. Held(w, a) => f = (w.local[a] \cap {"sim-id"})
                            \cup (IF w.enabled[s] THEN {"autoconnect"} ELSE {})
                            \cup (IF w.high[s] /\ w.default[s] = a THEN {"high"} ELSE {})
  BY ConnectionType
<1>4. Held(w, a) => ("sim-id" \in f <=> "sim-id" \in w.local[a])
  BY <1>3
<1>5. Held(w, a) /\ w.default[s] = a /\ "sim-id" \in w.local[a] => f = Want(w, s)
  BY <1>3 DEF Want
<1> HIDE DEF f
<1>6. /\ q \in Objects /\ Same(q, w)
      /\ q.owned \subseteq w.owned \cup {a}
      /\ \A b \in Apns \ {a} : q.local[b] = w.local[b]
      /\ Held(w, a) => q.owned = w.owned /\ q.local[a] = f
  BY <1>2, WriteFacts
<1> HIDE DEF q, s
<1>7. QED  BY <1>1, <1>4, <1>5, <1>6 DEF q, s

\* What saving leaves alone, and the request it makes
Asks(q, w, answer) ==
    /\ q \in Objects
    /\ q.default = w.default /\ q.old = w.old /\ q.enabled = w.enabled /\ q.high = w.high
    /\ q.unsaved = w.unsaved /\ q.unlinked = w.unlinked /\ q.remote = w.remote
    /\ q.answers = Append(w.answers, answer)

LEMMA SaveApnFacts ==
    ASSUME NEW w \in Objects, NEW a \in w.modified, NEW refused \in SUBSET Apns,
           NEW s, s = SimOf[a], NEW sim \in {None, s}
    PROVE  LET q == SaveApn(w, a, sim, refused)
           IN  \E answer \in Answers :
                /\ Asks(q, w, answer)
                /\ answer.apn = a /\ answer.sim = sim
                /\ q.owned \subseteq w.owned \cup {a}
                /\ \A b \in Apns \ {a} : q.local[b] = w.local[b] /\ q.flags[b] = w.flags[b]
                /\ Held(w, a) =>
                    /\ ~answer.add
                    /\ q.owned = w.owned
                    /\ "sim-id" \in q.local[a] <=> "sim-id" \in w.local[a]
                    /\ w.default[s] = a /\ "sim-id" \in w.local[a] => q.local[a] = Want(w, s)
                    /\ q.flags[a] = IF answer.ok THEN q.local[a] ELSE w.flags[a]
<1> DEFINE u == UpdateApn(w, a)
           ok == a \notin refused /\ (a \in u.remote \/ a \notin u.stored)
           answer == [apn |-> a, add |-> a \notin u.remote, ok |-> ok, sim |-> sim]
           sent == [u EXCEPT !.answers = Append(@, answer)]
           stored == [sent EXCEPT !.stored = @ \cup {a},
                                  !.flags[a] = IF a \in u.remote THEN u.local[a] ELSE u.own[a]]
           q == SaveApn(w, a, sim, refused)
<1>0. a \in Apns /\ w.answers \in Seq(Answers)
  BY DEF Objects
<1>1. q = IF ~ok THEN sent ELSE stored
  BY DEF SaveApn
<1>2. /\ u \in Objects /\ Same(u, w)
      /\ u.owned \subseteq w.owned \cup {a}
      /\ \A b \in Apns \ {a} : u.local[b] = w.local[b]
      /\ Held(w, a) =>
            /\ u.owned = w.owned
            /\ "sim-id" \in u.local[a] <=> "sim-id" \in w.local[a]
            /\ w.default[s] = a /\ "sim-id" \in w.local[a] => u.local[a] = Want(w, s)
  BY <1>0, UpdateFacts
<1> HIDE DEF u
<1>3. answer \in Answers /\ answer.apn = a /\ answer.sim = sim /\ answer.ok = ok
      /\ answer.add = (a \notin u.remote)
  BY <1>0, SimOfType DEF Answers
<1> HIDE DEF answer, ok
<1>4. Append(u.answers, answer) \in Seq(Answers)
  BY <1>2, <1>3 DEF Objects
<1>5. /\ sent \in Objects /\ sent.answers = Append(u.answers, answer)
      /\ sent.stored = u.stored /\ sent.flags = u.flags /\ sent.remote = u.remote
      /\ sent.default = u.default /\ sent.old = u.old
      /\ sent.enabled = u.enabled /\ sent.high = u.high
      /\ sent.unsaved = u.unsaved /\ sent.unlinked = u.unlinked
      /\ sent.owned = u.owned /\ sent.local = u.local
  BY <1>2, <1>4 DEF Objects
<1>6. Asks(sent, w, answer)
  BY <1>2, <1>5 DEF Asks, Same
<1> HIDE DEF sent
<1>7. CASE ~ok
  <2>1. q = sent
    BY <1>1, <1>7
  <2>2. ~answer.ok
    BY <1>3, <1>7
  <2> HIDE DEF q
  <2>3. Held(w, a) => ~answer.add
    BY <1>2, <1>3 DEF Held, Same
  <2>4. QED  BY <1>2, <1>3, <1>5, <1>6, <2>1, <2>2, <2>3 DEF Same, q
<1>8. CASE ok
  <2> DEFINE f == IF a \in u.remote THEN u.local[a] ELSE u.own[a]
  <2>1. q = stored
    BY <1>1, <1>8
  <2>2. answer.ok
    BY <1>3, <1>8
  <2>3. f \in SUBSET Flags
    BY <1>0, <1>2 DEF Objects
  <2>4. stored = [sent EXCEPT !.stored = @ \cup {a}, !.flags[a] = f]
    OBVIOUS
  <2> HIDE DEF f, q, stored
  <2>5. stored \in Objects
    BY <1>0, <1>5, <2>3, <2>4 DEF Objects
  <2>6. /\ stored.answers = sent.answers /\ stored.remote = sent.remote
        /\ stored.default = sent.default /\ stored.old = sent.old
        /\ stored.enabled = sent.enabled /\ stored.high = sent.high
        /\ stored.unsaved = sent.unsaved /\ stored.unlinked = sent.unlinked
        /\ stored.owned = sent.owned /\ stored.local = sent.local
        /\ stored.flags = [sent.flags EXCEPT ![a] = f]
    BY <1>5, <2>4 DEF Objects
  <2>7. sent.flags \in [Apns -> SUBSET Flags]
    BY <1>5 DEF Objects
  <2>8. /\ stored.flags[a] = f
        /\ \A b \in Apns \ {a} : stored.flags[b] = w.flags[b] /\ stored.local[b] = w.local[b]
    BY <1>0, <1>2, <1>5, <2>6, <2>7 DEF Same
  <2>9. Held(w, a) => ~answer.add /\ f = stored.local[a]
    BY <1>2, <1>3, <1>5, <2>6 DEF Held, Same, f
  <2>10. Asks(stored, w, answer)
    BY <1>6, <2>5, <2>6 DEF Asks
  <2>11. QED  BY <1>2, <1>3, <1>5, <2>1, <2>2, <2>6, <2>8, <2>9, <2>10 DEF q
<1>9. QED  BY <1>7, <1>8

LEMMA ResetFacts ==
    ASSUME NEW w \in Objects, NEW s \in Sims, NEW refused \in SUBSET Apns
    PROVE  LET q == ResetOld(w, s, refused)
               a == w.old[s]
           IN  /\ q \in Objects
               /\ q.remote = w.remote /\ q.owned = w.owned /\ q.default = w.default
               /\ q.enabled = w.enabled /\ q.high = w.high /\ q.answers = w.answers
               /\ q.unsaved = w.unsaved /\ q.unlinked = w.unlinked
               /\ \A t \in Sims \ {s} : q.old[t] = w.old[t]
               /\ \A b \in Apns \ {a} : q.local[b] = w.local[b] /\ q.flags[b] = w.flags[b]
               /\ a \in w.remote /\ a # None => q.old[s] = None
               /\ a \notin w.remote \/ a = None => q.old[s] = w.old[s]
<1> DEFINE a == w.old[s]
<1>1. CASE a = None
  <2>1. ResetOld(w, s, refused) = w
    BY <1>1 DEF ResetOld
  <2>2. QED  BY <1>1, <2>1
<1>2. CASE a # None /\ a \notin w.remote
  <2> DEFINE q == [w EXCEPT !.kept = @ \cup {a}]
  <2>1. ResetOld(w, s, refused) = q
    BY <1>2 DEF ResetOld
  <2>2. a \in Apns
    BY <1>2 DEF Objects
  <2> HIDE DEF a
  <2>3. /\ q \in Objects /\ q.remote = w.remote /\ q.owned = w.owned
        /\ q.default = w.default /\ q.old = w.old /\ q.local = w.local /\ q.flags = w.flags
        /\ q.enabled = w.enabled /\ q.high = w.high /\ q.answers = w.answers
        /\ q.unsaved = w.unsaved /\ q.unlinked = w.unlinked
    BY <2>2 DEF Objects
  <2> HIDE DEF q
  <2>4. QED  BY <1>2, <2>1, <2>3 DEF a
<1>3. CASE a # None /\ a \in w.remote
  <2> DEFINE f == IF a \in refused THEN w.flags[a] ELSE {}
             k == IF a \in refused THEN w.kept \cup {a} ELSE w.kept \ {a}
             q == [w EXCEPT !.local[a] = {}, !.flags[a] = f, !.kept = k,
                            !.modified = @ \ {a}, !.old[s] = None]
  <2>1. a \in Apns
    BY <1>3 DEF Objects
  <2>2. ResetOld(w, s, refused) = q
    BY <1>3, <2>1 DEF ResetOld, Objects
  <2>3. f \in SUBSET Flags /\ k \in SUBSET Apns
    BY <2>1 DEF Objects
  <2>4. /\ w.local \in [Apns -> SUBSET Flags] /\ w.flags \in [Apns -> SUBSET Flags]
        /\ w.old \in [Sims -> Apns \cup {None}]
    BY DEF Objects
  <2> HIDE DEF a, f, k
  <2>5. q \in Objects
    BY <2>1, <2>3 DEF Objects
  <2>6. /\ q.remote = w.remote /\ q.owned = w.owned /\ q.default = w.default
        /\ q.enabled = w.enabled /\ q.high = w.high /\ q.answers = w.answers
        /\ q.unsaved = w.unsaved /\ q.unlinked = w.unlinked
        /\ q.old = [w.old EXCEPT ![s] = None]
        /\ q.local = [w.local EXCEPT ![a] = {}]
        /\ q.flags = [w.flags EXCEPT ![a] = f]
    BY DEF Objects
  <2> HIDE DEF q
  <2>7. QED  BY <1>3, <2>1, <2>2, <2>4, <2>5, <2>6 DEF a
<1>4. QED  BY <1>1, <1>2, <1>3

------------------------------------------------------------------------------
(* The inductive invariant *)

\* The last answer about the settings of SIM s, arrived or on its way, is an error.
Doubt(w, s) ==
    \/ /\ s \in w.unsaved
       /\ \A j \in 1..Len(w.answers) : w.answers[j].sim = s => ~w.answers[j].ok
    \/ \E i \in 1..Len(w.answers) :
        /\ w.answers[i].sim = s /\ ~w.answers[i].ok
        /\ \A j \in 1..Len(w.answers) : j > i /\ w.answers[j].sim = s => ~w.answers[j].ok

\* What is stored has one connection, and is neither added again nor of another SIM.
Base(w) ==
    /\ \A a \in Stored : Held(w, a)
    /\ \A i \in 1..Len(w.answers) :
        /\ w.answers[i].apn \in Stored => ~w.answers[i].add
        /\ w.answers[i].sim # None => w.answers[i].sim = SimOf[w.answers[i].apn]
    /\ \A s \in Sims :
        /\ w.default[s] # None => SimOf[w.default[s]] = s
        /\ w.old[s] # None => SimOf[w.old[s]] = s /\ w.old[s] # w.default[s]

\* The default APN belongs to the SIM.
Bound(w, s) == w.default[s] \in Stored => "sim-id" \in w.local[w.default[s]]

\* Between two steps, the default APN is stored as the page shows it, or there is a doubt.
Match(w, s) ==
    w.default[s] \in Stored => Doubt(w, s) \/ w.flags[w.default[s]] = Want(w, s)

\* NetworkManager's connection has the flags already when the change is on its way.
Shown(w, s) == w.default[s] \in Stored => w.local[w.default[s]] = Want(w, s)

Done(w, s) == w.old[s] \notin Stored /\ Match(w, s) /\ Shown(w, s)

Sound(w) == w \in Objects /\ Base(w) /\ \A s \in Sims : Bound(w, s)

LEMMA StoredFacts == Stored \subseteq Apns /\ None \notin Apns /\ None \notin Stored
  BY WwanAssumption DEF Apns, None

LEMMA DoubtAppended ==
    ASSUME NEW v \in Objects, NEW w \in Objects, NEW answer \in Answers,
           v.answers = Append(w.answers, answer), v.unsaved = w.unsaved, NEW t \in Sims
    PROVE  /\ answer.sim = t /\ ~answer.ok => Doubt(v, t)
           /\ answer.sim # t /\ Doubt(w, t) => Doubt(v, t)
<1> DEFINE n == Len(w.answers)
<1>1. w.answers \in Seq(Answers)
  BY DEF Objects
<1>2. /\ n \in Nat /\ Len(v.answers) = n + 1
      /\ \A i \in 1..n : v.answers[i] = w.answers[i]
      /\ v.answers[n + 1] = answer
  BY <1>1
<1>3. ASSUME answer.sim = t, ~answer.ok
      PROVE  Doubt(v, t)
  <2>1. n + 1 \in 1..Len(v.answers) /\ \A j \in 1..Len(v.answers) : ~(j > n + 1)
    BY <1>2
  <2>2. QED  BY <1>2, <1>3, <2>1 DEF Doubt
<1>4. ASSUME answer.sim # t, Doubt(w, t)
      PROVE  Doubt(v, t)
  <2>1. \A j \in 1..Len(v.answers) : v.answers[j].sim = t
            => j \in 1..n /\ v.answers[j] = w.answers[j]
    BY <1>2, <1>4
  <2>2. CASE /\ t \in w.unsaved
             /\ \A j \in 1..n : w.answers[j].sim = t => ~w.answers[j].ok
    BY <2>1, <2>2 DEF Doubt
  <2>3. ASSUME NEW i \in 1..n, w.answers[i].sim = t, ~w.answers[i].ok,
               \A j \in 1..n : j > i /\ w.answers[j].sim = t => ~w.answers[j].ok
        PROVE  Doubt(v, t)
    <3>1. i \in 1..Len(v.answers) /\ v.answers[i] = w.answers[i]
      BY <1>2
    <3>2. QED  BY <2>1, <2>3, <3>1 DEF Doubt
  <2>4. QED  BY <1>4, <2>2, <2>3 DEF Doubt
<1>5. QED  BY <1>3, <1>4

\* A request keeps what is known of the answers on their way.
LEMMA AsksKeepsAnswers ==
    ASSUME NEW w \in Objects, Base(w), NEW q, NEW answer \in Answers, Asks(q, w, answer),
           answer.apn \in Stored => ~answer.add,
           answer.sim # None => answer.sim = SimOf[answer.apn]
    PROVE  \A i \in 1..Len(q.answers) :
            /\ q.answers[i].apn \in Stored => ~q.answers[i].add
            /\ q.answers[i].sim # None => q.answers[i].sim = SimOf[q.answers[i].apn]
<1> DEFINE n == Len(w.answers)
<1>1. w.answers \in Seq(Answers) /\ q.answers = Append(w.answers, answer)
  BY DEF Objects, Asks
<1>2. /\ n \in Nat /\ Len(q.answers) = n + 1
      /\ \A i \in 1..n : q.answers[i] = w.answers[i]
      /\ q.answers[n + 1] = answer
  BY <1>1
<1>3. SUFFICES ASSUME NEW i \in 1..Len(q.answers)
               PROVE  /\ q.answers[i].apn \in Stored => ~q.answers[i].add
                      /\ q.answers[i].sim # None => q.answers[i].sim = SimOf[q.answers[i].apn]
  OBVIOUS
<1>4. i \in 1..n \/ i = n + 1
  BY <1>2
<1>5. QED  BY <1>2, <1>4 DEF Base

\* g_object_set on "modified"
Marked(w, a) == [w EXCEPT !.modified = @ \cup {a}]

LEMMA MarkedFacts ==
    ASSUME NEW w \in Objects, NEW a \in Apns
    PROVE  LET q == Marked(w, a)
           IN  /\ q \in Objects /\ a \in q.modified
               /\ q.remote = w.remote /\ q.owned = w.owned /\ q.own = w.own
               /\ q.local = w.local
               /\ q.flags = w.flags /\ q.default = w.default /\ q.old = w.old
               /\ q.enabled = w.enabled /\ q.high = w.high /\ q.answers = w.answers
               /\ q.unsaved = w.unsaved /\ q.unlinked = w.unlinked
  BY DEF Marked, Objects

\* What a request about the settings of SIM s leaves
Requested(q, w, s) ==
    /\ q.default = w.default /\ q.enabled = w.enabled /\ q.high = w.high
    /\ q.unsaved = w.unsaved /\ q.unlinked = w.unlinked
    /\ \E answer \in Answers : answer.sim = s /\ q.answers = Append(w.answers, answer)

\* cc_wwan_data_save_settings: whatever was changed of the default APN and of its SIM, and
\* whichever APN was the default before, is saved, or will be known to be refused.
LEMMA SaveSettingsFacts ==
    ASSUME NEW w, Sound(w), NEW s \in Sims, NEW refused \in SUBSET Apns,
           w.default[s] # None,
           \A t \in Sims \ {s} : Done(w, t)
    PROVE  LET q == SaveSettings(w, s, refused)
           IN  Sound(q) /\ (\A t \in Sims : Done(q, t)) /\ Requested(q, w, s)
<1> DEFINE a == w.default[s]
           o == w.old[s]
           x == ResetOld(w, s, refused)
           r == Marked(x, a)
           f == Connection(r, a) \cup {"sim-id"}
           y == Write(r, a, f)
           q == SaveApn(y, a, s, refused)
<1>1. SaveSettings(w, s, refused) = q
  BY DEF SaveSettings, Marked
<1>2. /\ w \in Objects /\ a \in Apns /\ SimOf[a] = s
      /\ \A t \in Sims \ {s} : w.default[t] # a
      /\ o # None => SimOf[o] = s /\ o # a
      /\ \A b \in Stored : Held(w, b) /\ b \in Apns /\ b \in w.remote /\ b # None
  BY StoredFacts DEF Sound, Base, Objects, Held
<1>3. /\ x \in Objects
      /\ x.remote = w.remote /\ x.owned = w.owned /\ x.default = w.default
      /\ x.enabled = w.enabled /\ x.high = w.high /\ x.answers = w.answers
      /\ x.unsaved = w.unsaved /\ x.unlinked = w.unlinked
      /\ \A t \in Sims \ {s} : x.old[t] = w.old[t]
      /\ \A b \in Apns \ {o} : x.local[b] = w.local[b] /\ x.flags[b] = w.flags[b]
      /\ o \in w.remote /\ o # None => x.old[s] = None
      /\ o \notin w.remote \/ o = None => x.old[s] = w.old[s]
  BY <1>2, ResetFacts
<1> HIDE DEF x, a, o
<1>4. /\ r \in Objects /\ a \in r.modified
      /\ r.remote = x.remote /\ r.owned = x.owned /\ r.local = x.local
      /\ r.flags = x.flags /\ r.default = x.default /\ r.old = x.old
      /\ r.enabled = x.enabled /\ r.high = x.high /\ r.answers = x.answers
      /\ r.unsaved = x.unsaved /\ r.unlinked = x.unlinked
  BY <1>2, <1>3, MarkedFacts
<1> HIDE DEF r
<1>5. f \in SUBSET Flags /\ "sim-id" \in f
  BY <1>2, <1>4, ConnectionType DEF Flags
<1> HIDE DEF f
<1>6. /\ y \in Objects /\ Same(y, r)
      /\ y.owned \subseteq r.owned \cup {a}
      /\ \A b \in Apns \ {a} : y.local[b] = r.local[b]
      /\ Held(r, a) => y.owned = r.owned /\ y.local[a] = f
  BY <1>2, <1>4, <1>5, WriteFacts
<1> HIDE DEF y
<1>7. a \in y.modified /\ s \in {None, s} /\ s = SimOf[a]
  BY <1>2, <1>4, <1>6 DEF Same
<1>8. PICK answer \in Answers :
        /\ Asks(q, y, answer)
        /\ answer.apn = a /\ answer.sim = s
        /\ q.owned \subseteq y.owned \cup {a}
        /\ \A b \in Apns \ {a} : q.local[b] = y.local[b] /\ q.flags[b] = y.flags[b]
        /\ Held(y, a) =>
            /\ ~answer.add
            /\ q.owned = y.owned
            /\ "sim-id" \in q.local[a] <=> "sim-id" \in y.local[a]
            /\ y.default[s] = a /\ "sim-id" \in y.local[a] => q.local[a] = Want(y, s)
            /\ q.flags[a] = IF answer.ok THEN q.local[a] ELSE y.flags[a]
  BY <1>2, <1>6, <1>7, SaveApnFacts
<1> HIDE DEF q
<1>9. /\ q \in Objects /\ q.default = w.default /\ q.old = x.old
      /\ q.enabled = w.enabled /\ q.high = w.high /\ q.unsaved = w.unsaved
      /\ q.unlinked = w.unlinked /\ q.remote = w.remote
      /\ q.answers = Append(w.answers, answer)
      /\ \A b \in Apns \ {a} : q.local[b] = x.local[b] /\ q.flags[b] = x.flags[b]
  BY <1>3, <1>4, <1>6, <1>8 DEF Asks, Same
<1>10. \A b \in Stored : Held(q, b)
  <2>1. SUFFICES ASSUME NEW b \in Stored PROVE Held(q, b)
    OBVIOUS
  <2>2. CASE b # a
    BY <1>2, <1>3, <1>4, <1>6, <1>8, <1>9, <2>2 DEF Held
  <2>3. CASE b = a
    BY <1>2, <1>3, <1>4, <1>6, <1>8, <1>9, <2>3 DEF Held, Same
  <2>4. QED  BY <2>2, <2>3
<1>11. a \in Stored =>
        /\ ~answer.add /\ "sim-id" \in q.local[a]
        /\ q.local[a] = Want(q, s)
        /\ answer.ok => q.flags[a] = Want(q, s)
  <2>1. SUFFICES ASSUME a \in Stored
                 PROVE  /\ ~answer.add /\ "sim-id" \in q.local[a]
                        /\ q.local[a] = Want(q, s)
                        /\ answer.ok => q.flags[a] = Want(q, s)
    OBVIOUS
  <2>2. Held(r, a) /\ Held(y, a)
    BY <1>2, <1>3, <1>4, <1>6, <2>1 DEF Held, Same
  <2>3. y.default[s] = a /\ "sim-id" \in y.local[a]
    BY <1>3, <1>4, <1>5, <1>6, <2>2 DEF Same, a
  <2>4. Want(y, s) = Want(q, s)
    BY <1>3, <1>4, <1>6, <1>9 DEF Want, Same
  <2>5. QED  BY <1>8, <2>2, <2>3, <2>4
<1>12. \A t \in Sims \ {s}, b \in Apns : SimOf[b] = t =>
            q.local[b] = w.local[b] /\ q.flags[b] = w.flags[b]
  <2>1. SUFFICES ASSUME NEW t \in Sims \ {s}, NEW b \in Apns, SimOf[b] = t
                 PROVE  q.local[b] = w.local[b] /\ q.flags[b] = w.flags[b]
    OBVIOUS
  <2>2. b # a /\ b # o
    BY <1>2, <2>1, StoredFacts
  <2>3. QED  BY <1>3, <1>9, <2>2
<1>13. \A i \in 1..Len(q.answers) :
            /\ q.answers[i].apn \in Stored => ~q.answers[i].add
            /\ q.answers[i].sim # None => q.answers[i].sim = SimOf[q.answers[i].apn]
  <2> DEFINE v == [w EXCEPT !.answers = q.answers]
  <2>1. v \in Objects /\ v.answers = q.answers /\ Asks(v, w, answer)
    BY <1>2, <1>9 DEF Objects, Asks
  <2> HIDE DEF v
  <2>2. Base(w)
    BY DEF Sound
  <2>3. QED  BY <1>2, <1>8, <1>11, <2>1, <2>2, AsksKeepsAnswers
<1>14. \A t \in Sims : /\ q.default[t] # None => SimOf[q.default[t]] = t
                       /\ q.old[t] # None => SimOf[q.old[t]] = t /\ q.old[t] # q.default[t]
  <2>1. SUFFICES ASSUME NEW t \in Sims
                 PROVE  /\ q.default[t] # None => SimOf[q.default[t]] = t
                        /\ q.old[t] # None => SimOf[q.old[t]] = t /\ q.old[t] # q.default[t]
    OBVIOUS
  <2>2. q.old[t] = w.old[t] \/ q.old[t] = None
    BY <1>3, <1>9 DEF o
  <2>3. /\ w.default[t] # None => SimOf[w.default[t]] = t
        /\ w.old[t] # None => SimOf[w.old[t]] = t /\ w.old[t] # w.default[t]
    BY DEF Sound, Base
  <2>4. q.default[t] = w.default[t]
    BY <1>9
  <2>5. QED  BY <2>2, <2>3, <2>4
<1>15. Base(q)
  BY <1>10, <1>13, <1>14 DEF Base
<1>16. ASSUME NEW t \in Sims
       PROVE  Bound(q, t) /\ Done(q, t)
  <2>1. CASE t # s
    <3>1. Bound(w, t) /\ Done(w, t) /\ w.default[t] \in Apns \cup {None}
      BY <1>2, <2>1 DEF Sound, Objects
    <3>2. q.old[t] = w.old[t]
      BY <1>3, <1>9, <2>1
    <3>3. w.default[t] \in Stored =>
            /\ q.local[w.default[t]] = w.local[w.default[t]]
            /\ q.flags[w.default[t]] = w.flags[w.default[t]]
      BY <1>2, <1>12, <2>1 DEF Sound, Base
    <3>4. Bound(q, t)
      BY <1>2, <1>9, <1>12, <2>1, <3>1, <3>2, <3>3 DEF Bound
    <3>5. Doubt(w, t) => Doubt(q, t)
      BY <1>2, <1>8, <1>9, <2>1, DoubtAppended
    <3>6. Want(q, t) = Want(w, t)
      BY <1>9 DEF Want
    <3>7. QED  BY <1>9, <3>1, <3>2, <3>3, <3>4, <3>5, <3>6 DEF Done, Match, Shown
  <2>2. CASE t = s
    <3>1. q.default[s] = a /\ q.old[s] \notin Stored
      BY <1>2, <1>3, <1>9 DEF a, o
    <3>2. Bound(q, s)
      BY <1>11, <3>1 DEF Bound
    <3>3. ~answer.ok => Doubt(q, s)
      BY <1>2, <1>8, <1>9, DoubtAppended
    <3>4. Match(q, s)
      BY <1>11, <3>1, <3>3 DEF Match
    <3>5. Shown(q, s)
      BY <1>11, <3>1 DEF Shown
    <3>6. QED  BY <2>2, <3>1, <3>2, <3>4, <3>5 DEF Done
  <2>3. QED  BY <2>1, <2>2
<1>17. Requested(q, w, s)
  BY <1>8, <1>9 DEF Requested
<1>18. QED  BY <1>1, <1>9, <1>15, <1>16, <1>17 DEF Sound

\* A switch or a priority that changes is settled by the save that follows.
LEMMA ToggledFacts ==
    ASSUME NEW w, Sound(w), \A t \in Sims : Done(w, t), NEW s \in Sims, NEW v \in Objects,
           v.remote = w.remote, v.owned = w.owned, v.local = w.local, v.flags = w.flags,
           v.default = w.default, v.old = w.old, v.answers = w.answers,
           v.unsaved = w.unsaved, v.unlinked = w.unlinked,
           \A t \in Sims \ {s} : v.enabled[t] = w.enabled[t] /\ v.high[t] = w.high[t]
    PROVE  /\ Sound(v) /\ \A t \in Sims \ {s} : Done(v, t)
           /\ v.default[s] = None => Done(v, s)
<1>1. Base(v) /\ \A t \in Sims : Bound(v, t)
  BY DEF Sound, Base, Held, Bound
<1>2. ASSUME NEW t \in Sims \ {s} PROVE Done(v, t)
  <2>1. Want(v, t) = Want(w, t)
    BY DEF Want
  <2>2. Doubt(v, t) <=> Doubt(w, t)
    BY DEF Doubt
  <2>3. QED  BY <2>1, <2>2 DEF Done, Match, Shown
<1>3. v.default[s] = None => Done(v, s)
  BY StoredFacts DEF Done, Match, Shown
<1>4. QED  BY <1>1, <1>2, <1>3 DEF Sound

LEMMA SetEnabledFacts ==
    ASSUME NEW w, Sound(w), \A t \in Sims : Done(w, t), NEW s \in Sims, NEW on \in BOOLEAN
    PROVE  LET v == SetEnabled(w, s, on)
           IN  /\ Sound(v) /\ \A t \in Sims \ {s} : Done(v, t)
               /\ v.default = w.default /\ v.answers = w.answers /\ v.unsaved = w.unsaved
               /\ v.high = w.high /\ v.unlinked = w.unlinked
               /\ \A t \in Sims \ {s} : v.enabled[t] = w.enabled[t]
<1> DEFINE m == IF w.default[s] = None THEN w.modified ELSE w.modified \cup {w.default[s]}
           v == [w EXCEPT !.modified = m, !.enabled[s] = on]
<1>1. w \in Objects /\ m \in SUBSET Apns
  BY DEF Sound, Objects
<1>2. SetEnabled(w, s, on) = v
  BY <1>1 DEF SetEnabled, Modify, Objects
<1> HIDE DEF m
<1>3. /\ v \in Objects
      /\ v.remote = w.remote /\ v.owned = w.owned /\ v.local = w.local /\ v.flags = w.flags
      /\ v.default = w.default /\ v.old = w.old /\ v.answers = w.answers
      /\ v.unsaved = w.unsaved /\ v.unlinked = w.unlinked /\ v.high = w.high
      /\ v.enabled = [w.enabled EXCEPT ![s] = on]
  BY <1>1 DEF Objects
<1>4. w.enabled \in [Sims -> BOOLEAN]
  BY <1>1 DEF Objects
<1>5. \A t \in Sims \ {s} : v.enabled[t] = w.enabled[t]
  BY <1>3, <1>4
<1> HIDE DEF v
<1>6. Sound(v) /\ \A t \in Sims \ {s} : Done(v, t)
  BY <1>3, <1>5, ToggledFacts
<1>7. QED  BY <1>2, <1>3, <1>5, <1>6

LEMMA SetPriorityFacts ==
    ASSUME NEW w, Sound(w), \A t \in Sims : Done(w, t), NEW s \in Sims, NEW high \in BOOLEAN
    PROVE  LET v == SetPriority(w, s, high)
           IN  /\ Sound(v) /\ \A t \in Sims \ {s} : Done(v, t)
               /\ v.default[s] = None => Done(v, s)
               /\ v.default = w.default /\ v.answers = w.answers /\ v.unsaved = w.unsaved
               /\ v.enabled = w.enabled /\ v.high = [w.high EXCEPT ![s] = high]
               /\ v.unlinked = w.unlinked
<1> DEFINE m == IF w.default[s] = None THEN w.modified ELSE w.modified \cup {w.default[s]}
           v == [w EXCEPT !.modified = m, !.high[s] = high]
<1>1. w \in Objects /\ m \in SUBSET Apns
  BY DEF Sound, Objects
<1>2. SetPriority(w, s, high) = w \/ SetPriority(w, s, high) = v
  BY <1>1 DEF SetPriority, Modify, Objects
<1> HIDE DEF m
<1>3. /\ v \in Objects
      /\ v.remote = w.remote /\ v.owned = w.owned /\ v.local = w.local /\ v.flags = w.flags
      /\ v.default = w.default /\ v.old = w.old /\ v.answers = w.answers
      /\ v.unsaved = w.unsaved /\ v.unlinked = w.unlinked /\ v.enabled = w.enabled
      /\ v.high = [w.high EXCEPT ![s] = high]
  BY <1>1 DEF Objects
<1>4. w.high \in [Sims -> BOOLEAN]
  BY <1>1 DEF Objects
<1>5. \A t \in Sims \ {s} : v.high[t] = w.high[t]
  BY <1>3, <1>4
<1> HIDE DEF v
<1>6. /\ Sound(v) /\ \A t \in Sims \ {s} : Done(v, t)
      /\ v.default[s] = None => Done(v, s)
  BY <1>3, <1>5, ToggledFacts
<1>7. SetPriority(w, s, high) = w => w.high = [w.high EXCEPT ![s] = high]
  <2>1. SetPriority(w, s, high) = w /\ w.high[s] # high => w = v
    BY <1>1 DEF SetPriority, Modify, Objects, v
  <2>2. QED  BY <1>3, <1>4, <2>1
<1>8. QED  BY <1>2, <1>3, <1>5, <1>6, <1>7

LEMMA SetDefaultFacts ==
    ASSUME NEW w, Sound(w), \A t \in Sims : Done(w, t), NEW a \in Apns,
           w.default[SimOf[a]] # a
    PROVE  LET v == SetDefaultApn(w, a)
               s == SimOf[a]
           IN  /\ Sound(v) /\ \A t \in Sims \ {s} : Done(v, t)
               /\ v.default[s] # None
               /\ v.answers = w.answers /\ v.unsaved = w.unsaved /\ v.enabled = w.enabled
               /\ v.high = w.high /\ v.unlinked = w.unlinked
               /\ \A t \in Sims \ {s} : v.default[t] = w.default[t]
<1> DEFINE s == SimOf[a]
           d == [w EXCEPT !.modified = @ \cup {a}, !.old[s] = w.default[s], !.default[s] = a]
           f == Connection(d, a) \cup {"sim-id"}
           v == Write(d, a, f)
<1>1. SetDefaultApn(w, a) = v
  BY DEF SetDefaultApn
<1>2. w \in Objects /\ s \in Sims /\ a # None /\ Base(w)
  BY SimOfType, StoredFacts DEF Sound
<1>3. /\ w.default \in [Sims -> Apns \cup {None}]
      /\ w.old \in [Sims -> Apns \cup {None}]
  BY <1>2 DEF Objects
<1>4. /\ d \in Objects
      /\ d.remote = w.remote /\ d.owned = w.owned /\ d.local = w.local /\ d.flags = w.flags
      /\ d.enabled = w.enabled /\ d.high = w.high /\ d.answers = w.answers
      /\ d.unsaved = w.unsaved /\ d.unlinked = w.unlinked
      /\ d.default = [w.default EXCEPT ![s] = a]
      /\ d.old = [w.old EXCEPT ![s] = w.default[s]]
  BY <1>2, <1>3 DEF Objects
<1> HIDE DEF d
<1>5. f \in SUBSET Flags /\ "sim-id" \in f
  BY <1>4, ConnectionType DEF Flags
<1> HIDE DEF f
<1>6. /\ v \in Objects /\ Same(v, d)
      /\ v.owned \subseteq d.owned \cup {a}
      /\ \A b \in Apns \ {a} : v.local[b] = d.local[b]
      /\ Held(d, a) => v.owned = d.owned /\ v.local[a] = f
  BY <1>4, <1>5, WriteFacts
<1> HIDE DEF v
<1>7. /\ v.remote = w.remote /\ v.flags = w.flags
      /\ v.enabled = w.enabled /\ v.high = w.high /\ v.answers = w.answers
      /\ v.unsaved = w.unsaved /\ v.unlinked = w.unlinked
      /\ v.default[s] = a /\ v.old[s] = w.default[s]
      /\ \A t \in Sims \ {s} : v.default[t] = w.default[t] /\ v.old[t] = w.old[t]
      /\ \A b \in Apns \ {a} : v.local[b] = w.local[b]
  BY <1>2, <1>3, <1>4, <1>6 DEF Same
<1> HIDE DEF s
<1>8. \A b \in Stored : Held(w, b) /\ b \in Apns
  BY <1>2, StoredFacts DEF Base
<1>9. ASSUME NEW b \in Stored PROVE Held(v, b)
  <2>1. CASE b = a
    BY <1>4, <1>6, <1>7, <1>8, <2>1 DEF Held
  <2>2. CASE b # a
    BY <1>4, <1>6, <1>7, <1>8, <2>2 DEF Held
  <2>3. QED  BY <2>1, <2>2
<1>10. a \in Stored => "sim-id" \in v.local[a]
  BY <1>4, <1>5, <1>6, <1>8 DEF Held
<1>11. ASSUME NEW t \in Sims
       PROVE  /\ v.default[t] # None => SimOf[v.default[t]] = t
              /\ v.old[t] # None => SimOf[v.old[t]] = t /\ v.old[t] # v.default[t]
  <2>1. /\ w.default[t] # None => SimOf[w.default[t]] = t
        /\ w.old[t] # None => SimOf[w.old[t]] = t /\ w.old[t] # w.default[t]
    BY <1>2 DEF Base
  <2>2. CASE t = s
    BY <1>2, <1>7, <2>1, <2>2 DEF s
  <2>3. CASE t # s
    BY <1>7, <2>1, <2>3
  <2>4. QED  BY <2>2, <2>3
<1>12. Base(v)
  <2>1. \A i \in 1..Len(v.answers) :
            /\ v.answers[i].apn \in Stored => ~v.answers[i].add
            /\ v.answers[i].sim # None => v.answers[i].sim = SimOf[v.answers[i].apn]
    BY <1>2, <1>7 DEF Base
  <2>2. QED  BY <1>9, <1>11, <2>1 DEF Base
<1>13. ASSUME NEW t \in Sims
       PROVE  Bound(v, t) /\ (t # s => Done(v, t))
  <2>1. Bound(w, t) /\ Done(w, t)
    BY DEF Sound
  <2>2. CASE t = s
    <3>1. QED  BY <1>7, <1>10, <2>2 DEF Bound
  <2>3. CASE t # s
    <3>1. w.default[t] # a
      BY <1>2, <1>11, <1>7, <2>3 DEF s
    <3>2. \A b \in Stored : SimOf[b] = t => v.local[b] = w.local[b]
      BY <1>7, <1>8, <2>3 DEF s
    <3>3. Bound(v, t)
      BY <1>7, <1>8, <2>1, <2>3, <3>1, <3>2 DEF Bound
    <3>4. Doubt(v, t) <=> Doubt(w, t)
      BY <1>7 DEF Doubt
    <3>5. Want(v, t) = Want(w, t)
      BY <1>7 DEF Want
    <3>6. QED  BY <1>7, <1>8, <2>1, <2>3, <3>1, <3>3, <3>4, <3>5 DEF Done, Match, Shown
  <2>4. QED  BY <2>2, <2>3
<1>14. QED  BY <1>1, <1>2, <1>6, <1>7, <1>12, <1>13 DEF Sound, s

\* cc_wwan_data_save_settings, also without a default APN
LEMMA SaveFacts ==
    ASSUME NEW w, Sound(w), NEW s \in Sims, NEW refused \in SUBSET Apns,
           \A t \in Sims \ {s} : Done(w, t), w.default[s] = None => Done(w, s)
    PROVE  LET q == SaveSettings(w, s, refused)
           IN  /\ Sound(q) /\ \A t \in Sims : Done(q, t)
               /\ Requested(q, w, s) \/ (q = w /\ w.default[s] = None)
<1>1. CASE w.default[s] = None
  <2>1. SaveSettings(w, s, refused) = w
    BY <1>1 DEF SaveSettings
  <2>2. QED  BY <1>1, <2>1
<1>2. CASE w.default[s] # None
  BY <1>2, SaveSettingsFacts
<1>3. QED  BY <1>1, <1>2

\* An APN is edited: its flags stay as they are, or as they should be.
LEMMA EditFacts ==
    ASSUME NEW w, Sound(w), \A t \in Sims : Done(w, t), NEW a \in Apns,
           NEW refused \in SUBSET Apns
    PROVE  LET edited == Write(w, a, Connection(w, a))
               q == SaveApn(Marked(edited, a), a, None, refused)
           IN  /\ Sound(q) /\ \A t \in Sims : Done(q, t)
               /\ Requested(q, w, None)
<1> DEFINE f == Connection(w, a)
           x == Write(w, a, f)
           y == Marked(x, a)
           s == SimOf[a]
           q == SaveApn(y, a, None, refused)
<1>1. w \in Objects /\ Base(w) /\ s \in Sims /\ a # None
  BY SimOfType, StoredFacts DEF Sound
<1>2. f \in SUBSET Flags /\ (Held(w, a) => f = w.local[a])
  BY <1>1, ConnectionType
<1> HIDE DEF f
<1>3. /\ x \in Objects /\ Same(x, w)
      /\ x.owned \subseteq w.owned \cup {a}
      /\ \A b \in Apns \ {a} : x.local[b] = w.local[b]
      /\ Held(w, a) => x.owned = w.owned /\ x.local[a] = f
  BY <1>1, <1>2, WriteFacts
<1> HIDE DEF x
<1>4. /\ y \in Objects /\ a \in y.modified
      /\ y.remote = x.remote /\ y.owned = x.owned /\ y.local = x.local
      /\ y.flags = x.flags /\ y.default = x.default /\ y.old = x.old
      /\ y.enabled = x.enabled /\ y.high = x.high /\ y.answers = x.answers
      /\ y.unsaved = x.unsaved /\ y.unlinked = x.unlinked
  BY <1>3, MarkedFacts
<1> HIDE DEF y
<1>5. None \in {None, s} /\ s = SimOf[a]
  OBVIOUS
<1> HIDE DEF s
<1>6. PICK answer \in Answers :
        /\ Asks(q, y, answer)
        /\ answer.apn = a /\ answer.sim = None
        /\ q.owned \subseteq y.owned \cup {a}
        /\ \A b \in Apns \ {a} : q.local[b] = y.local[b] /\ q.flags[b] = y.flags[b]
        /\ Held(y, a) =>
            /\ ~answer.add
            /\ q.owned = y.owned
            /\ "sim-id" \in q.local[a] <=> "sim-id" \in y.local[a]
            /\ y.default[s] = a /\ "sim-id" \in y.local[a] => q.local[a] = Want(y, s)
            /\ q.flags[a] = IF answer.ok THEN q.local[a] ELSE y.flags[a]
  BY <1>4, <1>5, SaveApnFacts
<1> HIDE DEF q
<1>7. /\ q \in Objects /\ q.default = w.default /\ q.old = w.old
      /\ q.enabled = w.enabled /\ q.high = w.high /\ q.unsaved = w.unsaved
      /\ q.unlinked = w.unlinked /\ q.remote = w.remote
      /\ q.answers = Append(w.answers, answer)
      /\ \A b \in Apns \ {a} : q.local[b] = w.local[b] /\ q.flags[b] = w.flags[b]
  BY <1>3, <1>4, <1>6 DEF Asks, Same
<1>8. \A b \in Stored : Held(w, b) /\ b \in Apns
  BY <1>1, StoredFacts DEF Base
<1>9. a \in Stored =>
        /\ Held(y, a) /\ q.owned = w.owned /\ ~answer.add
        /\ "sim-id" \in q.local[a] <=> "sim-id" \in w.local[a]
        /\ w.default[s] = a /\ "sim-id" \in w.local[a] => q.local[a] = Want(w, s)
        /\ q.flags[a] = IF answer.ok THEN q.local[a] ELSE w.flags[a]
  <2>1. SUFFICES ASSUME a \in Stored
                 PROVE  /\ Held(y, a) /\ q.owned = w.owned /\ ~answer.add
                        /\ "sim-id" \in q.local[a] <=> "sim-id" \in w.local[a]
                        /\ w.default[s] = a /\ "sim-id" \in w.local[a]
                                => q.local[a] = Want(w, s)
                        /\ q.flags[a] = IF answer.ok THEN q.local[a] ELSE w.flags[a]
    OBVIOUS
  <2>2. /\ Held(y, a) /\ y.owned = w.owned /\ y.local[a] = w.local[a]
        /\ y.default = w.default /\ y.flags = w.flags
    BY <1>2, <1>3, <1>4, <1>8, <2>1 DEF Held, Same
  <2>3. Want(y, s) = Want(w, s)
    BY <1>3, <1>4 DEF Want, Same
  <2>4. QED  BY <1>6, <2>2, <2>3
<1>10. \A b \in Stored : Held(q, b)
  <2>1. SUFFICES ASSUME NEW b \in Stored PROVE Held(q, b)
    OBVIOUS
  <2>2. CASE b = a
    BY <1>7, <1>8, <1>9, <2>2 DEF Held
  <2>3. CASE b # a
    BY <1>3, <1>4, <1>6, <1>7, <1>8, <2>3 DEF Held
  <2>4. QED  BY <2>2, <2>3
<1>11. \A i \in 1..Len(q.answers) :
            /\ q.answers[i].apn \in Stored => ~q.answers[i].add
            /\ q.answers[i].sim # None => q.answers[i].sim = SimOf[q.answers[i].apn]
  <2>1. Asks(q, w, answer)
    BY <1>7 DEF Asks
  <2>2. QED  BY <1>1, <1>6, <1>9, <2>1, AsksKeepsAnswers
<1>12. Base(q)
  <2>1. \A t \in Sims :
            /\ q.default[t] # None => SimOf[q.default[t]] = t
            /\ q.old[t] # None => SimOf[q.old[t]] = t /\ q.old[t] # q.default[t]
    BY <1>1, <1>7 DEF Base
  <2>2. QED  BY <1>10, <1>11, <2>1 DEF Base
<1>13. ASSUME NEW t \in Sims
       PROVE  Bound(q, t) /\ Done(q, t)
  <2>1. /\ Bound(w, t) /\ Done(w, t)
        /\ w.default[t] # None => SimOf[w.default[t]] = t
    BY <1>1 DEF Sound, Base
  <2>2. Doubt(w, t) => Doubt(q, t)
    <3>1. t # None
      BY DEF Sims, None
    <3>2. QED  BY <1>1, <1>6, <1>7, <3>1, DoubtAppended
  <2>3. Want(q, t) = Want(w, t)
    BY <1>7 DEF Want
  <2>4. ASSUME NEW b \in Stored
        PROVE  /\ "sim-id" \in q.local[b] <=> "sim-id" \in w.local[b]
               /\ q.flags[b] = w.flags[b] \/ q.flags[b] = q.local[b]
    BY <1>7, <1>8, <1>9
  <2>5. Bound(q, t)
    BY <1>7, <2>1, <2>4 DEF Bound
  <2>6. ASSUME w.default[t] \in Stored
        PROVE  /\ \/ q.flags[w.default[t]] = w.flags[w.default[t]]
                  \/ q.flags[w.default[t]] = Want(q, t)
               /\ \/ q.local[w.default[t]] = w.local[w.default[t]]
                  \/ q.local[w.default[t]] = Want(q, t)
    <3>1. CASE w.default[t] = a
      <4>1. t = s
        BY <1>1, <1>5, <2>1, <3>1
      <4>2. "sim-id" \in w.local[a]
        BY <2>1, <2>6, <3>1 DEF Bound
      <4>3. QED  BY <1>9, <2>3, <2>6, <3>1, <4>1, <4>2
    <3>2. CASE w.default[t] # a
      BY <1>7, <1>8, <2>6, <3>2
    <3>3. QED  BY <3>1, <3>2
  <2>7. Done(q, t)
    BY <1>7, <2>1, <2>2, <2>3, <2>6 DEF Done, Match, Shown
  <2>8. QED  BY <2>5, <2>7
<1>14. Requested(q, w, None)
  BY <1>6, <1>7 DEF Requested
<1>15. QED  BY <1>7, <1>12, <1>13, <1>14 DEF Sound, q, y, x, f

------------------------------------------------------------------------------
(* Answers and devices *)

\* The device follows the page, or an answer that will tell is on its way or was an error,
\* or the device could not follow.
Linked(w, l, s) ==
    w.default[s] \in Stored /\ l[s] # Idle
        => \/ \E i \in 1..Len(w.answers) : w.answers[i].sim = s
           \/ s \in w.unsaved \cup w.unlinked
           \/ l[s] = IF w.enabled[s] THEN w.default[s] ELSE Off

LEMMA LinkedAppended ==
    ASSUME NEW w \in Objects, NEW answer \in Answers, NEW q, NEW l, NEW t \in Sims,
           q.answers = Append(w.answers, answer), q.unsaved = w.unsaved,
           q.unlinked = w.unlinked
    PROVE  /\ answer.sim = t => Linked(q, l, t)
           /\ q.default[t] = w.default[t] /\ q.enabled[t] = w.enabled[t] /\ Linked(w, l, t)
                => Linked(q, l, t)
<1> DEFINE n == Len(w.answers)
<1>1. w.answers \in Seq(Answers)
  BY DEF Objects
<1>2. /\ n \in Nat /\ Len(q.answers) = n + 1
      /\ \A i \in 1..n : i \in 1..(n + 1) /\ q.answers[i] = w.answers[i]
      /\ n + 1 \in 1..(n + 1) /\ q.answers[n + 1] = answer
  BY <1>1
<1>3. answer.sim = t => Linked(q, l, t)
  BY <1>2 DEF Linked
<1>4. (\E i \in 1..n : w.answers[i].sim = t) => \E i \in 1..(n + 1) : q.answers[i].sim = t
  BY <1>2
<1>5. ASSUME q.default[t] = w.default[t], q.enabled[t] = w.enabled[t], Linked(w, l, t)
      PROVE  Linked(q, l, t)
  BY <1>2, <1>4, <1>5 DEF Linked
<1>6. QED  BY <1>3, <1>5

\* A request for SIM s, after changes of SIM s: every device is linked, as the answer is on
\* its way.
LEMMA RequestLinks ==
    ASSUME NEW w \in Objects, NEW v \in Objects, NEW q, NEW l,
           NEW s \in Sims \cup {None}, Requested(q, v, s),
           v.answers = w.answers, v.unsaved = w.unsaved, v.unlinked = w.unlinked,
           \A t \in Sims \ {s} : v.default[t] = w.default[t] /\ v.enabled[t] = w.enabled[t],
           \A t \in Sims : Linked(w, l, t)
    PROVE  \A t \in Sims : Linked(q, l, t)
<1>1. PICK answer \in Answers : answer.sim = s /\ q.answers = Append(w.answers, answer)
  BY DEF Requested
<1>2. /\ q.default = v.default /\ q.enabled = v.enabled
      /\ q.unsaved = w.unsaved /\ q.unlinked = w.unlinked
  BY DEF Requested
<1>3. SUFFICES ASSUME NEW t \in Sims PROVE Linked(q, l, t)
  OBVIOUS
<1>4. CASE t = s
  BY <1>1, <1>2, <1>4, LinkedAppended
<1>5. CASE t # s
  BY <1>1, <1>2, <1>5, LinkedAppended
<1>6. QED  BY <1>4, <1>5

\* The first answer comes off the queue; it is an error, or ends a save.
LEMMA TailFacts ==
    ASSUME NEW w \in Objects, w.answers # <<>>
    PROVE  LET n == Len(w.answers)
               v == Tail(w.answers)
           IN  /\ Head(w.answers) = w.answers[1] /\ w.answers[1] \in Answers
               /\ n \in Nat /\ 1 \in 1..n /\ Len(v) = n - 1 /\ v \in Seq(Answers)
               /\ \A i \in 1..(n - 1) : i + 1 \in 1..n /\ v[i] = w.answers[i + 1]
               /\ \A i \in 1..n : i # 1 => i - 1 \in 1..(n - 1) /\ v[i - 1] = w.answers[i]
  BY DEF Objects

LEMMA DoubtTail ==
    ASSUME NEW w \in Objects, w.answers # <<>>, NEW v, v.answers = Tail(w.answers),
           NEW t \in Sims, Doubt(w, t),
           LET head == Head(w.answers)
           IN  IF head.sim = t THEN ~head.ok => t \in v.unsaved
               ELSE t \in w.unsaved => t \in v.unsaved
    PROVE  Doubt(v, t)
<1> DEFINE n == Len(w.answers)
           head == Head(w.answers)
<1>1. /\ head = w.answers[1]
      /\ n \in Nat /\ 1 \in 1..n /\ Len(v.answers) = n - 1
      /\ \A i \in 1..(n - 1) : i + 1 \in 1..n /\ v.answers[i] = w.answers[i + 1]
      /\ \A i \in 1..n : i # 1 => i - 1 \in 1..(n - 1) /\ v.answers[i - 1] = w.answers[i]
  BY TailFacts
<1> HIDE DEF n
<1>2. CASE /\ t \in w.unsaved
           /\ \A j \in 1..n : w.answers[j].sim = t => ~w.answers[j].ok
  <2>1. t \in v.unsaved
    BY <1>1, <1>2
  <2>2. \A j \in 1..(n - 1) : v.answers[j].sim = t => ~v.answers[j].ok
    BY <1>1, <1>2
  <2>3. QED  BY <1>1, <2>1, <2>2 DEF Doubt
<1>3. ASSUME NEW i \in 1..n, w.answers[i].sim = t, ~w.answers[i].ok,
             \A j \in 1..n : j > i /\ w.answers[j].sim = t => ~w.answers[j].ok
      PROVE  Doubt(v, t)
  <2>1. CASE i = 1
    <3>1. t \in v.unsaved
      BY <1>1, <1>3, <2>1
    <3>2. \A j \in 1..(n - 1) : v.answers[j].sim = t => ~v.answers[j].ok
      BY <1>1, <1>3, <2>1
    <3>3. QED  BY <1>1, <3>1, <3>2 DEF Doubt
  <2>2. CASE i # 1
    <3>1. /\ i - 1 \in 1..(n - 1)
          /\ v.answers[i - 1].sim = t /\ ~v.answers[i - 1].ok
      BY <1>1, <1>3, <2>2
    <3>2. \A j \in 1..(n - 1) : j > i - 1 /\ v.answers[j].sim = t => ~v.answers[j].ok
      BY <1>1, <1>3
    <3>3. QED  BY <1>1, <3>1, <3>2 DEF Doubt
  <2>3. QED  BY <2>1, <2>2
<1>4. QED  BY <1>2, <1>3 DEF Doubt, n

\* What NetworkManager had stays as it is when an answer arrives.
LEMMA ReceivedFacts ==
    ASSUME NEW w, Sound(w), w.answers # <<>>
    PROVE  LET q == Received(w, Head(w.answers))
           IN  /\ q \in Objects /\ q.answers = Tail(w.answers)
               /\ q.stored = w.stored /\ q.flags = w.flags /\ q.owned = w.owned
               /\ q.default = w.default /\ q.old = w.old /\ q.enabled = w.enabled
               /\ q.high = w.high /\ q.unsaved = w.unsaved /\ q.unlinked = w.unlinked
               /\ \A b \in Stored : Held(q, b) /\ q.local[b] = w.local[b]
<1> DEFINE answer == Head(w.answers)
           a == answer.apn
           m == IF answer.ok THEN w.modified \ {a} ELSE w.modified
           x == [w EXCEPT !.answers = Tail(@), !.modified = m]
           added == [x EXCEPT !.remote = @ \cup {a}, !.local[a] = w.flags[a]]
           failed == [x EXCEPT !.remote = @ \ {a}]
           q == Received(w, answer)
<1>1. w \in Objects /\ Base(w)
  BY DEF Sound
<1>2. /\ answer = w.answers[1] /\ answer \in Answers /\ 1 \in 1..Len(w.answers)
      /\ Tail(w.answers) \in Seq(Answers)
  BY <1>1, TailFacts
<1>3. a \in Apns /\ answer.add \in BOOLEAN /\ answer.ok \in BOOLEAN
  BY <1>2 DEF Answers
<1>4. a \in Stored => ~answer.add
  BY <1>1, <1>2 DEF Base
<1>5. m \in SUBSET Apns
  BY <1>1 DEF Objects
<1>6. x = [w EXCEPT !.answers = Tail(@), !.modified = IF answer.ok THEN @ \ {a} ELSE @]
  BY <1>1 DEF Objects
<1> HIDE DEF m
<1>7. /\ x \in Objects /\ x.answers = Tail(w.answers)
      /\ x.stored = w.stored /\ x.flags = w.flags /\ x.owned = w.owned
      /\ x.default = w.default /\ x.old = w.old /\ x.enabled = w.enabled
      /\ x.high = w.high /\ x.unsaved = w.unsaved /\ x.unlinked = w.unlinked
      /\ x.remote = w.remote /\ x.local = w.local
  BY <1>1, <1>2, <1>5 DEF Objects
<1> HIDE DEF x, answer
<1>8. \/ answer.add /\ answer.ok /\ q = added
      \/ answer.add /\ ~answer.ok /\ q = failed
      \/ ~answer.add /\ q = x
  BY <1>3, <1>6 DEF Received
<1>9. \A b \in Stored : Held(w, b) /\ b \in Apns
  BY <1>1, StoredFacts DEF Base
<1>10. w.flags[a] \in SUBSET Flags
  BY <1>1, <1>3 DEF Objects
<1> HIDE DEF q
<1>11. CASE ~answer.add /\ q = x
  BY <1>7, <1>9, <1>11 DEF Held, q, answer
<1>12. CASE answer.add /\ q = failed
  <2>1. /\ failed \in Objects
        /\ failed.answers = x.answers /\ failed.stored = x.stored /\ failed.flags = x.flags
        /\ failed.owned = x.owned /\ failed.default = x.default /\ failed.old = x.old
        /\ failed.enabled = x.enabled /\ failed.high = x.high
        /\ failed.unsaved = x.unsaved /\ failed.unlinked = x.unlinked
        /\ failed.remote = x.remote \ {a} /\ failed.local = x.local
    BY <1>7 DEF Objects
  <2> HIDE DEF failed
  <2>2. a \notin Stored
    BY <1>4, <1>12
  <2>3. \A b \in Stored : Held(failed, b) /\ failed.local[b] = w.local[b]
    BY <1>7, <1>9, <2>1, <2>2 DEF Held
  <2>4. QED  BY <1>7, <1>12, <2>1, <2>3 DEF q, answer
<1>13. CASE answer.add /\ q = added
  <2>1. /\ added \in Objects
        /\ added.answers = x.answers /\ added.stored = x.stored /\ added.flags = x.flags
        /\ added.owned = x.owned /\ added.default = x.default /\ added.old = x.old
        /\ added.enabled = x.enabled /\ added.high = x.high
        /\ added.unsaved = x.unsaved /\ added.unlinked = x.unlinked
        /\ added.remote = x.remote \cup {a} /\ added.local = [x.local EXCEPT ![a] = w.flags[a]]
    BY <1>3, <1>7, <1>10 DEF Objects
  <2>2. x.local \in [Apns -> SUBSET Flags]
    BY <1>7 DEF Objects
  <2> HIDE DEF added
  <2>3. a \notin Stored
    BY <1>4, <1>13
  <2>4. \A b \in Stored : Held(added, b) /\ added.local[b] = w.local[b]
    BY <1>7, <1>9, <2>1, <2>2, <2>3 DEF Held
  <2>5. QED  BY <1>7, <1>13, <2>1, <2>4 DEF q, answer
<1>14. QED  BY <1>8, <1>11, <1>12, <1>13

\* The invariant
IInv ==
    /\ TypeOK
    /\ Sound(wwan)
    /\ \A s \in Sims : Done(wwan, s) /\ Linked(wwan, link, s)

\* What is left to show of a step that has received an answer.
LEMMA AnswerKeeps ==
    ASSUME Sound(wwan), \A s \in Sims : Done(wwan, s), wwan.answers # <<>>,
           NEW v \in Objects, v.answers = Tail(wwan.answers),
           v.flags = wwan.flags, v.default = wwan.default, v.old = wwan.old,
           v.enabled = wwan.enabled, v.high = wwan.high,
           \A b \in Stored : Held(v, b) /\ v.local[b] = wwan.local[b],
           \A t \in Sims : LET head == Head(wwan.answers)
                            IN  IF head.sim = t THEN ~head.ok => t \in v.unsaved
                                ELSE t \in wwan.unsaved => t \in v.unsaved
    PROVE  Sound(v) /\ \A s \in Sims : Done(v, s)
<1>1. wwan \in Objects /\ Base(wwan)
  BY DEF Sound
<1> DEFINE n == Len(wwan.answers)
<1>2. /\ n \in Nat /\ Len(v.answers) = n - 1
      /\ \A i \in 1..(n - 1) : i + 1 \in 1..n /\ v.answers[i] = wwan.answers[i + 1]
  BY <1>1, TailFacts
<1>3. Base(v)
  <2>1. \A i \in 1..Len(v.answers) :
            /\ v.answers[i].apn \in Stored => ~v.answers[i].add
            /\ v.answers[i].sim # None => v.answers[i].sim = SimOf[v.answers[i].apn]
    BY <1>1, <1>2 DEF Base
  <2>2. \A s \in Sims :
            /\ v.default[s] # None => SimOf[v.default[s]] = s
            /\ v.old[s] # None => SimOf[v.old[s]] = s /\ v.old[s] # v.default[s]
    BY <1>1 DEF Base
  <2>3. QED  BY <2>1, <2>2 DEF Base
<1>4. ASSUME NEW t \in Sims
      PROVE  Bound(v, t) /\ Done(v, t)
  <2>1. Bound(wwan, t) /\ Done(wwan, t)
    BY DEF Sound
  <2>2. Bound(v, t)
    BY <2>1 DEF Bound
  <2>3. Doubt(wwan, t) => Doubt(v, t)
    BY <1>1, DoubtTail
  <2>4. Want(v, t) = Want(wwan, t)
    BY DEF Want
  <2>5. QED  BY <2>1, <2>2, <2>3, <2>4 DEF Done, Match, Shown
<1>5. QED  BY <1>3, <1>4 DEF Sound

\* The answers to the settings of a SIM decide what its device does.
LEMMA LinkedTail ==
    ASSUME NEW w \in Objects, w.answers # <<>>, NEW v, v.answers = Tail(w.answers),
           v.default = w.default, v.enabled = w.enabled, NEW l, NEW k, NEW t \in Sims,
           Linked(w, l, t),
           IF Head(w.answers).sim = t
           THEN t \in v.unsaved \cup v.unlinked
                \/ (w.default[t] \in Stored
                        => k[t] = IF w.enabled[t] THEN w.default[t] ELSE Off)
           ELSE k[t] = l[t] /\ (t \in w.unsaved \cup w.unlinked => t \in v.unsaved \cup v.unlinked)
    PROVE  Linked(v, k, t)
<1> DEFINE n == Len(w.answers)
<1>1. /\ Head(w.answers) = w.answers[1]
      /\ n \in Nat /\ Len(v.answers) = n - 1
      /\ \A i \in 1..n : i # 1 => i - 1 \in 1..(n - 1) /\ v.answers[i - 1] = w.answers[i]
  BY TailFacts
<1>2. CASE Head(w.answers).sim = t
  BY <1>2 DEF Linked
<1>3. CASE Head(w.answers).sim # t
  <2>1. ASSUME NEW i \in 1..n, w.answers[i].sim = t
        PROVE  \E j \in 1..Len(v.answers) : v.answers[j].sim = t
    BY <1>1, <1>3, <2>1
  <2>2. QED  BY <1>3, <2>1 DEF Linked
<1>4. QED  BY <1>2, <1>3

LEMMA AnsweredKeeps ==
    ASSUME IInv, Answered
    PROVE  IInv'
<1> DEFINE head == Head(wwan.answers)
           q == Received(wwan, head)
           s == head.sim
<1>1. /\ wwan \in Objects /\ Sound(wwan) /\ wwan.answers # <<>>
      /\ \A t \in Sims : Done(wwan, t) /\ Linked(wwan, link, t)
      /\ link \in [Sims -> Apns \cup {Idle, Off}]
      /\ chosen \in Sims \cup {None} /\ offered \subseteq Sims
      /\ notify \in BOOLEAN /\ steps \in 0..MaxSteps
      /\ chosen' = chosen /\ offered' = offered /\ steps' = steps
  BY DEF IInv, TypeOK, Answered
<1>2. /\ q \in Objects /\ q.answers = Tail(wwan.answers)
      /\ q.stored = wwan.stored /\ q.flags = wwan.flags /\ q.owned = wwan.owned
      /\ q.default = wwan.default /\ q.old = wwan.old /\ q.enabled = wwan.enabled
      /\ q.high = wwan.high /\ q.unsaved = wwan.unsaved /\ q.unlinked = wwan.unlinked
      /\ \A b \in Stored : Held(q, b) /\ q.local[b] = wwan.local[b]
  BY <1>1, ReceivedFacts
<1>3. head \in Answers
  BY <1>1, TailFacts
<1>4. s \in Sims \cup {None} /\ head.ok \in BOOLEAN
  BY <1>3 DEF Answers
<1>5. None \notin Sims
  BY DEF Sims, None
<1>6. IF s # None /\ head.ok THEN SettingsSaved(q, head)
      ELSE /\ wwan' = [q EXCEPT !.unsaved = @ \cup ({s} \ {None})]
           /\ UNCHANGED <<link, notify>>
  BY DEF Answered
<1> HIDE DEF q, head
<1>7. CASE s # None /\ head.ok
  <2> DEFINE m == q.modified \ {q.default[s]}
             V(un) == [q EXCEPT !.modified = m, !.unsaved = @ \ {s}, !.unlinked = un]
             v == wwan'
  <2>1. s \in Sims
    BY <1>4, <1>7
  <2>2. q.default[s] \in Stored => Connects(q, s) = {q.default[s]}
    BY <1>2 DEF Connects, Held
  <2>3. Connects(q, s) \subseteq Apns
    <3>1. q.default[s] \in Apns \cup {None} /\ q.remote \subseteq Apns
      BY <1>2, <2>1 DEF Objects
    <3>2. QED  BY <3>1 DEF Connects, ApnsOf
  <2>4. m \in SUBSET Apns /\ q.unlinked \subseteq Sims
    BY <1>2 DEF Objects
  <2>5. PICK un \in SUBSET Sims :
            /\ v = V(un) /\ q.unlinked \ {s} \subseteq un
            /\ \/ /\ \E c \in IF q.enabled[s] THEN Connects(q, s) ELSE {Off} :
                        link' = [link EXCEPT ![s] = c]
                  /\ notify' = TRUE
               \/ s \in un /\ link' = link /\ notify' = notify
    <3>1. SettingsSaved(q, head)
      BY <1>6, <1>7
    <3>2. \/ /\ v = V(q.unlinked \ {s}) /\ notify' = TRUE
             /\ \E c \in IF q.enabled[s] THEN Connects(q, s) ELSE {Off} :
                    link' = [link EXCEPT ![s] = c]
          \/ v = V(q.unlinked \cup {s}) /\ link' = link /\ notify' = notify
      BY <1>2, <3>1 DEF SettingsSaved, Objects
    <3>3. CASE /\ v = V(q.unlinked \ {s}) /\ notify' = TRUE
               /\ \E c \in IF q.enabled[s] THEN Connects(q, s) ELSE {Off} :
                      link' = [link EXCEPT ![s] = c]
      <4>1. q.unlinked \ {s} \in SUBSET Sims
        BY <2>4
      <4>2. QED  BY <3>3, <4>1
    <3>4. CASE v = V(q.unlinked \cup {s}) /\ link' = link /\ notify' = notify
      <4>1. q.unlinked \cup {s} \in SUBSET Sims
        BY <2>1, <2>4
      <4>2. QED  BY <3>4, <4>1
    <3>5. QED  BY <3>2, <3>3, <3>4
  <2> HIDE DEF m
  <2>6. /\ v \in Objects /\ v.answers = q.answers /\ v.unsaved = q.unsaved \ {s}
        /\ v.flags = q.flags /\ v.owned = q.owned /\ v.default = q.default
        /\ v.old = q.old /\ v.enabled = q.enabled /\ v.high = q.high
        /\ v.unlinked = un /\ v.remote = q.remote /\ v.local = q.local
    BY <1>2, <2>4, <2>5 DEF Objects
  <2>7. \A b \in Stored : Held(v, b) /\ v.local[b] = wwan.local[b]
    BY <1>2, <2>6 DEF Held
  <2>8. Sound(v) /\ \A t \in Sims : Done(v, t)
    <3>1. \A t \in Sims : IF head.sim = t THEN ~head.ok => t \in v.unsaved
                          ELSE t \in wwan.unsaved => t \in v.unsaved
      BY <1>2, <1>7, <2>6
    <3>2. QED  BY <1>1, <1>2, <2>6, <2>7, <3>1, AnswerKeeps DEF head
  <2>9. link' \in [Sims -> Apns \cup {Idle, Off}] /\ notify' \in BOOLEAN
    BY <1>1, <2>1, <2>3, <2>5
  <2>10. /\ \A t \in Sims \ {s} : link'[t] = link[t]
         /\ \/ s \in un
            \/ q.default[s] \in Stored
                    => link'[s] = IF q.enabled[s] THEN q.default[s] ELSE Off
    BY <1>1, <2>1, <2>2, <2>5
  <2>11. \A t \in Sims : Linked(v, link', t)
    <3>1. SUFFICES ASSUME NEW t \in Sims PROVE Linked(v, link', t)
      OBVIOUS
    <3>2. /\ v.answers = Tail(wwan.answers) /\ v.default = wwan.default
          /\ v.enabled = wwan.enabled /\ Linked(wwan, link, t)
          /\ wwan \in Objects /\ wwan.answers # <<>>
      BY <1>1, <1>2, <2>6
    <3>3. CASE t = s
      <4>1. \/ t \in v.unsaved \cup v.unlinked
            \/ wwan.default[t] \in Stored
                    => link'[t] = IF wwan.enabled[t] THEN wwan.default[t] ELSE Off
        BY <1>2, <2>6, <2>10, <3>3
      <4>2. Head(wwan.answers).sim = t
        BY <3>3 DEF head
      <4>3. IF Head(wwan.answers).sim = t
            THEN t \in v.unsaved \cup v.unlinked
                 \/ (wwan.default[t] \in Stored
                        => link'[t] = IF wwan.enabled[t] THEN wwan.default[t] ELSE Off)
            ELSE /\ link'[t] = link[t]
                 /\ t \in wwan.unsaved \cup wwan.unlinked => t \in v.unsaved \cup v.unlinked
        BY <4>1, <4>2
      <4> HIDE DEF v
      <4>4. QED  BY <3>2, <4>3, LinkedTail
    <3>4. CASE t # s
      <4>1. /\ link'[t] = link[t]
            /\ t \in wwan.unsaved \cup wwan.unlinked => t \in v.unsaved \cup v.unlinked
        BY <1>2, <2>5, <2>6, <2>10, <3>4
      <4>2. Head(wwan.answers).sim # t
        BY <3>4 DEF head
      <4>3. QED  BY <3>2, <4>1, <4>2, LinkedTail
    <3>5. QED  BY <3>3, <3>4
  <2>12. TypeOK'
    BY <1>1, <2>6, <2>9 DEF TypeOK
  <2>13. QED  BY <2>8, <2>11, <2>12 DEF IInv
<1>8. CASE ~(s # None /\ head.ok)
  <2> DEFINE v == [q EXCEPT !.unsaved = @ \cup ({s} \ {None})]
  <2>1. wwan' = v /\ link' = link /\ notify' = notify
    BY <1>6, <1>8
  <2>2. /\ v \in Objects /\ v.answers = q.answers
        /\ v.unsaved = q.unsaved \cup ({s} \ {None})
        /\ v.flags = q.flags /\ v.owned = q.owned /\ v.default = q.default
        /\ v.old = q.old /\ v.enabled = q.enabled /\ v.high = q.high
        /\ v.unlinked = q.unlinked /\ v.remote = q.remote /\ v.local = q.local
    BY <1>2, <1>4 DEF Objects
  <2> HIDE DEF v
  <2>3. \A b \in Stored : Held(v, b) /\ v.local[b] = wwan.local[b]
    BY <1>2, <2>2 DEF Held
  <2>4. \A t \in Sims : IF head.sim = t THEN t \in v.unsaved
                        ELSE t \in wwan.unsaved => t \in v.unsaved
    BY <1>2, <1>5, <2>2
  <2>5. Sound(v) /\ \A t \in Sims : Done(v, t)
    <3>1. \A t \in Sims : IF head.sim = t THEN ~head.ok => t \in v.unsaved
                          ELSE t \in wwan.unsaved => t \in v.unsaved
      BY <2>4
    <3>2. QED  BY <1>1, <1>2, <2>2, <2>3, <3>1, AnswerKeeps DEF head
  <2>6. \A t \in Sims : Linked(v, link, t)
    <3>1. SUFFICES ASSUME NEW t \in Sims PROVE Linked(v, link, t)
      OBVIOUS
    <3>2. v.answers = Tail(wwan.answers) /\ v.default = wwan.default
          /\ v.enabled = wwan.enabled /\ Linked(wwan, link, t)
      BY <1>1, <1>2, <2>2
    <3>3. IF Head(wwan.answers).sim = t THEN t \in v.unsaved \cup v.unlinked
          ELSE t \in wwan.unsaved \cup wwan.unlinked => t \in v.unsaved \cup v.unlinked
      BY <1>2, <2>2, <2>4 DEF head
    <3>4. QED  BY <1>1, <3>2, <3>3, LinkedTail
  <2>7. TypeOK'
    BY <1>1, <2>1, <2>2 DEF TypeOK
  <2>8. QED  BY <2>1, <2>5, <2>6, <2>7 DEF IInv
<1>9. QED  BY <1>7, <1>8

\* The SIMs among which cc_wwan_panel_update_data_connections takes the first
Best == LET on == {s \in Sims : IsEnabled(wwan, s)}
        IN  {s \in on : IsHigh(wwan, s) \/ \A t \in on : ~IsHigh(wwan, t)}

LEMMA ChosenIsBest ==
    ASSUME DataChanged, offered' # {}
    PROVE  chosen' \in Best
<1>1. /\ offered' = {s \in Sims : IsEnabled(wwan, s)}
      /\ Best = {s \in offered' : IsHigh(wwan, s) \/ \A t \in offered' : ~IsHigh(wwan, t)}
      /\ chosen' = CHOOSE s \in Best : \A t \in Best : s <= t
  BY DEF DataChanged, Best
<1>2. Best # {}
  BY <1>1
<1>3. Best \subseteq Nat
  BY <1>1, WwanAssumption DEF Sims
<1>4. \E m \in Best : \A n \in Best : ~ (<<n, m>> \in OpToRel(<, Nat))
  BY <1>2, <1>3, NatLessThanWellFounded, WFMin
<1>5. \A m, n \in Nat : ~ (<<n, m>> \in OpToRel(<, Nat)) => m <= n
  BY DEF OpToRel
<1>6. \E m \in Best : \A n \in Best : m <= n
  BY <1>3, <1>4, <1>5
<1>7. QED  BY <1>1, <1>6

LEMMA DataChangedKeeps ==
    ASSUME IInv, DataChanged
    PROVE  IInv'
<1>1. /\ wwan' = wwan /\ link' = link /\ steps' = steps /\ notify' = FALSE
      /\ offered' = {s \in Sims : IsEnabled(wwan, s)}
      /\ offered' = {} => chosen' = chosen
  BY DEF DataChanged
<1>2. chosen' \in Sims \cup {None}
  <2>1. Best \subseteq Sims
    BY DEF Best
  <2>2. QED  BY <1>1, <2>1, ChosenIsBest DEF IInv, TypeOK
<1>3. TypeOK'
  BY <1>1, <1>2 DEF IInv, TypeOK
<1>4. QED  BY <1>1, <1>3 DEF IInv, Linked

LEMMA StepCounts ==
    ASSUME steps \in 0..MaxSteps, Step
    PROVE  steps' \in 0..MaxSteps
  BY WwanAssumption DEF Step

LEMMA ChooseApnKeeps ==
    ASSUME IInv, NEW a \in Apns, NEW refused \in SUBSET Apns, ChooseApn(a, refused)
    PROVE  IInv'
<1> DEFINE s == SimOf[a]
           v == SetDefaultApn(wwan, a)
           q == SaveSettings(v, s, refused)
<1>1. /\ TypeOK /\ wwan \in Objects /\ Sound(wwan)
      /\ \A t \in Sims : Done(wwan, t) /\ Linked(wwan, link, t)
      /\ steps' \in 0..MaxSteps /\ wwan.default[s] # a /\ wwan' = q
      /\ link' = link /\ chosen' = chosen /\ offered' = offered /\ notify' = notify
  BY StepCounts DEF IInv, TypeOK, Sound, ChooseApn
<1>2. s \in Sims
  BY SimOfType
<1>3. /\ Sound(v) /\ \A t \in Sims \ {s} : Done(v, t)
      /\ v.default[s] # None
      /\ v.answers = wwan.answers /\ v.unsaved = wwan.unsaved /\ v.enabled = wwan.enabled
      /\ v.unlinked = wwan.unlinked
      /\ \A t \in Sims \ {s} : v.default[t] = wwan.default[t]
  BY <1>1, SetDefaultFacts
<1> HIDE DEF v, s
<1>4. Sound(q) /\ (\A t \in Sims : Done(q, t)) /\ Requested(q, v, s)
  BY <1>2, <1>3, SaveSettingsFacts
<1> HIDE DEF q
<1>5. \A t \in Sims : Linked(q, link, t)
  BY <1>1, <1>2, <1>3, <1>4, RequestLinks DEF Sound
<1>6. TypeOK'
  BY <1>1, <1>4 DEF TypeOK, Sound
<1>7. QED  BY <1>1, <1>4, <1>5, <1>6 DEF IInv

LEMMA EditApnKeeps ==
    ASSUME IInv, NEW a \in Apns, NEW refused \in SUBSET Apns, EditApn(a, refused)
    PROVE  IInv'
<1> DEFINE edited == Write(wwan, a, Connection(wwan, a))
           q == SaveApn(Marked(edited, a), a, None, refused)
<1>1. /\ TypeOK /\ wwan \in Objects /\ Sound(wwan)
      /\ \A t \in Sims : Done(wwan, t) /\ Linked(wwan, link, t)
      /\ steps' \in 0..MaxSteps
      /\ link' = link /\ chosen' = chosen /\ offered' = offered /\ notify' = notify
  BY StepCounts DEF IInv, TypeOK, Sound, EditApn
<1>2. wwan' = q
  BY DEF EditApn, Marked
<1>3. Sound(q) /\ (\A t \in Sims : Done(q, t)) /\ Requested(q, wwan, None)
  BY <1>1, EditFacts
<1> HIDE DEF q
<1>4. \A t \in Sims : Linked(q, link, t)
  BY <1>1, <1>3, RequestLinks
<1>5. TypeOK'
  BY <1>1, <1>2, <1>3 DEF TypeOK, Sound
<1>6. QED  BY <1>1, <1>2, <1>3, <1>4, <1>5 DEF IInv

LEMMA SwitchDataKeeps ==
    ASSUME IInv, NEW s \in Sims, NEW on \in BOOLEAN, NEW refused \in SUBSET Apns,
           SwitchData(s, on, refused)
    PROVE  IInv'
<1> DEFINE v == SetEnabled(wwan, s, on)
           q == SaveSettings(v, s, refused)
<1>1. /\ TypeOK /\ wwan \in Objects /\ Sound(wwan)
      /\ \A t \in Sims : Done(wwan, t) /\ Linked(wwan, link, t)
      /\ steps' \in 0..MaxSteps /\ wwan.default[s] # None /\ wwan' = q
      /\ link' = link /\ chosen' = chosen /\ offered' = offered /\ notify' = notify
  BY StepCounts DEF IInv, TypeOK, Sound, SwitchData
<1>2. /\ Sound(v) /\ \A t \in Sims \ {s} : Done(v, t)
      /\ v.default = wwan.default /\ v.answers = wwan.answers /\ v.unsaved = wwan.unsaved
      /\ v.unlinked = wwan.unlinked
      /\ \A t \in Sims \ {s} : v.enabled[t] = wwan.enabled[t]
  BY <1>1, SetEnabledFacts
<1> HIDE DEF v
<1>3. Sound(q) /\ (\A t \in Sims : Done(q, t)) /\ Requested(q, v, s)
  BY <1>1, <1>2, SaveSettingsFacts
<1> HIDE DEF q
<1>4. \A t \in Sims : Linked(q, link, t)
  BY <1>1, <1>2, <1>3, RequestLinks DEF Sound
<1>5. TypeOK'
  BY <1>1, <1>3 DEF TypeOK, Sound
<1>6. QED  BY <1>1, <1>3, <1>4, <1>5 DEF IInv

\* A SIM's priority is changed and saved.
LEMMA PriorityFacts ==
    ASSUME NEW w, Sound(w), NEW l, \A t \in Sims : Done(w, t) /\ Linked(w, l, t),
           NEW s \in Sims, NEW high \in BOOLEAN, NEW refused \in SUBSET Apns
    PROVE  LET q == SaveSettings(SetPriority(w, s, high), s, refused)
           IN  /\ Sound(q) /\ \A t \in Sims : Done(q, t) /\ Linked(q, l, t)
               /\ q.high = [w.high EXCEPT ![s] = high] /\ q.default = w.default
<1> DEFINE v == SetPriority(w, s, high)
           q == SaveSettings(v, s, refused)
<1>1. /\ Sound(v) /\ \A t \in Sims \ {s} : Done(v, t)
      /\ v.default[s] = None => Done(v, s)
      /\ v.default = w.default /\ v.answers = w.answers /\ v.unsaved = w.unsaved
      /\ v.enabled = w.enabled /\ v.high = [w.high EXCEPT ![s] = high]
      /\ v.unlinked = w.unlinked
  BY SetPriorityFacts
<1> HIDE DEF v
<1>2. /\ Sound(q) /\ \A t \in Sims : Done(q, t)
      /\ Requested(q, v, s) \/ (q = v /\ v.default[s] = None)
  BY <1>1, SaveFacts
<1> HIDE DEF q
<1>3. \A t \in Sims : Linked(q, l, t)
  <2>1. CASE Requested(q, v, s)
    BY <1>1, <2>1, RequestLinks DEF Sound
  <2>2. CASE q = v
    BY <1>1, <2>2 DEF Linked
  <2>3. QED  BY <1>2, <2>1, <2>2
<1>4. q.high = v.high /\ q.default = v.default
  BY <1>2 DEF Requested
<1>5. QED  BY <1>1, <1>2, <1>3, <1>4 DEF q, v

LEMMA ChooseSimKeeps ==
    ASSUME IInv, NEW s \in Sims, NEW refused \in SUBSET Apns, ChooseSim(s, refused)
    PROVE  IInv'
<1> DEFINE v == SaveSettings(SetPriority(wwan, chosen, FALSE), chosen, refused)
           q == SaveSettings(SetPriority(v, s, TRUE), s, refused)
<1>1. /\ TypeOK /\ wwan \in Objects /\ Sound(wwan)
      /\ \A t \in Sims : Done(wwan, t) /\ Linked(wwan, link, t)
      /\ steps' \in 0..MaxSteps /\ wwan' = q /\ chosen \in Sims
      /\ link' = link /\ chosen' = s /\ offered' = offered /\ notify' = notify
  BY StepCounts DEF IInv, TypeOK, Sound, ChooseSim
<1>2. Sound(v) /\ \A t \in Sims : Done(v, t) /\ Linked(v, link, t)
  BY <1>1, PriorityFacts
<1> HIDE DEF v
<1>3. Sound(q) /\ \A t \in Sims : Done(q, t) /\ Linked(q, link, t)
  BY <1>2, PriorityFacts
<1> HIDE DEF q
<1>4. TypeOK'
  BY <1>1, <1>3 DEF TypeOK, Sound
<1>5. QED  BY <1>1, <1>3, <1>4 DEF IInv

LEMMA NextKeepsIInv ==
    IInv /\ [Next]_vars => IInv'
<1> SUFFICES ASSUME IInv, [Next]_vars PROVE IInv'
  OBVIOUS
<1>1. ASSUME NEW refused \in SUBSET Apns, NEW a \in Apns, ChooseApn(a, refused)
      PROVE  IInv'
  BY <1>1, ChooseApnKeeps
<1>2. ASSUME NEW refused \in SUBSET Apns, NEW a \in Apns, EditApn(a, refused)
      PROVE  IInv'
  BY <1>2, EditApnKeeps
<1>3. ASSUME NEW refused \in SUBSET Apns, NEW s \in Sims, NEW on \in BOOLEAN,
             SwitchData(s, on, refused)
      PROVE  IInv'
  BY <1>3, SwitchDataKeeps
<1>4. ASSUME NEW refused \in SUBSET Apns, NEW s \in Sims, ChooseSim(s, refused)
      PROVE  IInv'
  BY <1>4, ChooseSimKeeps
<1>5. CASE Answered
  BY <1>5, AnsweredKeeps
<1>6. CASE DataChanged
  BY <1>6, DataChangedKeeps
<1>7. CASE UNCHANGED vars
  BY <1>7 DEF vars, IInv, TypeOK, Linked
<1>8. QED  BY <1>1, <1>2, <1>3, <1>4, <1>5, <1>6, <1>7 DEF Next

------------------------------------------------------------------------------
(* What belongs to a SIM *)

\* A connection that is neither the default of its SIM nor in kept nor one of X does not belong
\* to the SIM: not as NetworkManager stores it, not as it will be committed, not as it will be
\* added.
Loose(w, a) ==
    /\ a \in w.stored => "sim-id" \notin w.flags[a]
    /\ a \in w.remote => "sim-id" \notin w.local[a]
    /\ a \notin w.stored => "sim-id" \notin w.own[a]

Tied(w, X) ==
    /\ w.remote \subseteq w.stored
    /\ \A i \in 1..Len(w.answers) :
        w.answers[i].add /\ w.answers[i].ok => w.answers[i].apn \in w.stored
    /\ \A a \in Apns \ X : a # w.default[SimOf[a]] /\ a \notin w.kept => Loose(w, a)

\* What belongs to a SIM does not depend on the rest.
LEMMA TiedSame ==
    ASSUME NEW w, NEW X, Tied(w, X), NEW v,
           v.stored = w.stored, v.flags = w.flags, v.remote = w.remote, v.local = w.local,
           v.own = w.own, v.answers = w.answers, v.default = w.default, v.kept = w.kept
    PROVE  Tied(v, X)
  BY DEF Tied, Loose

LEMMA WriteTies ==
    ASSUME NEW w \in Objects, NEW X, Tied(w, X), NEW a \in Apns, NEW f \in SUBSET Flags,
           \/ a \in X \/ a = w.default[SimOf[a]]
           \/ "sim-id" \in f => "sim-id" \in Connection(w, a)
    PROVE  LET q == Write(w, a, f)
           IN  Tied(q, X) /\ q.kept = w.kept
<1>1. CASE a \in w.owned \/ a \notin w.remote
  <2> DEFINE q == [w EXCEPT !.own[a] = f, !.owned = @ \cup {a}]
  <2>1. Write(w, a, f) = q /\ Connection(w, a) = w.own[a]
    BY <1>1 DEF Write, Connection
  <2>2. /\ q.stored = w.stored /\ q.flags = w.flags /\ q.remote = w.remote
        /\ q.local = w.local /\ q.answers = w.answers /\ q.default = w.default
        /\ q.kept = w.kept /\ q.own = [w.own EXCEPT ![a] = f]
        /\ w.own \in [Apns -> SUBSET Flags]
    BY DEF Objects
  <2> HIDE DEF q
  <2>3. \A b \in Apns : q.own[b] = IF b = a THEN f ELSE w.own[b]
    BY <2>2
  <2>4. ASSUME NEW b \in Apns \ X, b # q.default[SimOf[b]], b \notin q.kept
        PROVE  Loose(q, b)
    <3>1. Loose(w, b)
      BY <2>2, <2>4 DEF Tied
    <3>2. QED  BY <2>1, <2>2, <2>3, <2>4, <3>1 DEF Loose
  <2>5. QED  BY <2>1, <2>2, <2>4 DEF Tied
<1>2. CASE ~(a \in w.owned \/ a \notin w.remote)
  <2> DEFINE q == [w EXCEPT !.local[a] = f]
  <2>1. Write(w, a, f) = q /\ Connection(w, a) = w.local[a] /\ a \in w.remote
    BY <1>2 DEF Write, Connection
  <2>2. /\ q.stored = w.stored /\ q.flags = w.flags /\ q.remote = w.remote
        /\ q.own = w.own /\ q.answers = w.answers /\ q.default = w.default
        /\ q.kept = w.kept /\ q.local = [w.local EXCEPT ![a] = f]
        /\ w.local \in [Apns -> SUBSET Flags]
    BY DEF Objects
  <2> HIDE DEF q
  <2>3. \A b \in Apns : q.local[b] = IF b = a THEN f ELSE w.local[b]
    BY <2>2
  <2>4. ASSUME NEW b \in Apns \ X, b # q.default[SimOf[b]], b \notin q.kept
        PROVE  Loose(q, b)
    <3>1. Loose(w, b)
      BY <2>2, <2>4 DEF Tied
    <3>2. QED  BY <2>1, <2>2, <2>3, <2>4, <3>1 DEF Loose
  <2>5. QED  BY <2>1, <2>2, <2>4 DEF Tied
<1>3. QED  BY <1>1, <1>2

LEMMA UpdateTies ==
    ASSUME NEW w \in Objects, NEW X, Tied(w, X), NEW a \in Apns
    PROVE  Tied(UpdateApn(w, a), X)
<1> DEFINE s == SimOf[a]
           f == (Connection(w, a) \cap {"sim-id"})
                    \cup (IF w.enabled[s] THEN {"autoconnect"} ELSE {})
                    \cup (IF w.high[s] /\ w.default[s] = a THEN {"high"} ELSE {})
<1>1. UpdateApn(w, a) = Write(w, a, f)
  BY DEF UpdateApn
<1>2. f \in SUBSET Flags /\ ("sim-id" \in f => "sim-id" \in Connection(w, a))
  BY DEF Flags
<1> HIDE DEF f
<1>3. QED  BY <1>1, <1>2, WriteTies

\* cc_wwan_data_save_apn stores what the connection has.
LEMMA SaveTies ==
    ASSUME NEW w \in Objects, NEW X, Tied(w, X), NEW a \in Apns, NEW refused, NEW sim
    PROVE  Tied(SaveApn(w, a, sim, refused), X)
<1> DEFINE u == UpdateApn(w, a)
           ok == a \notin refused /\ (a \in u.remote \/ a \notin u.stored)
           answer == [apn |-> a, add |-> a \notin u.remote, ok |-> ok, sim |-> sim]
           none == [answer EXCEPT !.add = FALSE, !.ok = TRUE]
           sent == [u EXCEPT !.answers = Append(@, answer)]
           asked == [w EXCEPT !.answers = Append(@, none)]
           f == IF a \in u.remote THEN u.local[a] ELSE u.own[a]
           stored == [sent EXCEPT !.stored = @ \cup {a}, !.flags[a] = f]
           q == SaveApn(w, a, sim, refused)
<1>1. /\ a \in w.remote \ w.modified => q = asked
      /\ a \notin w.remote \ w.modified => q = IF ~ok THEN sent ELSE stored
  BY DEF SaveApn
<1>2. u \in Objects /\ Tied(u, X)
  BY UpdateFacts, UpdateTies
<1> HIDE DEF u
<1>3. /\ answer.apn = a /\ (answer.add <=> a \notin u.remote) /\ (answer.ok <=> ok)
      /\ ~none.add
  OBVIOUS
<1> HIDE DEF ok, answer, none, q
<1>4. ASSUME NEW v \in Objects, Tied(v, X), NEW new, NEW x, x.answers = Append(v.answers, new),
             v.stored \subseteq x.stored, new.add /\ new.ok => new.apn \in x.stored
      PROVE  \A i \in 1..Len(x.answers) :
                x.answers[i].add /\ x.answers[i].ok => x.answers[i].apn \in x.stored
  <2>1. v.answers \in Seq(Answers)
    BY DEF Objects
  <2> DEFINE n == Len(v.answers)
  <2>2. /\ n \in Nat /\ Len(x.answers) = n + 1
        /\ \A i \in 1..n : x.answers[i] = v.answers[i]
        /\ x.answers[n + 1] = new
    BY <1>4, <2>1
  <2>3. SUFFICES ASSUME NEW i \in 1..Len(x.answers), x.answers[i].add, x.answers[i].ok
                 PROVE  x.answers[i].apn \in x.stored
    OBVIOUS
  <2>4. i \in 1..n \/ i = n + 1
    BY <2>2
  <2>5. QED  BY <1>4, <2>2, <2>3, <2>4 DEF Tied
<1>5. CASE q = asked
  <2>1. /\ asked.answers = Append(w.answers, none)
        /\ asked.stored = w.stored /\ asked.flags = w.flags /\ asked.remote = w.remote
        /\ asked.local = w.local /\ asked.own = w.own /\ asked.default = w.default
        /\ asked.kept = w.kept
    BY DEF Objects
  <2> HIDE DEF asked
  <2>2. \A i \in 1..Len(asked.answers) : asked.answers[i].add /\ asked.answers[i].ok
            => asked.answers[i].apn \in asked.stored
    BY <1>3, <1>4, <2>1
  <2>3. Tied(asked, X)
    BY <2>1, <2>2 DEF Tied, Loose
  <2>4. QED  BY <1>5, <2>3 DEF q
<1>6. /\ sent.answers = Append(u.answers, answer)
      /\ sent.stored = u.stored /\ sent.flags = u.flags /\ sent.remote = u.remote
      /\ sent.local = u.local /\ sent.own = u.own /\ sent.default = u.default
      /\ sent.kept = u.kept
  BY <1>2 DEF Objects
<1>7. CASE ~ok /\ q = sent
  <2> HIDE DEF sent
  <2>1. \A i \in 1..Len(sent.answers) : sent.answers[i].add /\ sent.answers[i].ok
            => sent.answers[i].apn \in sent.stored
    BY <1>2, <1>3, <1>4, <1>6, <1>7
  <2>2. Tied(sent, X)
    BY <1>2, <1>6, <2>1 DEF Tied, Loose
  <2>3. QED  BY <1>7, <2>2 DEF q
<1>8. CASE ok /\ q = stored
  <2>1. /\ stored.answers = sent.answers /\ stored.remote = sent.remote
        /\ stored.local = sent.local /\ stored.own = sent.own
        /\ stored.default = sent.default /\ stored.kept = sent.kept
        /\ stored.stored = sent.stored \cup {a}
        /\ stored.flags = [sent.flags EXCEPT ![a] = f]
    BY <1>2 DEF Objects
  <2> HIDE DEF sent, stored, f
  <2>2. u.flags \in [Apns -> SUBSET Flags]
    BY <1>2 DEF Objects
  <2>3. \A b \in Apns : stored.flags[b] = IF b = a THEN f ELSE u.flags[b]
    BY <1>6, <2>1, <2>2
  <2>4. \A i \in 1..Len(stored.answers) : stored.answers[i].add /\ stored.answers[i].ok
            => stored.answers[i].apn \in stored.stored
    <3>1. /\ stored.answers = Append(u.answers, answer) /\ u.stored \subseteq stored.stored
          /\ answer.apn \in stored.stored
      BY <1>3, <1>6, <2>1
    <3>2. QED  BY <1>2, <1>4, <3>1
  <2>5. ASSUME NEW b \in Apns \ X, b # stored.default[SimOf[b]], b \notin stored.kept
        PROVE  Loose(stored, b)
    <3>1. Loose(u, b)
      BY <1>2, <1>6, <2>1, <2>5 DEF Tied
    <3>2. CASE b # a
      BY <1>6, <2>1, <2>3, <3>1, <3>2 DEF Loose
    <3>3. CASE b = a
      <4>1. a \in u.remote \/ a \notin u.stored
        BY <1>8 DEF ok
      <4>2. "sim-id" \notin f
        BY <3>1, <3>3, <4>1 DEF Loose, f
      <4>3. QED  BY <1>6, <2>1, <2>3, <3>1, <3>3, <4>2 DEF Loose
    <3>4. QED  BY <3>2, <3>3
  <2>6. stored.remote \subseteq stored.stored
    BY <1>2, <1>6, <2>1 DEF Tied
  <2>7. Tied(stored, X)
    BY <2>4, <2>5, <2>6 DEF Tied
  <2>8. QED  BY <1>8, <2>7 DEF q
<1>9. QED  BY <1>1, <1>5, <1>7, <1>8

\* The default of before is reset, or is in kept.
LEMMA ResetTies ==
    ASSUME NEW w \in Objects, NEW s \in Sims, NEW refused, Tied(w, {w.old[s]})
    PROVE  Tied(ResetOld(w, s, refused), {})
<1> DEFINE a == w.old[s]
<1>1. CASE a = None
  BY <1>1, StoredFacts DEF ResetOld, Tied
<1>2. CASE a # None /\ a \notin w.remote
  <2> DEFINE q == [w EXCEPT !.kept = @ \cup {a}]
  <2>1. ResetOld(w, s, refused) = q
    BY <1>2 DEF ResetOld
  <2>2. /\ q.stored = w.stored /\ q.flags = w.flags /\ q.remote = w.remote
        /\ q.local = w.local /\ q.own = w.own /\ q.answers = w.answers
        /\ q.default = w.default /\ q.kept = w.kept \cup {a}
    BY DEF Objects
  <2> HIDE DEF q
  <2>3. QED  BY <2>1, <2>2 DEF Tied, Loose
<1>3. CASE a # None /\ a \in w.remote
  <2> DEFINE f == IF a \in refused THEN w.flags[a] ELSE {}
             k == IF a \in refused THEN w.kept \cup {a} ELSE w.kept \ {a}
             q == [w EXCEPT !.local[a] = {}, !.flags[a] = f, !.kept = k,
                            !.modified = @ \ {a}, !.old[s] = None]
  <2>1. a \in Apns
    BY <1>3 DEF Objects
  <2>2. ResetOld(w, s, refused) = q
    BY <1>3, <2>1 DEF ResetOld, Objects
  <2>3. w.local \in [Apns -> SUBSET Flags] /\ w.flags \in [Apns -> SUBSET Flags]
    BY DEF Objects
  <2> HIDE DEF f, k
  <2>4. /\ q.stored = w.stored /\ q.remote = w.remote /\ q.own = w.own
        /\ q.answers = w.answers /\ q.default = w.default /\ q.kept = k
        /\ q.local = [w.local EXCEPT ![a] = {}]
        /\ q.flags = [w.flags EXCEPT ![a] = f]
    BY DEF Objects
  <2> HIDE DEF q
  <2>5. \A b \in Apns : /\ q.local[b] = IF b = a THEN {} ELSE w.local[b]
                        /\ q.flags[b] = IF b = a THEN f ELSE w.flags[b]
    BY <2>3, <2>4
  <2>6. ASSUME NEW b \in Apns, b # q.default[SimOf[b]], b \notin q.kept
        PROVE  Loose(q, b)
    <3>1. CASE b = a
      <4>1. a \in w.stored
        BY <1>3 DEF Tied
      <4>2. f = {}
        BY <2>4, <2>6, <3>1 DEF f, k
      <4>3. QED  BY <2>1, <2>4, <2>5, <3>1, <4>1, <4>2 DEF Loose
    <3>2. CASE b # a
      <4>1. Loose(w, b)
        BY <2>4, <2>6, <3>2 DEF Tied, k
      <4>2. QED  BY <2>4, <2>5, <3>2, <4>1 DEF Loose
    <3>3. QED  BY <3>1, <3>2
  <2>7. QED  BY <2>2, <2>4, <2>6 DEF Tied
<1>4. QED  BY <1>1, <1>2, <1>3

\* cc_wwan_data_save_settings leaves no other connection of the SIM.
LEMMA SettingsTies ==
    ASSUME NEW w, Sound(w), NEW s \in Sims, NEW refused \in SUBSET Apns,
           w.default[s] # None, Tied(w, {w.old[s]})
    PROVE  Tied(SaveSettings(w, s, refused), {})
<1> DEFINE a == w.default[s]
           x == ResetOld(w, s, refused)
           r == Marked(x, a)
           f == Connection(r, a) \cup {"sim-id"}
           y == Write(r, a, f)
<1>1. SaveSettings(w, s, refused) = SaveApn(y, a, s, refused)
  BY DEF SaveSettings, Marked
<1>2. w \in Objects /\ a \in Apns /\ SimOf[a] = s
  BY DEF Sound, Base, Objects
<1>3. x \in Objects /\ x.default = w.default /\ Tied(x, {})
  BY <1>2, ResetFacts, ResetTies
<1> HIDE DEF x
<1>4. r \in Objects /\ r.default = w.default /\ Tied(r, {})
  <2>1. r \in Objects
    BY <1>2, <1>3, MarkedFacts
  <2>2. /\ r.stored = x.stored /\ r.flags = x.flags /\ r.remote = x.remote
        /\ r.local = x.local /\ r.own = x.own /\ r.answers = x.answers
        /\ r.default = x.default /\ r.kept = x.kept
    BY <1>3 DEF Marked, Objects
  <2>3. QED  BY <1>3, <2>1, <2>2, TiedSame
<1> HIDE DEF r
<1>5. f \in SUBSET Flags
  BY <1>2, <1>4, ConnectionType DEF Flags
<1> HIDE DEF f
<1>6. y \in Objects /\ Tied(y, {})
  BY <1>2, <1>4, <1>5, WriteFacts, WriteTies
<1> HIDE DEF y
<1>7. QED  BY <1>1, <1>2, <1>6, SaveTies

\* cc_wwan_data_set_default_apn leaves two, until the settings are saved.
LEMMA SetDefaultTies ==
    ASSUME NEW w, Sound(w), Tied(w, {}), NEW a \in Apns
    PROVE  LET v == SetDefaultApn(w, a)
           IN  Tied(v, {v.old[SimOf[a]]})
<1> DEFINE s == SimOf[a]
           d == [w EXCEPT !.modified = @ \cup {a}, !.old[s] = w.default[s], !.default[s] = a]
           f == Connection(d, a) \cup {"sim-id"}
           v == Write(d, a, f)
           o == w.default[s]
<1>1. SetDefaultApn(w, a) = v
  BY DEF SetDefaultApn
<1>2. w \in Objects /\ s \in Sims
  BY SimOfType DEF Sound
<1>3. w.default \in [Sims -> Apns \cup {None}] /\ w.old \in [Sims -> Apns \cup {None}]
  BY <1>2 DEF Objects
<1>4. /\ d \in Objects
      /\ d.stored = w.stored /\ d.flags = w.flags /\ d.remote = w.remote
      /\ d.local = w.local /\ d.own = w.own /\ d.answers = w.answers /\ d.kept = w.kept
      /\ d.default = [w.default EXCEPT ![s] = a]
      /\ d.old = [w.old EXCEPT ![s] = w.default[s]]
  BY <1>2, <1>3 DEF Objects
<1> HIDE DEF d
<1>5. d.default[s] = a /\ d.old[s] = o /\ \A t \in Sims \ {s} : d.default[t] = w.default[t]
  BY <1>2, <1>3, <1>4
<1>6. Tied(d, {o})
  <2>1. ASSUME NEW b \in Apns \ {o}, b # d.default[SimOf[b]], b \notin d.kept
        PROVE  Loose(d, b)
    <3>1. b # w.default[SimOf[b]]
      BY <1>5, <2>1, SimOfType
    <3>2. Loose(w, b)
      BY <1>4, <2>1, <3>1 DEF Tied
    <3>3. QED  BY <1>4, <3>2 DEF Loose
  <2>2. QED  BY <1>4, <2>1 DEF Tied
<1>7. f \in SUBSET Flags
  BY <1>4, ConnectionType DEF Flags
<1> HIDE DEF f, o
<1>8. a = d.default[SimOf[a]]
  BY <1>5
<1>9. Tied(v, {o}) /\ v.old = d.old
  <2>1. Tied(v, {o})
    BY <1>4, <1>6, <1>7, <1>8, WriteTies
  <2>2. Same(v, d)
    BY <1>4, <1>7, WriteFacts
  <2>3. QED  BY <2>1, <2>2 DEF Same
<1> HIDE DEF v
<1>10. QED  BY <1>1, <1>5, <1>9

LEMMA SettersTie ==
    ASSUME NEW w \in Objects, NEW X, Tied(w, X), NEW s \in Sims, NEW on \in BOOLEAN
    PROVE  /\ Tied(SetEnabled(w, s, on), X)
           /\ Tied(SetPriority(w, s, on), X)
<1> DEFINE m == IF w.default[s] = None THEN w.modified ELSE w.modified \cup {w.default[s]}
           v == [w EXCEPT !.modified = m, !.enabled[s] = on]
           p == [w EXCEPT !.modified = m, !.high[s] = on]
<1>1. /\ SetEnabled(w, s, on) = v
      /\ SetPriority(w, s, on) = w \/ SetPriority(w, s, on) = p
  BY DEF SetEnabled, SetPriority, Modify, Objects
<1> HIDE DEF m
<1>2. Tied(v, X)
  <2>1. /\ v.stored = w.stored /\ v.flags = w.flags /\ v.remote = w.remote
        /\ v.local = w.local /\ v.own = w.own /\ v.answers = w.answers
        /\ v.default = w.default /\ v.kept = w.kept
    BY DEF Objects
  <2> HIDE DEF v
  <2>2. QED  BY <2>1, TiedSame
<1>3. Tied(p, X)
  <2>1. /\ p.stored = w.stored /\ p.flags = w.flags /\ p.remote = w.remote
        /\ p.local = w.local /\ p.own = w.own /\ p.answers = w.answers
        /\ p.default = w.default /\ p.kept = w.kept
    BY DEF Objects
  <2> HIDE DEF p
  <2>2. QED  BY <2>1, TiedSame
<1>4. QED  BY <1>1, <1>2, <1>3

\* A save of a SIM's settings after no new choice of an APN
LEMMA SavesTie ==
    ASSUME NEW w, Sound(w), NEW s \in Sims, NEW refused \in SUBSET Apns, Tied(w, {})
    PROVE  Tied(SaveSettings(w, s, refused), {})
<1>1. Tied(w, {w.old[s]})
  BY DEF Tied
<1>2. CASE w.default[s] = None
  BY <1>2 DEF SaveSettings
<1>3. CASE w.default[s] # None
  BY <1>1, <1>3, SettingsTies
<1>4. QED  BY <1>2, <1>3

\* An answer adds no connection that is not stored.
LEMMA AnsweredTies ==
    ASSUME IInv, Tied(wwan, {}), Answered
    PROVE  Tied(wwan', {})
<1> DEFINE head == Head(wwan.answers)
           a == head.apn
           m == IF head.ok THEN wwan.modified \ {a} ELSE wwan.modified
           x == [wwan EXCEPT !.answers = Tail(@), !.modified = m]
           added == [x EXCEPT !.remote = @ \cup {a}, !.local[a] = wwan.flags[a]]
           failed == [x EXCEPT !.remote = @ \ {a}]
           q == Received(wwan, head)
<1>1. wwan \in Objects /\ wwan.answers # <<>>
  BY DEF IInv, Sound, Answered
<1>2. /\ head = wwan.answers[1] /\ head \in Answers /\ 1 \in 1..Len(wwan.answers)
  BY <1>1, TailFacts
<1>3. /\ a \in Apns /\ head.add \in BOOLEAN /\ head.ok \in BOOLEAN
      /\ head.add /\ head.ok => a \in wwan.stored
  BY <1>2 DEF Answers, Tied
<1>4. x = [wwan EXCEPT !.answers = Tail(@), !.modified = IF head.ok THEN @ \ {a} ELSE @]
  BY <1>1 DEF Objects
<1>5. q \in Objects
  BY <1>1, ReceivedFacts DEF IInv
<1> HIDE DEF m
<1>6. /\ x.stored = wwan.stored /\ x.flags = wwan.flags /\ x.remote = wwan.remote
      /\ x.local = wwan.local /\ x.own = wwan.own /\ x.answers = Tail(wwan.answers)
      /\ x.default = wwan.default /\ x.kept = wwan.kept
      /\ x = [x EXCEPT !.remote = @]
  BY <1>1 DEF Objects
<1>7. \/ head.add /\ head.ok /\ q = added
      \/ q = failed \/ q = x
  BY <1>3, <1>4 DEF Received
<1>8. Tied(x, {})
  <2>1. \A i \in 1..Len(x.answers) :
            x.answers[i].add /\ x.answers[i].ok => x.answers[i].apn \in x.stored
    <3> DEFINE n == Len(wwan.answers)
    <3>1. /\ n \in Nat /\ Len(x.answers) = n - 1
          /\ \A i \in 1..(n - 1) : i + 1 \in 1..n /\ x.answers[i] = wwan.answers[i + 1]
      BY <1>1, <1>6, TailFacts
    <3>2. QED  BY <1>6, <3>1 DEF Tied
  <2>2. QED  BY <1>6, <2>1 DEF Tied, Loose
<1>9. Tied(q, {})
  <2>1. CASE q = x
    BY <1>8, <2>1
  <2>2. CASE q = failed
    <3>1. /\ failed.stored = x.stored /\ failed.flags = x.flags
          /\ failed.remote = x.remote \ {a} /\ failed.local = x.local
          /\ failed.own = x.own /\ failed.answers = x.answers
          /\ failed.default = x.default /\ failed.kept = x.kept
      BY <1>1 DEF Objects
    <3> HIDE DEF failed, x
    <3>2. Tied(failed, {})
      BY <1>8, <3>1 DEF Tied, Loose
    <3>3. QED  BY <2>2, <3>2
  <2>3. CASE head.add /\ head.ok /\ q = added
    <3>1. /\ added.stored = x.stored /\ added.flags = x.flags
          /\ added.remote = x.remote \cup {a}
          /\ added.local = [x.local EXCEPT ![a] = wwan.flags[a]]
          /\ added.own = x.own /\ added.answers = x.answers
          /\ added.default = x.default /\ added.kept = x.kept
      BY <1>1 DEF Objects
    <3>2. wwan.local \in [Apns -> SUBSET Flags]
      BY <1>1 DEF Objects
    <3> HIDE DEF added, x
    <3>3. \A b \in Apns : added.local[b] = IF b = a THEN wwan.flags[a] ELSE x.local[b]
      BY <1>6, <3>1, <3>2
    <3>4. a \in x.stored
      BY <1>3, <1>6, <2>3
    <3>5. ASSUME NEW b \in Apns, b # added.default[SimOf[b]], b \notin added.kept
          PROVE  Loose(added, b)
      <4>1. Loose(x, b)
        BY <1>8, <3>1, <3>5 DEF Tied
      <4>2. QED  BY <1>6, <3>1, <3>3, <3>4, <4>1 DEF Loose
    <3>6. Tied(added, {})
      BY <1>8, <3>1, <3>4, <3>5 DEF Tied
    <3>7. QED  BY <2>3, <3>6
  <2>4. QED  BY <1>7, <2>1, <2>2, <2>3
<1> HIDE DEF q, head
<1>10. /\ wwan'.stored = q.stored /\ wwan'.flags = q.flags /\ wwan'.remote = q.remote
       /\ wwan'.local = q.local /\ wwan'.own = q.own /\ wwan'.answers = q.answers
       /\ wwan'.default = q.default /\ wwan'.kept = q.kept
  <2>1. \/ SettingsSaved(q, head)
        \/ wwan' = [q EXCEPT !.unsaved = @ \cup ({head.sim} \ {None})]
    BY DEF Answered, q, head
  <2>2. QED  BY <1>5, <2>1 DEF SettingsSaved, Objects
<1>11. QED  BY <1>9, <1>10, TiedSame

LEMMA NextKeepsTied ==
    IInv /\ Tied(wwan, {}) /\ [Next]_vars => Tied(wwan', {})
<1> SUFFICES ASSUME IInv, Tied(wwan, {}), [Next]_vars PROVE Tied(wwan', {})
  OBVIOUS
<1>1. wwan \in Objects /\ Sound(wwan) /\ \A t \in Sims : Done(wwan, t) /\ Linked(wwan, link, t)
  BY DEF IInv, Sound
<1>2. ASSUME NEW refused \in SUBSET Apns, NEW a \in Apns, ChooseApn(a, refused)
      PROVE  Tied(wwan', {})
  <2> DEFINE s == SimOf[a]
             v == SetDefaultApn(wwan, a)
  <2>1. wwan' = SaveSettings(v, s, refused) /\ wwan.default[s] # a /\ s \in Sims
    BY <1>2, SimOfType DEF ChooseApn
  <2>2. Sound(v) /\ v.default[s] # None
    BY <1>1, <2>1, SetDefaultFacts
  <2>3. Tied(v, {v.old[s]})
    BY <1>1, SetDefaultTies
  <2> HIDE DEF v, s
  <2>4. QED  BY <1>2, <2>1, <2>2, <2>3, SettingsTies
<1>3. ASSUME NEW refused \in SUBSET Apns, NEW a \in Apns, EditApn(a, refused)
      PROVE  Tied(wwan', {})
  <2> DEFINE f == Connection(wwan, a)
             edited == Write(wwan, a, f)
             y == Marked(edited, a)
  <2>1. wwan' = SaveApn(y, a, None, refused)
    BY <1>3 DEF EditApn, Marked
  <2>2. f \in SUBSET Flags
    BY <1>1, ConnectionType
  <2>3. edited \in Objects /\ Tied(edited, {})
    BY <1>1, <2>2, WriteFacts, WriteTies
  <2> HIDE DEF edited
  <2>4. y \in Objects
    BY <2>3, MarkedFacts
  <2>5. /\ y.stored = edited.stored /\ y.flags = edited.flags /\ y.remote = edited.remote
        /\ y.local = edited.local /\ y.own = edited.own /\ y.answers = edited.answers
        /\ y.default = edited.default /\ y.kept = edited.kept
    BY <2>3 DEF Marked, Objects
  <2> HIDE DEF y
  <2>6. Tied(y, {})
    BY <2>3, <2>5, TiedSame
  <2>7. QED  BY <2>1, <2>4, <2>6, SaveTies
<1>4. ASSUME NEW refused \in SUBSET Apns, NEW s \in Sims, NEW on \in BOOLEAN,
             SwitchData(s, on, refused)
      PROVE  Tied(wwan', {})
  <2> DEFINE v == SetEnabled(wwan, s, on)
  <2>1. wwan' = SaveSettings(v, s, refused)
    BY <1>4 DEF SwitchData
  <2>2. Sound(v) /\ Tied(v, {})
    BY <1>1, SetEnabledFacts, SettersTie
  <2> HIDE DEF v
  <2>3. QED  BY <2>1, <2>2, SavesTie
<1>5. ASSUME NEW refused \in SUBSET Apns, NEW s \in Sims, ChooseSim(s, refused)
      PROVE  Tied(wwan', {})
  <2> DEFINE x == SetPriority(wwan, chosen, FALSE)
             v == SaveSettings(x, chosen, refused)
             y == SetPriority(v, s, TRUE)
  <2>1. wwan' = SaveSettings(y, s, refused) /\ chosen \in Sims
    BY <1>5 DEF ChooseSim, IInv, TypeOK
  <2>2. Sound(x) /\ Tied(x, {})
    BY <1>1, <2>1, SetPriorityFacts, SettersTie
  <2>3. Tied(v, {})
    BY <2>1, <2>2, SavesTie
  <2>4. Sound(v) /\ \A t \in Sims : Done(v, t)
    BY <1>1, <2>1, PriorityFacts
  <2> HIDE DEF v
  <2>5. Sound(y) /\ Tied(y, {})
    BY <2>3, <2>4, SetPriorityFacts, SettersTie DEF Sound
  <2> HIDE DEF y
  <2>6. QED  BY <2>1, <2>5, SavesTie
<1>6. CASE Answered
  BY <1>6, AnsweredTies
<1>7. CASE DataChanged
  BY <1>7 DEF DataChanged
<1>8. CASE UNCHANGED vars
  BY <1>8 DEF vars
<1>9. QED  BY <1>2, <1>3, <1>4, <1>5, <1>6, <1>7, <1>8 DEF Next

------------------------------------------------------------------------------
(* The theorems *)

\* The page finds the connection it left.
LEMMA InitIInv ==
    ASSUME Init
    PROVE  /\ IInv /\ Tied(wwan, {})
           /\ wwan.local \in Starts
           /\ \A s \in Sims : wwan.high[s] => wwan.default[s] \in Stored
<1>1. PICK start \in Starts, default \in [Sims -> Apns \cup {None}] :
        LET bound(s) == {a \in ApnsOf(s) \cap Stored : "sim-id" \in start[a]}
        IN  /\ \A s \in Sims :
                default[s] = IF bound(s) = {} THEN None
                             ELSE CHOOSE a \in bound(s) : \A b \in bound(s) : a <= b
            /\ wwan = [stored |-> Stored, flags |-> start, remote |-> Stored, local |-> start,
                       owned |-> {}, own |-> [a \in Apns |-> {}], modified |-> {},
                       default |-> default, old |-> [s \in Sims |-> None],
                       enabled |-> [s \in Sims |-> default[s] # None
                                        /\ "autoconnect" \in start[default[s]]],
                       high |-> [s \in Sims |-> default[s] # None /\ "high" \in start[default[s]]],
                       answers |-> <<>>, unsaved |-> {}, unlinked |-> {},
                       kept |-> {a \in Stored : a \in bound(SimOf[a]) \ {default[SimOf[a]]}}]
  BY DEF Init
<1> DEFINE bound(s) == {a \in ApnsOf(s) \cap Stored : "sim-id" \in start[a]}
<1>2. \A s \in Sims : default[s] = IF bound(s) = {} THEN None
                                   ELSE CHOOSE a \in bound(s) : \A b \in bound(s) : a <= b
  BY <1>1
<1>3. /\ wwan.stored = Stored /\ wwan.flags = start /\ wwan.remote = Stored
      /\ wwan.local = start /\ wwan.owned = {} /\ wwan.default = default
      /\ wwan.old = [s \in Sims |-> None] /\ wwan.answers = <<>>
      /\ wwan.unsaved = {} /\ wwan.unlinked = {}
      /\ wwan.kept = {a \in Stored : a \in bound(SimOf[a]) \ {default[SimOf[a]]}}
      /\ wwan.enabled = [s \in Sims |-> default[s] # None /\ "autoconnect" \in start[default[s]]]
      /\ wwan.high = [s \in Sims |-> default[s] # None /\ "high" \in start[default[s]]]
  BY <1>1
<1>4. start \in [Apns -> SUBSET Flags] /\ Stored \subseteq Apns
  BY WwanAssumption
<1>5. wwan \in Objects
  <2>1. [s \in Sims |-> default[s] # None /\ "autoconnect" \in start[default[s]]]
            \in [Sims -> BOOLEAN]
    BY Zenon
  <2>2. [s \in Sims |-> default[s] # None /\ "high" \in start[default[s]]]
            \in [Sims -> BOOLEAN]
    BY Zenon
  <2>3. [s \in Sims |-> None] \in [Sims -> Apns \cup {None}]
    OBVIOUS
  <2>4. [a \in Apns |-> {}] \in [Apns -> SUBSET Flags]
    OBVIOUS
  <2>5. <<>> \in Seq(Answers)
    OBVIOUS
  <2>6. wwan.own = [a \in Apns |-> {}] /\ wwan.modified = {}
    BY <1>1
  <2>7. wwan = [stored |-> wwan.stored, flags |-> wwan.flags, remote |-> wwan.remote,
                local |-> wwan.local, owned |-> wwan.owned, own |-> wwan.own,
                modified |-> wwan.modified, default |-> wwan.default, old |-> wwan.old,
                enabled |-> wwan.enabled, high |-> wwan.high, answers |-> wwan.answers,
                unsaved |-> wwan.unsaved, unlinked |-> wwan.unlinked,
                kept |-> wwan.kept]
    BY <1>1
  <2>8. wwan.kept \subseteq Apns
    BY <1>3, <1>4
  <2>9. /\ wwan.stored \in SUBSET Apns /\ wwan.flags \in [Apns -> SUBSET Flags]
        /\ wwan.remote \in SUBSET Apns /\ wwan.local \in [Apns -> SUBSET Flags]
        /\ wwan.owned \in SUBSET Apns /\ wwan.own \in [Apns -> SUBSET Flags]
        /\ wwan.modified \in SUBSET Apns /\ wwan.default \in [Sims -> Apns \cup {None}]
        /\ wwan.old \in [Sims -> Apns \cup {None}] /\ wwan.answers \in Seq(Answers)
        /\ wwan.unsaved \in SUBSET Sims /\ wwan.unlinked \in SUBSET Sims
        /\ wwan.kept \in SUBSET Apns
    BY <1>3, <1>4, <2>3, <2>4, <2>5, <2>6, <2>8
  <2>10. wwan.enabled \in [Sims -> BOOLEAN] /\ wwan.high \in [Sims -> BOOLEAN]
    BY <1>3, <2>1, <2>2
  <2>11. QED  BY <2>7, <2>9, <2>10 DEF Objects
<1>6. ASSUME NEW s \in Sims
      PROVE  /\ bound(s) = {} => default[s] = None
             /\ bound(s) # {} => default[s] \in bound(s)
  <2> DEFINE B == bound(s)
  <2>1. default[s] = IF B = {} THEN None ELSE CHOOSE a \in B : \A b \in B : a <= b
    BY <1>2
  <2>2. B \subseteq Nat
    <3>1. Apns \subseteq Nat
      BY WwanAssumption DEF Apns
    <3>2. B \subseteq Apns
      BY <1>4
    <3>3. QED  BY <3>1, <3>2
  <2> HIDE DEF bound, B
  <2>3. ASSUME B # {}
        PROVE  \E m \in B : \A n \in B : m <= n
    <3>1. \E m \in B : \A n \in B : ~ (<<n, m>> \in OpToRel(<, Nat))
      BY <2>2, <2>3, NatLessThanWellFounded, WFMin
    <3>2. \A m, n \in Nat : ~ (<<n, m>> \in OpToRel(<, Nat)) => m <= n
      BY DEF OpToRel
    <3>3. QED  BY <2>2, <3>1, <3>2
  <2>4. QED  BY <2>1, <2>3 DEF B
<1>7. ASSUME NEW s \in Sims, default[s] # None
      PROVE  /\ default[s] \in Stored /\ SimOf[default[s]] = s
             /\ "sim-id" \in start[default[s]]
  BY <1>6, <1>7 DEF ApnsOf
<1>8. Tied(wwan, {})
  <2>1. ASSUME NEW a \in Apns, a # wwan.default[SimOf[a]], a \notin wwan.kept, a \in wwan.stored
        PROVE  "sim-id" \notin start[a]
    BY <1>3, <2>1 DEF ApnsOf
  <2>2. wwan.own = [a \in Apns |-> {}]
    BY <1>1
  <2>3. /\ wwan.remote = wwan.stored /\ Len(wwan.answers) = 0
        /\ wwan.flags = start /\ wwan.local = start
    BY <1>3
  <2> HIDE DEF bound
  <2>4. QED  BY <2>1, <2>2, <2>3 DEF Tied, Loose
<1> HIDE DEF bound
<1>9. \A a \in Stored : Held(wwan, a)
  BY <1>3 DEF Held
<1>10. Base(wwan)
  BY <1>3, <1>7, <1>9 DEF Base
<1>11. ASSUME NEW s \in Sims
       PROVE  Bound(wwan, s) /\ Done(wwan, s) /\ Linked(wwan, link, s)
  <2>1. wwan.old[s] = None
    BY <1>3
  <2>2. Bound(wwan, s)
    BY <1>3, <1>7, StoredFacts DEF Bound
  <2>3. default[s] # None => start[default[s]] = Want(wwan, s)
    <3>1. SUFFICES ASSUME default[s] # None PROVE start[default[s]] = Want(wwan, s)
      OBVIOUS
    <3>2. /\ start[default[s]] \subseteq {"sim-id", "autoconnect", "high"}
          /\ "sim-id" \in start[default[s]]
      BY <1>4, <1>7, <3>1 DEF Flags
    <3>3. /\ wwan.enabled[s] <=> "autoconnect" \in start[default[s]]
          /\ wwan.high[s] <=> "high" \in start[default[s]]
      BY <1>3, <3>1, Zenon
    <3>4. QED  BY <3>2, <3>3 DEF Want
  <2>4. Done(wwan, s)
    BY <1>3, <2>1, <2>3, StoredFacts DEF Done, Match, Shown
  <2>5. link[s] = Idle
    BY DEF Init
  <2>6. QED  BY <2>2, <2>4, <2>5 DEF Linked
<1>12. TypeOK
  BY <1>5, WwanAssumption DEF Init, TypeOK
<1>13. wwan.local \in Starts
  BY <1>3
<1>14. ASSUME NEW s \in Sims, wwan.high[s]
       PROVE  wwan.default[s] \in Stored
  <2>1. default[s] # None
    BY <1>3, <1>14, Zenon
  <2>2. QED  BY <1>3, <1>7, <2>1
<1>15. QED  BY <1>5, <1>8, <1>10, <1>11, <1>12, <1>13, <1>14 DEF IInv, Sound

LEMMA SpecIInv ==
    Spec => []IInv
<1>1. Init => IInv
  BY InitIInv
<1>2. QED  BY <1>1, NextKeepsIInv, PTL DEF Spec

\* Between two steps
SimsTied == Tied(wwan, {})

LEMMA SpecTied ==
    Spec => []SimsTied
<1>1. Init => SimsTied
  BY InitIInv DEF SimsTied
<1>2. IInv /\ SimsTied /\ [Next]_vars => SimsTied'
  BY NextKeepsTied DEF SimsTied
<1>3. QED  BY <1>1, <1>2, SpecIInv, PTL DEF Spec

\* The variables of the panel keep their types however NetworkManager answers.
THEOREM DataTypes ==
    Spec => []TypeOK
<1>1. IInv => TypeOK
  BY DEF IInv
<1>2. QED  BY <1>1, SpecIInv, PTL

\* With nothing on its way for SIM s, and nothing refused, there is no doubt left.
LEMMA SettledFacts ==
    ASSUME IInv, NEW s \in Sims, Settled(s)
    PROVE  /\ wwan.default[s] \in Stored /\ ~Doubt(wwan, s)
           /\ \A i \in 1..Len(wwan.answers) : wwan.answers[i].sim # s
           /\ s \notin wwan.unsaved
<1>1. wwan.answers \in Seq(Answers) /\ Base(wwan)
  BY DEF IInv, Sound, Objects
<1>2. DOMAIN wwan.answers = 1..Len(wwan.answers)
  BY <1>1
<1>3. s # None
  BY DEF Sims, None
<1>4. \A i \in 1..Len(wwan.answers) : wwan.answers[i].sim # s
  BY <1>1, <1>2, <1>3 DEF Settled, Base
<1>5. wwan.default[s] \in Stored /\ s \notin wwan.unsaved
  BY DEF Settled
<1>6. QED  BY <1>4, <1>5 DEF Doubt

\* Once the answers are in and none was an error, the default access point is stored with the
\* switches of the page, and at any time the other connections that belong to its SIM are those
\* in kept: cc_wwan_data_save_settings, whichever saves were on their way together.
THEOREM SettingsAreSaved ==
    Spec => []SavedAsShown
<1>1. IInv /\ SimsTied => SavedAsShown
  <2>1. SUFFICES ASSUME IInv, Tied(wwan, {}), NEW s \in Sims
                 PROVE  /\ \A a \in (ApnsOf(s) \cap wwan.stored) \ {wwan.default[s]} :
                                "sim-id" \in wwan.flags[a] => a \in wwan.kept
                        /\ Settled(s) => wwan.flags[wwan.default[s]] = Want(wwan, s)
    BY DEF SavedAsShown, SimsTied, Want
  <2>2. ASSUME NEW a \in (ApnsOf(s) \cap wwan.stored) \ {wwan.default[s]},
               "sim-id" \in wwan.flags[a]
        PROVE  a \in wwan.kept
    BY <2>1, <2>2 DEF Tied, Loose, ApnsOf
  <2>3. ASSUME Settled(s)
        PROVE  wwan.flags[wwan.default[s]] = Want(wwan, s)
    BY <2>1, <2>3, SettledFacts DEF IInv, Done, Match
  <2>4. QED  BY <2>2, <2>3
<1>2. QED  BY <1>1, SpecIInv, SpecTied, PTL

\* The device of a SIM follows its page: cc_wwan_data_settings_saved_cb activates the default
\* access point of the time of the answer, not that of the request.
THEOREM DevicesFollow ==
    Spec => []LinkFollowsPage
<1>1. IInv => LinkFollowsPage
  BY SettledFacts DEF IInv, Linked, LinkFollowsPage
<1>2. QED  BY <1>1, SpecIInv, PTL

------------------------------------------------------------------------------
(* The SIM for data *)

\* Of two SIMs one has the high priority at most.
OneIsHigh ==
    NSims <= 2 => \A s, t \in Sims : wwan.high[s] /\ wwan.high[t] => s = t

\* Nothing about the settings of SIM t is on its way or was refused.
Quiet(w, t) ==
    /\ w.default[t] \in Stored /\ t \notin w.unsaved
    /\ \A i \in 1..Len(w.answers) : w.answers[i].sim # t

\* The list was made, or the choice was, when the priorities were what they are now.
ChosenIsHigh ==
    ~notify /\ wwan.unlinked = {} /\ (\A t \in Sims : Quiet(wwan, t)) =>
        \A s \in offered : wwan.high[s] => chosen \in Sims /\ wwan.high[chosen]

\* A request for SIM s makes the panel wait.
LEMMA RequestWaits ==
    ASSUME NEW q, NEW w \in Objects, NEW s \in Sims, Requested(q, w, s)
    PROVE  ~Quiet(q, s)
<1>1. PICK answer \in Answers : answer.sim = s /\ q.answers = Append(w.answers, answer)
  BY DEF Requested
<1>2. w.answers \in Seq(Answers)
  BY DEF Objects
<1>3. /\ Len(w.answers) + 1 \in 1..Len(q.answers)
      /\ q.answers[Len(w.answers) + 1] = answer
  BY <1>1, <1>2
<1>4. QED  BY <1>1, <1>3 DEF Quiet

LEMMA InitPriority ==
    ASSUME Init
    PROVE  OneIsHigh /\ ChosenIsHigh
<1>1. notify
  BY DEF Init
<1>2. SUFFICES ASSUME NSims <= 2, NEW s \in Sims, NEW t \in Sims, wwan.high[s], wwan.high[t]
               PROVE  s = t
  BY <1>1 DEF OneIsHigh, ChosenIsHigh
<1>3. /\ Base(wwan) /\ wwan.local \in Starts
      /\ \A u \in Sims : Shown(wwan, u)
      /\ wwan.default[s] \in Stored /\ wwan.default[t] \in Stored
  BY <1>2, InitIInv DEF IInv, Sound, Done
<1>4. /\ {"sim-id", "high"} \subseteq wwan.local[wwan.default[s]]
      /\ {"sim-id", "high"} \subseteq wwan.local[wwan.default[t]]
  BY <1>2, <1>3 DEF Shown, Want
<1>5. SimOf[wwan.default[s]] = SimOf[wwan.default[t]]
  BY <1>2, <1>3, <1>4, PriorityAssumption
<1>6. SimOf[wwan.default[s]] = s /\ SimOf[wwan.default[t]] = t
  BY <1>3, StoredFacts DEF Base
<1>7. QED  BY <1>5, <1>6

LEMMA ChooseApnPriority ==
    ASSUME IInv, OneIsHigh, NEW a \in Apns, NEW refused \in SUBSET Apns,
           ChooseApn(a, refused)
    PROVE  OneIsHigh' /\ ChosenIsHigh'
<1> DEFINE s == SimOf[a]
           v == SetDefaultApn(wwan, a)
           q == SaveSettings(v, s, refused)
<1>1. /\ Sound(wwan) /\ \A t \in Sims : Done(wwan, t)
      /\ wwan.default[s] # a /\ wwan' = q
  BY DEF IInv, ChooseApn
<1>2. s \in Sims
  BY SimOfType
<1>3. /\ Sound(v) /\ \A t \in Sims \ {s} : Done(v, t)
      /\ v.default[s] # None /\ v.high = wwan.high
  BY <1>1, SetDefaultFacts
<1> HIDE DEF v, s
<1>4. Requested(q, v, s)
  BY <1>2, <1>3, SaveSettingsFacts
<1>5. v \in Objects
  BY <1>3 DEF Sound
<1>6. ~Quiet(q, s)
  BY <1>2, <1>4, <1>5, RequestWaits
<1>7. wwan'.high = wwan.high
  BY <1>1, <1>3, <1>4 DEF Requested
<1>8. QED  BY <1>1, <1>2, <1>6, <1>7 DEF OneIsHigh, ChosenIsHigh

LEMMA EditApnPriority ==
    ASSUME IInv, OneIsHigh, ChosenIsHigh, NEW a \in Apns, NEW refused \in SUBSET Apns,
           EditApn(a, refused)
    PROVE  OneIsHigh' /\ ChosenIsHigh'
<1> DEFINE edited == Write(wwan, a, Connection(wwan, a))
           q == SaveApn(Marked(edited, a), a, None, refused)
<1>1. /\ Sound(wwan) /\ \A t \in Sims : Done(wwan, t)
      /\ wwan.answers \in Seq(Answers)
      /\ chosen' = chosen /\ offered' = offered /\ notify' = notify
  BY DEF IInv, TypeOK, Sound, Objects, EditApn
<1>2. wwan' = q
  BY DEF EditApn, Marked
<1>3. Requested(q, wwan, None)
  BY <1>1, EditFacts
<1> HIDE DEF q
<1>4. PICK answer \in Answers : q.answers = Append(wwan.answers, answer)
  BY <1>3 DEF Requested
<1>5. \A i \in 1..Len(wwan.answers) :
        i \in 1..Len(q.answers) /\ q.answers[i] = wwan.answers[i]
  BY <1>1, <1>4
<1>6. \A t \in Sims : Quiet(q, t) => Quiet(wwan, t)
  BY <1>3, <1>5 DEF Quiet, Requested
<1>7. q.high = wwan.high /\ q.unlinked = wwan.unlinked
  BY <1>3 DEF Requested
<1>8. QED  BY <1>1, <1>2, <1>6, <1>7 DEF OneIsHigh, ChosenIsHigh

LEMMA SwitchDataPriority ==
    ASSUME IInv, OneIsHigh, NEW s \in Sims, NEW on \in BOOLEAN, NEW refused \in SUBSET Apns,
           SwitchData(s, on, refused)
    PROVE  OneIsHigh' /\ ChosenIsHigh'
<1> DEFINE v == SetEnabled(wwan, s, on)
           q == SaveSettings(v, s, refused)
<1>1. /\ Sound(wwan) /\ \A t \in Sims : Done(wwan, t)
      /\ wwan.default[s] # None /\ wwan' = q
  BY DEF IInv, SwitchData
<1>2. /\ Sound(v) /\ \A t \in Sims \ {s} : Done(v, t)
      /\ v.default = wwan.default /\ v.high = wwan.high
  BY <1>1, SetEnabledFacts
<1> HIDE DEF v
<1>3. Requested(q, v, s)
  BY <1>1, <1>2, SaveSettingsFacts
<1>4. ~Quiet(q, s)
  BY <1>2, <1>3, RequestWaits DEF Sound
<1>5. q.high = wwan.high
  BY <1>2, <1>3 DEF Requested
<1> HIDE DEF q
<1>6. QED  BY <1>1, <1>4, <1>5 DEF OneIsHigh, ChosenIsHigh

\* cc_wwan_data_item_activate_cb: of two SIMs the one chosen before is the other one.
LEMMA ChooseSimPriority ==
    ASSUME IInv, NEW s \in Sims, NEW refused \in SUBSET Apns, ChooseSim(s, refused)
    PROVE  OneIsHigh' /\ ChosenIsHigh'
<1> DEFINE v == SaveSettings(SetPriority(wwan, chosen, FALSE), chosen, refused)
           q == SaveSettings(SetPriority(v, s, TRUE), s, refused)
<1>1. /\ wwan \in Objects /\ Sound(wwan)
      /\ \A t \in Sims : Done(wwan, t) /\ Linked(wwan, link, t)
      /\ wwan' = q /\ chosen \in Sims /\ chosen # s /\ chosen' = s
  BY DEF IInv, TypeOK, Sound, ChooseSim
<1>2. /\ Sound(v) /\ \A t \in Sims : Done(v, t) /\ Linked(v, link, t)
      /\ v.high = [wwan.high EXCEPT ![chosen] = FALSE]
  BY <1>1, PriorityFacts, ZenonT(40)
<1> HIDE DEF v
<1>3. /\ Sound(q) /\ \A t \in Sims : Done(q, t) /\ Linked(q, link, t)
      /\ q.high = [v.high EXCEPT ![s] = TRUE] /\ q.default = v.default
  <2>1. Sound(v) /\ \A t \in Sims : Done(v, t) /\ Linked(v, link, t)
    BY <1>2
  <2>2. TRUE \in BOOLEAN
    OBVIOUS
  <2>3. QED  BY <2>1, <2>2, PriorityFacts, ZenonT(40)
<1> HIDE DEF q
<1>4. wwan.high \in [Sims -> BOOLEAN]
  BY <1>1 DEF Objects
<1>5. q.high[s] /\ ~q.high[chosen]
  BY <1>1, <1>2, <1>3, <1>4
<1>6. NSims <= 2 => Sims = {s, chosen}
  BY <1>1, WwanAssumption DEF Sims
<1>7. OneIsHigh'
  BY <1>1, <1>5, <1>6 DEF OneIsHigh
<1>8. ChosenIsHigh'
  BY <1>1, <1>5 DEF ChosenIsHigh
<1>9. QED  BY <1>7, <1>8

LEMMA AnsweredPriority ==
    ASSUME IInv, OneIsHigh, ChosenIsHigh, Answered
    PROVE  OneIsHigh' /\ ChosenIsHigh'
<1> DEFINE head == Head(wwan.answers)
           q == Received(wwan, head)
           s == head.sim
<1>1. /\ wwan \in Objects /\ Sound(wwan) /\ wwan.answers # <<>>
      /\ chosen' = chosen /\ offered' = offered
  BY DEF IInv, TypeOK, Answered
<1>2. /\ q \in Objects /\ q.answers = Tail(wwan.answers)
      /\ q.default = wwan.default /\ q.high = wwan.high /\ q.unsaved = wwan.unsaved
      /\ q.unlinked = wwan.unlinked
  BY <1>1, ReceivedFacts
<1>3. head \in Answers
  BY <1>1, TailFacts
<1>4. s \in Sims \cup {None} /\ None \notin Sims
  BY <1>3 DEF Answers, Sims, None
<1>5. IF s # None /\ head.ok THEN SettingsSaved(q, head)
      ELSE /\ wwan' = [q EXCEPT !.unsaved = @ \cup ({s} \ {None})]
           /\ UNCHANGED <<link, notify>>
  BY DEF Answered
<1>6. wwan'.high = wwan.high
  BY <1>2, <1>5 DEF SettingsSaved, Objects
<1>7. OneIsHigh'
  BY <1>6 DEF OneIsHigh
<1>8. CASE s # None /\ head.ok
  <2>1. notify' \/ wwan'.unlinked # {}
    <3>1. SettingsSaved(q, head)
      BY <1>5, <1>8
    <3>2. notify' = TRUE \/ s \in wwan'.unlinked
      BY <1>2, <3>1, ZenonT(40) DEF SettingsSaved, Objects
    <3>3. QED  BY <3>2
  <2>2. QED  BY <1>7, <2>1 DEF ChosenIsHigh
<1>9. CASE ~(s # None /\ head.ok)
  <2>1. /\ wwan'.answers = Tail(wwan.answers) /\ wwan'.default = wwan.default
        /\ wwan'.unsaved = wwan.unsaved \cup ({s} \ {None}) /\ notify' = notify
        /\ wwan'.unlinked = wwan.unlinked
    BY <1>2, <1>5, <1>9 DEF Objects
  <2> DEFINE n == Len(wwan.answers)
  <2>2. /\ n \in Nat /\ n > 0 /\ Len(wwan'.answers) = n - 1
        /\ wwan.answers[1] = head
        /\ \A i \in 1..(n - 1) : wwan'.answers[i] = wwan.answers[i + 1]
    BY <1>1, <2>1 DEF Objects
  <2> HIDE DEF head, q
  <2>3. ASSUME NEW t \in Sims, Quiet(wwan', t)
        PROVE  Quiet(wwan, t)
    <3>1. s # t
      BY <1>4, <2>1, <2>3 DEF Quiet
    <3>2. ASSUME NEW i \in 1..n PROVE wwan.answers[i].sim # t
      <4>1. CASE i = 1
        BY <2>2, <3>1, <4>1
      <4>2. CASE i # 1
        <5>1. i - 1 \in 1..(n - 1) /\ wwan'.answers[i - 1] = wwan.answers[(i - 1) + 1]
          BY <2>2, <4>2
        <5>2. (i - 1) + 1 = i
          OBVIOUS
        <5>3. QED  BY <2>2, <2>3, <5>1, <5>2 DEF Quiet
      <4>3. QED  BY <4>1, <4>2
    <3>3. QED  BY <2>1, <2>3, <3>2 DEF Quiet
  <2>4. ChosenIsHigh'
    BY <1>1, <1>6, <2>1, <2>3 DEF ChosenIsHigh
  <2>5. QED  BY <1>7, <2>4
<1>10. QED  BY <1>8, <1>9

\* cc_wwan_panel_update_data_connections finds the priorities where the page has put them.
LEMMA DataChangedPriority ==
    ASSUME IInv, OneIsHigh, DataChanged
    PROVE  OneIsHigh' /\ ChosenIsHigh'
<1>1. wwan' = wwan /\ offered' = {s \in Sims : IsEnabled(wwan, s)}
  BY DEF DataChanged
<1>2. OneIsHigh'
  BY <1>1 DEF OneIsHigh
<1>3. ASSUME \A t \in Sims : Quiet(wwan, t), NEW s \in offered', wwan.high[s]
      PROVE  chosen' \in Sims /\ wwan.high[chosen']
  <2>1. \A t \in Sims : IsHigh(wwan, t) <=> wwan.high[t]
    <3>1. SUFFICES ASSUME NEW t \in Sims PROVE IsHigh(wwan, t) <=> wwan.high[t]
      OBVIOUS
    <3>2. wwan.default[t] \in wwan.remote /\ wwan.local[wwan.default[t]] = Want(wwan, t)
      BY <1>3 DEF IInv, Sound, Base, Held, Done, Shown, Quiet
    <3>3. wwan.high[t] \in BOOLEAN
      BY DEF IInv, TypeOK, Objects
    <3>4. QED  BY <3>2, <3>3 DEF IsHigh, Want
  <2>2. chosen' \in Best
    BY <1>3, ChosenIsBest
  <2>3. QED  BY <1>1, <1>3, <2>1, <2>2 DEF Best
<1>4. QED  BY <1>1, <1>2, <1>3 DEF ChosenIsHigh

LEMMA NextKeepsPriority ==
    IInv /\ OneIsHigh /\ ChosenIsHigh /\ [Next]_vars => OneIsHigh' /\ ChosenIsHigh'
<1> SUFFICES ASSUME IInv, OneIsHigh, ChosenIsHigh, [Next]_vars PROVE OneIsHigh' /\ ChosenIsHigh'
  OBVIOUS
<1>1. ASSUME NEW refused \in SUBSET Apns, NEW a \in Apns,
             ChooseApn(a, refused) \/ EditApn(a, refused)
      PROVE  OneIsHigh' /\ ChosenIsHigh'
  BY <1>1, ChooseApnPriority, EditApnPriority
<1>2. ASSUME NEW refused \in SUBSET Apns, NEW s \in Sims, NEW on \in BOOLEAN,
             SwitchData(s, on, refused)
      PROVE  OneIsHigh' /\ ChosenIsHigh'
  BY <1>2, SwitchDataPriority
<1>3. ASSUME NEW refused \in SUBSET Apns, NEW s \in Sims, ChooseSim(s, refused)
      PROVE  OneIsHigh' /\ ChosenIsHigh'
  BY <1>3, ChooseSimPriority
<1>4. CASE Answered
  BY <1>4, AnsweredPriority
<1>5. CASE DataChanged
  BY <1>5, DataChangedPriority
<1>6. CASE UNCHANGED vars
  BY <1>6 DEF vars, OneIsHigh, ChosenIsHigh
<1>7. QED  BY <1>1, <1>2, <1>3, <1>4, <1>5, <1>6 DEF Next

\* Of any number of SIMs the panel chooses one with the high priority if it offers one, and of
\* two only one has it, however the answers to the two saves of a choice arrive:
\* cc_wwan_data_item_activate_cb and cc_wwan_panel_update_data_connections.
THEOREM HighPriorityIsChosen ==
    Spec => []OneHighPriority
<1>1. Init => OneIsHigh /\ ChosenIsHigh
  BY InitPriority
<1>2. IInv /\ OneIsHigh /\ ChosenIsHigh => OneHighPriority
  <2> SUFFICES ASSUME IInv, OneIsHigh, ChosenIsHigh, \A s \in Sims : Settled(s)
               PROVE  LET high == {s \in Sims : "high" \in wwan.flags[wwan.default[s]]}
                      IN  /\ ~notify /\ wwan.unlinked = {} /\ offered \cap high # {} => chosen \in high
                          /\ NSims <= 2 => \A s, t \in high : s = t
    BY DEF OneHighPriority
  <2>1. \A s \in Sims : Quiet(wwan, s)
    BY SettledFacts DEF Quiet
  <2>2. ASSUME NEW s \in Sims
        PROVE  "high" \in wwan.flags[wwan.default[s]] <=> wwan.high[s]
    <3>1. wwan.flags[wwan.default[s]] = Want(wwan, s)
      BY SettledFacts DEF IInv, Done, Match
    <3>2. wwan.high[s] \in BOOLEAN
      BY DEF IInv, TypeOK, Objects
    <3>3. QED  BY <3>1, <3>2 DEF Want
  <2>3. offered \subseteq Sims
    BY DEF IInv, TypeOK
  <2>4. QED  BY <2>1, <2>2, <2>3 DEF OneIsHigh, ChosenIsHigh
<1>3. QED  BY <1>1, <1>2, SpecIInv, NextKeepsPriority, PTL DEF Spec
==============================================================================
