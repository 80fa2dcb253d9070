------------------------------ MODULE CcBoltPage ------------------------------
(***************************************************************************)
(* Thunderbolt devices (panels/privacy/bolt): the page that lists them     *)
(* (cc-bolt-page.c), the dialog that authorises one (cc-bolt-device-       *)
(* dialog.c), the queue of calls behind it (bolt-client.c) and the daemon  *)
(* boltd (external).                                                       *)
(*                                                                         *)
(* Devices are chained: each hangs on another device or on the host, and   *)
(* can only be authorised after the one it hangs on.  What boltd says      *)
(* arrives in order, but later than it happens.                            *)
(*                                                                         *)
(* A dialog that is closed leaves its operation behind, and another dialog *)
(* may start its own.                                                      *)
(*                                                                         *)
(* Not modelled: the switch for direct access, polkit, security levels.    *)
(***************************************************************************)
EXTENDS FiniteSetsExt, SequencesExt

CONSTANTS
    NDevices,       \* how many peripherals there are
    Parent,         \* what each one hangs on, 0 for the host
    Enrolled,       \* those that are stored when they are authorised
    MaxInbox,       \* bound on the messages that wait when boltd does a step
    MaxBusy,        \* the same while operations are in flight
    MaxOperations   \* bound on the operations in flight, those of closed dialogs included

Devices == 1..NDevices
Slots == 1..MaxOperations

ASSUME DevicesAssumption ==
    /\ NDevices \in Nat
    /\ Parent \in [Devices -> Devices \cup {0}] /\ \A d \in Devices : Parent[d] < d
    /\ Enrolled \subseteq Devices /\ MaxInbox \in Nat /\ MaxBusy \in Nat
    /\ MaxOperations \in Nat \ {0}

VARIABLES
    boltd,          \* what boltd knows of each device
    running,        \* boltd runs
    inbox,          \* what boltd has sent and the page has not handled
    seen,           \* the properties in the caches of the devices' proxies
    page,           \* the page, see Pages
    dialog,         \* the dialog, see Dialogs
    ops             \* the tasks of the operations of dialogs, see Operations

vars == <<boltd, running, inbox, seen, page, dialog, ops>>

\* BoltStatus, without the difference between kinds of "authorized"; "active" is
\* connecting or authorizing, "gone" that boltd has no such device.
Statuses == {"gone", "disconnected", "connected", "error", "active", "authorized"}

\* bolt_status_is_pending
IsPending(status) == status \in {"connected", "error"}

Props == [status : Statuses, stored : BOOLEAN]
Gone == [status |-> "gone", stored |-> FALSE]
Present(d) == boltd[d].status \notin {"gone", "disconnected"}

Messages == [type : {"added", "removed"}, device : Devices]
       \cup [type : {"props"}, device : Devices, props : Props]
       \cup [type : {"owner"}, up : BOOLEAN] \cup [type : {"reply"}, of : Slots, ok : BOOLEAN]

Pages == [
    lists     : [{"pending", "devices"} -> SUBSET Devices],     \* rows of the two lists
    boxes     : SUBSET {"pending", "devices"},                  \* those that are visible
    stack     : {"no-devices", "have-devices"},
    container : {"no-thunderbolt", "devices-listing"},
    shown     : BOOLEAN ]                                       \* the page is visible

Buttons == {"connect", "forget"}
Dialogs == [
    open      : BOOLEAN,
    device    : Devices \cup {0},
    parents   : Seq(Devices),           \* from the nearest to the root
    sensitive : SUBSET Buttons,
    visible   : SUBSET Buttons,
    spinner   : BOOLEAN,
    op        : Slots \cup {0} ]       \* its operation in flight
Closed == [open |-> FALSE, device |-> 0, parents |-> <<>>, sensitive |-> {},
           visible |-> {}, spinner |-> FALSE, op |-> 0]

Operations == [
    sender : Buttons \cup {"none"},
    queue  : Seq(Devices),              \* calls still to be made
    call   : Devices \cup {0},          \* the call in flight
    all    : SUBSET Devices,            \* history: every device of the operation
    done   : SUBSET Devices ]           \* history: those boltd has authorised
Idle == [sender |-> "none", queue |-> <<>>, call |-> 0, all |-> {}, done |-> {}]

------------------------------------------------------------------------------
(* The page *)

Table(p) == p.lists["pending"] \cup p.lists["devices"]

\* cc_bolt_page_add_device
AddDevice(p, d, status) ==
    LET list == IF IsPending(status) THEN "pending" ELSE "devices"
    IN  [p EXCEPT !.lists[list] = @ \cup {d},
                  !.boxes = @ \cup {list},
                  !.stack = "have-devices"]

\* Mutant of DelEntry: the box of a list that gets empty stays.
DelEntryOnly(p, d) ==
    [p EXCEPT !.lists = [l \in DOMAIN @ |-> @[l] \ {d}]]

\* cc_bolt_page_del_device_entry; no list counts as visible on a page that is not.
DelEntry(p, d) ==
    LET list  == CHOOSE l \in DOMAIN p.lists : d \in p.lists[l]
        boxes == IF p.lists[list] = {d} THEN p.boxes \ {list} ELSE p.boxes \cup {list}
    IN  [p EXCEPT !.lists[list] = @ \ {d},
                  !.boxes = boxes,
                  !.stack = IF boxes = {} \/ ~p.shown THEN "no-devices" ELSE @]

\* The loop of devices_table_clear_entries, after device n; the code takes the devices in
\* the order of a hash table.
Clearing(p, old) ==
    LET after[n \in 0..NDevices] ==
            IF n = 0 THEN p
            ELSE IF n \in old THEN DelEntry(after[n - 1], n) ELSE after[n - 1]
    IN  after
Clear(p, old) == Clearing(p, old)[NDevices]

\* The loop of devices_table_synchronize, after device n
Adding(p, new) ==
    LET after[n \in 0..NDevices] ==
            IF n = 0 THEN p
            ELSE IF n \in new THEN AddDevice(after[n - 1], n, boltd[n].status)
            ELSE after[n - 1]
    IN  after

\* What bolt_client_list_devices answers, nothing when boltd does not.
Known == IF running THEN {d \in Devices : boltd[d] # Gone} ELSE {}

\* update_visibility of a device that was added or removed; its client is the first one
\* of the page to hear of it.
UpdateVisibility(p) == [p EXCEPT !.shown = (Known # {})]

\* devices_table_synchronize: new devices are added before old ones are cleared.
Synchronize(p) ==
    LET added == Adding(p, Known \ Table(p))[NDevices]
    IN  [Clear(added, Table(p) \ Known) EXCEPT !.container = "devices-listing"]

\* cc_bolt_page_name_owner_changed
OwnerChanged(p, up) ==
    IF up THEN Synchronize(p)
    ELSE [Clear(p, Table(p)) EXCEPT !.container = "no-thunderbolt"]

\* Mutant of StatusChanged: a device that has failed does not go back to those pending.
StatusChangedForth(p, d, status) ==
    IF status = "active" \/ IsPending(status) \/ d \notin p.lists["pending"] THEN p
    ELSE [p EXCEPT !.lists = [pending |-> @.pending \ {d}, devices |-> @.devices \cup {d}],
                   !.boxes = {"devices"} \cup IF p.lists["pending"] = {d} THEN {} ELSE {"pending"}]

\* on_device_entry_status_changed_cb, with cc_panel_list_box_migrate
StatusChanged(p, d, status) ==
    LET to    == IF IsPending(status) THEN "pending" ELSE "devices"
        from  == IF IsPending(status) THEN "devices" ELSE "pending"
        boxes == IF p.lists[from] = {d} THEN p.boxes \ {from} ELSE p.boxes \cup {from}
    IN  IF status = "active" \/ d \notin p.lists[from] THEN p
        ELSE [p EXCEPT !.lists = [l \in DOMAIN @ |-> IF l = to THEN @[l] \cup {d}
                                                     ELSE @[l] \ {d}],
                       !.boxes = boxes \cup {to}]

------------------------------------------------------------------------------
(* The dialog *)

\* dialog_update_from_device
UpdateFromDevice(g, props) ==
    LET connect == IF "connect" \notin g.sensitive THEN g.visible \cap {"connect"}
                   ELSE IF props.status = "connected" THEN {"connect"} ELSE {}
    IN  [g EXCEPT !.visible = connect \cup IF props.stored THEN {"forget"} ELSE {}]

\* on_device_entry_row_activated_cb: the parents that are in the table, up the chain
ParentsOf[d \in Devices \cup {0}] ==
    IF d = 0 \/ Parent[d] \notin Table(page) THEN <<>>
    ELSE <<Parent[d]>> \o ParentsOf[Parent[d]]

\* Mutant of OperationDone: an error leaves the operation started.
OperationDoneIfOk(g, sender, ok) ==
    IF ok THEN [g EXCEPT !.spinner = FALSE, !.sensitive = Buttons, !.visible = @ \ {sender}]
    ELSE g

\* dialog_operation_done.  It does nothing after a cancelled call; the calls are made without
\* a cancellable, and boltd answers none with that error (bolt_err_cancelled).
OperationDone(g, sender, ok) ==
    [g EXCEPT !.spinner   = FALSE,
              !.sensitive = IF ok THEN Buttons ELSE Buttons \ {sender},
              !.visible   = IF ok THEN @ \ {sender} ELSE @]

\* Mutant of Chain: from the device to the root
ChainUpwards(g) ==
    <<g.device>> \o SelectSeq(g.parents, LAMBDA d : IsPending(seen[d].status))

\* The loop of on_connect_button_clicked_cb, after the last n parents: from the root on,
\* without those that are not pending
Waiting(g) ==
    LET after[n \in 0..Len(g.parents)] ==
            IF n = 0 THEN <<>>
            ELSE LET d == g.parents[Len(g.parents) + 1 - n]
                 IN  IF IsPending(seen[d].status) THEN Append(after[n - 1], d)
                     ELSE after[n - 1]
    IN  after

\* on_connect_button_clicked_cb: the device comes last.
Chain(g) == Append(Waiting(g)[Len(g.parents)], g.device)

------------------------------------------------------------------------------
(* What the user does *)

\* cc_bolt_page_init and bolt_client_ready
Init ==
    /\ boltd = [d \in Devices |-> Gone]
    /\ running = TRUE
    /\ inbox = <<>>
    /\ seen = boltd
    /\ page = [lists |-> [l \in {"pending", "devices"} |-> {}], boxes |-> {},
               stack |-> "no-devices", container |-> "devices-listing", shown |-> FALSE]
    /\ dialog = Closed
    /\ ops = [s \in Slots |-> Idle]

\* A row is activated.
Open(d) ==
    /\ ~dialog.open
    /\ page.shown /\ page.container = "devices-listing" /\ page.stack = "have-devices"
    /\ d \in Table(page)
    /\ dialog' = UpdateFromDevice([Closed EXCEPT !.open = TRUE, !.device = d,
                                                 !.parents = ParentsOf[d],
                                                 !.sensitive = Buttons], seen[d])
    /\ UNCHANGED <<boltd, running, inbox, seen, page, ops>>

Free(s) == ops[s] = Idle /\ \A t \in Slots : t < s => ops[t] # Idle

\* dialog_operation_start, then the first call of bolt_client_connect_all_async or the
\* call of bolt_client_forget_device_async
Click(button) ==
    /\ dialog.open /\ button \in dialog.sensitive \cap dialog.visible
    /\ \E s \in Slots :
        /\ Free(s)
        /\ dialog' = [dialog EXCEPT !.sensitive = {}, !.spinner = TRUE, !.op = s]
        /\ LET calls == IF button = "connect" THEN Chain(dialog) ELSE <<dialog.device>>
           IN  ops' = [ops EXCEPT ![s] = [sender |-> button, queue |-> Tail(calls),
                                          call |-> Head(calls), all |-> ToSet(calls),
                                          done |-> {}]]
    /\ UNCHANGED <<boltd, running, inbox, seen, page>>

\* cc_bolt_device_dialog_finalize: the dialog has no cancellable to cancel, since
\* cc_bolt_device_dialog_set_device makes one only when it replaces a device.
Close ==
    /\ dialog.open
    /\ dialog' = Closed
    /\ UNCHANGED <<boltd, running, inbox, seen, page, ops>>

------------------------------------------------------------------------------
(* What boltd says *)

Pop == inbox' = Tail(inbox)
Received(type) == inbox # <<>> /\ Head(inbox).type = type

\* on_bolt_device_added_cb: reads the properties the device has by now.  The proxy of one
\* that boltd no longer has, or is not there to tell of, has none: its row is listed with
\* the devices until its removal is heard of.
HandleAdded ==
    /\ Received("added") /\ Pop
    /\ LET d     == Head(inbox).device
           p     == UpdateVisibility(page)
           props == IF running THEN boltd[d] ELSE Gone
       IN  IF d \in Table(page) THEN page' = p /\ UNCHANGED seen
           ELSE /\ page' = AddDevice(p, d, props.status)
                /\ seen' = [seen EXCEPT ![d] = props]
    /\ UNCHANGED <<boltd, running, dialog, ops>>

\* on_bolt_device_removed_cb
HandleRemoved ==
    /\ Received("removed") /\ Pop
    /\ LET d == Head(inbox).device
           p == UpdateVisibility(page)
       IN  page' = IF d \in Table(page) THEN DelEntry(p, d) ELSE p
    /\ UNCHANGED <<boltd, running, seen, dialog, ops>>

\* Properties of a device change (on_device_notify_cb of its row and of the dialog).
HandleProps ==
    /\ Received("props") /\ Pop
    /\ LET d == Head(inbox).device
           p == Head(inbox).props
       IN  /\ seen' = [seen EXCEPT ![d] = p]
           /\ page' = IF d \in Table(page) THEN StatusChanged(page, d, p.status) ELSE page
           /\ dialog' = IF dialog.device = d THEN UpdateFromDevice(dialog, p) ELSE dialog
    /\ UNCHANGED <<boltd, running, ops>>

HandleOwner ==
    /\ Received("owner") /\ Pop
    /\ page' = OwnerChanged(page, Head(inbox).up)
    /\ seen' = IF Head(inbox).up THEN boltd ELSE [d \in Devices |-> Gone]
    /\ dialog' = IF dialog.open /\ Head(inbox).up
                 THEN UpdateFromDevice(dialog, boltd[dialog.device]) ELSE dialog
    /\ UNCHANGED <<boltd, running, ops>>

\* allop_one_done and allop_continue: the next call of the queue, if there is one
HandleReplyContinue ==
    /\ Received("reply") /\ Pop
    /\ LET s  == Head(inbox).of
           op == ops[s]
       IN  /\ Head(inbox).ok /\ op.queue # <<>>
           /\ ops' = [ops EXCEPT ![s] = [op EXCEPT !.done = @ \cup {op.call},
                                                  !.call = Head(op.queue), !.queue = Tail(@)]]
    /\ UNCHANGED <<boltd, running, seen, page, dialog>>

\* ... on_connect_all_done or on_forget_device_done otherwise, or at the first error
HandleReplyDone ==
    /\ Received("reply") /\ Pop
    /\ LET s == Head(inbox).of
       IN  /\ ~Head(inbox).ok \/ ops[s].queue = <<>>
           /\ dialog' = IF dialog.op # s THEN dialog
                        ELSE [OperationDone(dialog, ops[s].sender, Head(inbox).ok)
                                EXCEPT !.op = 0]
           /\ ops' = [ops EXCEPT ![s] = Idle]
    /\ UNCHANGED <<boltd, running, seen, page>>

------------------------------------------------------------------------------
(* boltd *)

Send(messages) == inbox' = inbox \o messages
Change(d, props) ==
    IF boltd[d] = Gone THEN [type |-> "added", device |-> d]
    ELSE IF props = Gone THEN [type |-> "removed", device |-> d]
    ELSE [type |-> "props", device |-> d, props |-> props]

Becomes(d, props) ==
    /\ boltd' = [boltd EXCEPT ![d] = props]
    /\ Send(<<Change(d, props)>>)
    /\ UNCHANGED <<running, seen, page, dialog, ops>>

Room == Len(inbox) < IF ops = [s \in Slots |-> Idle] THEN MaxInbox ELSE MaxBusy

\* A device is connected to something that is connected, or disconnected.
Plug(d) ==
    /\ running /\ Room /\ ~Present(d)
    /\ \A p \in {Parent[d]} \ {0} : Present(p)
    /\ Becomes(d, [boltd[d] EXCEPT !.status = "connected"])

Unplug(d) ==
    /\ running /\ Room /\ Present(d)
    /\ \A c \in Devices : Parent[c] = d => ~Present(c)
    /\ Becomes(d, IF boltd[d].stored THEN [boltd[d] EXCEPT !.status = "disconnected"] ELSE Gone)

CanAuthorize(d) ==
    /\ IsPending(boltd[d].status)
    /\ \A p \in {Parent[d]} \ {0} : boltd[p].status = "authorized"

\* Authorisation starts, for a call of the panel or of another program,
Authorize(d) ==
    /\ running /\ Room /\ CanAuthorize(d)
    /\ Becomes(d, [boltd[d] EXCEPT !.status = "active"])

\* and succeeds, which may store the device, or fails.
Authorized(d, ok) ==
    /\ running /\ Room /\ boltd[d].status = "active"
    /\ Becomes(d, IF ok THEN [status |-> "authorized", stored |-> d \in Enrolled \/ boltd[d].stored]
                  ELSE [boltd[d] EXCEPT !.status = "error"])

Replied(s) == \E i \in DOMAIN inbox : inbox[i].type = "reply" /\ inbox[i].of = s

\* A call of the panel is answered.
Answer(s, ok) ==
    LET d == ops[s].call
    IN  /\ d # 0 /\ ~Replied(s)
        /\ ok => running
        /\ ops[s].sender = "connect" /\ ok => boltd[d].status = "authorized"
        /\ boltd' = IF ops[s].sender = "forget" /\ ok
                    THEN [boltd EXCEPT ![d] = IF Present(d) THEN [@ EXCEPT !.stored = FALSE]
                                              ELSE Gone]
                    ELSE boltd
        /\ Send((IF boltd'[d] = boltd[d] THEN <<>> ELSE <<Change(d, boltd'[d])>>)
                    \o <<[type |-> "reply", of |-> s, ok |-> ok]>>)
        /\ UNCHANGED <<running, seen, page, dialog, ops>>

\* The service stops, and starts again with the devices as they are.
Restart ==
    /\ Room
    /\ running' = ~running
    /\ Send(<<[type |-> "owner", up |-> running']>>)
    /\ UNCHANGED <<boltd, seen, page, dialog, ops>>

Next ==
    \/ \E d \in Devices : Open(d) \/ Plug(d) \/ Unplug(d) \/ Authorize(d)
                       \/ \E ok \in BOOLEAN : Authorized(d, ok)
    \/ \E button \in Buttons : Click(button)
    \/ \E s \in Slots, ok \in BOOLEAN : Answer(s, ok)
    \/ Close \/ HandleAdded \/ HandleRemoved \/ HandleProps \/ HandleOwner
    \/ HandleReplyContinue \/ HandleReplyDone \/ Restart

\* The main loop handles what arrives, and a D-Bus call ends, by its timeout if need be.
Handle == HandleAdded \/ HandleRemoved \/ HandleProps \/ HandleOwner
             \/ HandleReplyContinue \/ HandleReplyDone

Spec ==
    /\ Init /\ [][Next]_vars
    /\ WF_vars(Handle)
    /\ \A s \in Slots : WF_vars(\E ok \in BOOLEAN : Answer(s, ok))

------------------------------------------------------------------------------
(* Properties *)

\* Types of all variables.
TypeOK ==
    /\ boltd \in [Devices -> Props] /\ seen \in [Devices -> Props]
    /\ running \in BOOLEAN
    /\ inbox \in Seq(Messages)
    /\ page \in Pages
    /\ dialog \in Dialogs
    /\ ops \in [Slots -> Operations]

\* When the page has handled all that boltd said, it lists the devices boltd knows, and as
\* pending those that wait for authorisation; one that is being authorised stays where it is.
ListsFollowBoltd ==
    running /\ inbox = <<>> =>
        /\ Table(page) = {d \in Devices : boltd[d] # Gone}
        /\ \A d \in Devices : boltd[d].status # "active"
              => (d \in page.lists["pending"] <=> IsPending(boltd[d].status))

\* A device is in one list and a list is shown exactly when it has rows, after any
\* sequence of devices coming, going and changing lists.  "No devices" is shown when there
\* are none, and, once the page has handled all that boltd said, only then: a row that goes
\* while the page is hidden brings it up for the others, which must all be gone soon.
BoxesFollowLists ==
    /\ page.lists["pending"] \cap page.lists["devices"] = {}
    /\ page.boxes = {l \in DOMAIN page.lists : page.lists[l] # {}}
    /\ page.boxes = {} => page.stack = "no-devices"
    /\ inbox = <<>> /\ page.boxes # {} => page.stack = "have-devices"

\* What a device hangs on, directly or not
Above[d \in Devices \cup {0}] == IF d = 0 THEN {} ELSE {Parent[d]} \cup Above[Parent[d]]

\* A dialog asks for a device only when all the devices above it that it found pending have
\* been authorised: in the order of the chain, one at a time, none after a failure.
ParentsFirst ==
    [][\A s \in Slots : ops[s].call # ops'[s].call /\ ops'[s].call # 0
            => Above[ops'[s].call] \cap ops'[s].all \subseteq ops'[s].done]_vars

\* An operation ends, whatever boltd does: the spinner of its dialog does not turn for
\* ever, also when the operations of closed dialogs still run.
OperationsEnd == dialog.spinner ~> ~dialog.spinner

\* What the code is found not to keep: the answer of an operation finds the dialog it was
\* asked by ("don' do anything if we are being destroyed", dialog_operation_done).
AnswersFindTheirDialog ==
    [][\A s \in Slots : ops[s] # Idle /\ ops'[s] = Idle => dialog.op = s]_vars
==============================================================================
