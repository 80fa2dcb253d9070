--------------------------- MODULE CcObjectStorage ---------------------------
(***************************************************************************)
(* The cache of D-Bus proxies every panel shares (shell/cc-object-storage  *)
(* .c), and the panels that fill it: a panel asks for its proxies while it *)
(* is being created, synchronously or through a GTask whose worker thread  *)
(* makes the proxy and whose callback runs later in the main loop.  The    *)
(* window deactivates (cancels) a panel before it loads the next one.      *)
(*                                                                         *)
(* Every panel object is an instance, numbered in the order of creation; a *)
(* proxy is named after the instance it was made for.                      *)
(***************************************************************************)
EXTENDS Naturals

CONSTANTS
    PanelTypes,     \* the panels of the window
    Keys,           \* D-Bus (name, path, interface) triples
    SyncKeys,       \* keys a panel creates with ..._create_dbus_proxy_sync
    AsyncKeys,      \* keys a panel creates with ..._create_dbus_proxy
    MaxInstances    \* bound on the panel objects created

Instances == 1..MaxInstances
None == 0

ASSUME MaxInstancesAssumption == MaxInstances \in Nat
ASSUME KeysAssumption ==
    /\ SyncKeys \in [PanelTypes -> SUBSET Keys]
    /\ AsyncKeys \in [PanelTypes -> SUBSET Keys]
\* "It is a programming error to create an identical proxy while
\* asynchronously creating one": no panel asks for a key in both ways.
ASSUME OneWayAssumption == \A p \in PanelTypes : SyncKeys[p] \cap AsyncKeys[p] = {}

VARIABLES
    open,       \* the instance on display
    cancelled,  \* the instances that have been deactivated
    stored,     \* id_to_object: the proxy stored under each key
    task,       \* the GTask of each instance and key
    held,       \* the proxies the instance on display has received
    fault       \* what has gone wrong: an assertion, a freed panel used

storageVars == <<open, cancelled, stored, task, held, fault>>

(* A task found in the cache ("cached") has its answer from the start; the
   others run in a thread, which returns a proxy or an error. *)
Phases == {"none", "cached", "running", "returned", "failed"}

Has(k) == stored[k] # None

------------------------------------------------------------------------------
StorageInit ==
    /\ open = None
    /\ cancelled = {}
    /\ stored = [k \in Keys |-> None]
    /\ task = [i \in Instances |-> [k \in Keys |-> "none"]]
    /\ held = [k \in Keys |-> None]
    /\ fault = "none"

\* The proxies that cc_object_storage_create_dbus_proxy_sync adds for instance
\* i: those not yet stored, unless the bus refuses them (the set "refused").
StoredAfter(p, i, refused) ==
    [k \in Keys |-> IF k \in SyncKeys[p] \ refused /\ ~Has(k) THEN i ELSE stored[k]]

\* The tasks that cc_object_storage_create_dbus_proxy starts.
TasksOf(p) ==
    [k \in Keys |-> IF k \notin AsyncKeys[p] THEN "none"
                    ELSE IF Has(k) THEN "cached" ELSE "running"]

\* Mutant of Deactivate: the panel that is left keeps its requests.
DeactivateNothing == cancelled' = cancelled

\* cc_panel_deactivate of the panel on display
Deactivate == cancelled' = cancelled \cup ({open} \ {None})

\* The window replaces its panel by a new instance of p.
Open(p) ==
    /\ fault = "none"
    /\ open < MaxInstances
    /\ Deactivate
    /\ open' = open + 1
    /\ \E refused \in SUBSET SyncKeys[p] :
        /\ stored' = StoredAfter(p, open + 1, refused)
        /\ held' = [k \in Keys |-> IF k \in SyncKeys[p] THEN stored'[k] ELSE None]
    /\ task' = [task EXCEPT ![open + 1] = TasksOf(p)]
    /\ UNCHANGED fault

\* A panel that cannot be activated leaves the old one on display, deactivated.
KeepPanel ==
    /\ fault = "none"
    /\ open # None
    /\ Deactivate
    /\ UNCHANGED <<open, stored, task, held, fault>>

\* Mutant of ThreadReturns: the thread reports errors only to live panels.
ThreadReturnsIfLive(i, k) ==
    /\ fault = "none"
    /\ task[i][k] = "running" /\ i \notin cancelled
    /\ \E result \in {"returned", "failed"} : task' = [task EXCEPT ![i][k] = result]
    /\ UNCHANGED <<open, cancelled, stored, held, fault>>

\* create_dbus_proxy_in_thread_cb: the call succeeds or not; a cancelled one may
\* have got its proxy already.
ThreadReturns(i, k) ==
    /\ fault = "none"
    /\ task[i][k] = "running"
    /\ \E result \in {"returned", "failed"} : task' = [task EXCEPT ![i][k] = result]
    /\ UNCHANGED <<open, cancelled, stored, held, fault>>

\* Mutant of Deliver: the callback forgets the proxy.
DeliverNothing(i, k, proxy) == UNCHANGED <<held, fault>>

\* The panel's callback stores the proxy it was given.
Deliver(i, k, proxy) ==
    IF i = open
    THEN held' = [held EXCEPT ![k] = proxy] /\ UNCHANGED fault
    ELSE fault' = "freed panel" /\ UNCHANGED held

\* Mutant of Finish: the proxy is returned without having been stored.
FinishWithoutAdding(i, k) ==
    /\ fault = "none"
    /\ task[i][k] \in {"cached", "returned", "failed"}
    /\ task' = [task EXCEPT ![i][k] = "none"]
    /\ IF i \in cancelled \/ task[i][k] = "failed" THEN UNCHANGED <<held, fault>>
       ELSE Deliver(i, k, i)
    /\ UNCHANGED <<open, cancelled, stored>>

\* The callback, with cc_object_storage_create_dbus_proxy_finish: a cancelled
\* task gives an error whatever its thread returned; otherwise the task must
\* have been cached if and only if the key is stored by now.
Finish(i, k) ==
    /\ fault = "none"
    /\ task[i][k] \in {"cached", "returned", "failed"}
    /\ task' = [task EXCEPT ![i][k] = "none"]
    /\ \/ /\ i \in cancelled \/ task[i][k] = "failed"
          /\ UNCHANGED <<stored, held, fault>>
       \/ /\ i \notin cancelled /\ task[i][k] # "failed"
          /\ ~(task[i][k] = "cached" <=> Has(k))
          /\ fault' = "assertion"
          /\ UNCHANGED <<stored, held>>
       \/ /\ i \notin cancelled /\ task[i][k] # "failed"
          /\ (task[i][k] = "cached" <=> Has(k))
          /\ stored' = [stored EXCEPT ![k] = IF Has(k) THEN @ ELSE i]
          /\ Deliver(i, k, stored'[k])
    /\ UNCHANGED <<open, cancelled>>

StorageNext ==
    \/ \E p \in PanelTypes : Open(p)
    \/ KeepPanel
    \/ \E i \in Instances, k \in Keys : ThreadReturns(i, k) \/ Finish(i, k)

\* D-Bus calls time out, so the threads return; the main loop runs callbacks.
Fairness ==
    \A i \in Instances, k \in Keys :
        WF_storageVars(ThreadReturns(i, k)) /\ WF_storageVars(Finish(i, k))

StorageSpec == StorageInit /\ [][StorageNext]_storageVars /\ Fairness

------------------------------------------------------------------------------
(* Properties *)

\* Every variable has the type its comment states.
StorageTypeOK ==
    /\ open \in 0..MaxInstances
    /\ cancelled \subseteq Instances
    /\ stored \in [Keys -> 0..MaxInstances]
    /\ task \in [Instances -> [Keys -> Phases]]
    /\ held \in [Keys -> 0..MaxInstances]
    /\ fault \in {"none", "assertion", "freed panel"}

\* The assertion of cc_object_storage_create_dbus_proxy_finish never fails, and
\* no callback reaches a panel that has been replaced, however the panels'
\* creation, their threads and their callbacks interleave.
NeverFails == fault = "none"

\* PanelTypes share one proxy per key: whatever the panel on display has received
\* for a key is the proxy of the storage.
ProxiesAreShared == \A k \in Keys : held[k] # None => held[k] = stored[k]

\* "Each object must be added once, and only once, over the entire lifetime of
\* the application": a stored proxy is never replaced or removed.
StoredOnce == [][\A k \in Keys : Has(k) => stored'[k] = stored[k]]_storageVars

\* Every asynchronous request is answered, be it by an error.
RequestsAreAnswered ==
    \A i \in Instances, k \in Keys :
        (task[i][k] # "none") ~> (task[i][k] = "none")

\* The callback of the panel on display is run with a proxy.
Answers(k) ==
    /\ open # None /\ open \notin cancelled
    /\ task[open][k] \in {"cached", "returned"} /\ task'[open][k] = "none"

\* A panel that stays on display gets the stored proxy whenever its request got one, and
\* it gets none in any other way: not from the request of a panel it has replaced, and
\* not after it was cancelled.
AnswersReachLivePanel ==
    [][\A k \in Keys : open' = open =>
        /\ Answers(k) => held'[k] # None /\ held'[k] = stored'[k]
        /\ held'[k] # held[k] => Answers(k)]_storageVars
==============================================================================
