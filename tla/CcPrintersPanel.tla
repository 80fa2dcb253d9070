--------------------------- MODULE CcPrintersPanel ---------------------------
(***************************************************************************)
(* The printers panel (panels/printers/cc-printers-panel.c) with the calls *)
(* it makes of pp-cups.c and pp-printer.c, and CUPS behind them (external).*)
(*                                                                         *)
(* Every question to CUPS is asked in a thread of its own: answers come    *)
(* late and in any order.  A deleted printer is hidden and stays in CUPS   *)
(* until the undo toast goes; the call that removes it is answered later   *)
(* still.  Handlers run to their end one at a time and are written as      *)
(* operators from panel states to panel states.                            *)
(*                                                                         *)
(* Not modelled: the search text, jobs, the lease of the subscription.     *)
(***************************************************************************)
EXTENDS FiniteSets, SequencesExt

CONSTANTS
    Printers,       \* names of printers
    None,           \* NULL
    Additions,      \* the names the user gives to new printers
    Renamings,      \* the pairs of names of the printers the user renames
    MaxListings,    \* bound on the listings that can be asked for at a time
    MaxTests        \* bound on the tests of the connection in flight

ASSUME PrintersAssumption ==
    /\ None \notin Printers /\ IsFiniteSet(Printers)
    /\ Additions \subseteq Printers /\ Renamings \subseteq Printers \X Printers
    /\ MaxListings \in Nat \ {0} /\ MaxTests \in Nat \ {0}

VARIABLES
    queues,         \* the printers CUPS has
    up,             \* CUPS answers
    listings,       \* the calls of pp_cups_get_dests_async in flight
    testing,        \* number of tests of the connection, for set_current_page, in flight
    deletions,      \* the calls of PrinterDelete in flight
    adding,         \* the printer that pp_new_printer_add_async is adding
    panel,          \* the panel, see PanelStates
    alive,          \* the panel is not disposed of
    verdict         \* history: what the user last said of a printer

vars == <<queues, up, listings, testing, deletions, adding, panel, alive,
          verdict>>
calls == <<listings, testing, adding>>

Listings == [read : BOOLEAN, dests : SUBSET Printers]
Asked == [read |-> FALSE, dests |-> {}]
Names == Printers \cup {None}

PanelStates == [
    dests    : SUBSET Printers,
    entries  : SUBSET Printers,         \* the rows of the list
    hidden   : SUBSET Printers,         \* ... that the filter has hidden
    pending  : Names,                   \* deleted_printer_name
    deleting : SUBSET Printers,         \* deleted_printers
    toast    : {"none", "undo", "plain", "freed"},
    timer    : BOOLEAN,                 \* remove_printer_timeout_id
    page     : {"loading-page", "printers-list", "empty-state", "no-cups-page"},
    new      : Names,                   \* new_printer_name
    renamed  : [old : Names, new : Names] ]

Blank == [dests |-> {}, entries |-> {}, hidden |-> {}, pending |-> None, deleting |-> {},
          toast |-> "none", timer |-> FALSE, page |-> "loading-page", new |-> None,
          renamed |-> [old |-> None, new |-> None]]

------------------------------------------------------------------------------
(* The handlers *)

\* filter_function: what it hides
Gone(p) == p.deleting \cup ({p.pending} \ {None})

\* gtk_list_box_invalidate_filter
Refilter(p) == [p EXCEPT !.hidden = p.entries \cap Gone(p)]

\* on_notification_dismissed: what is pending is deleted for good.
Dismissed(p) ==
    [p EXCEPT !.timer    = FALSE,
              !.deleting = Gone(p),
              !.pending  = None,
              !.toast    = "none"]

\* Mutant of Undone: the printer stays pending, and the dismissal deletes it.
UndoneOnly(p) ==
    [p EXCEPT !.timer = FALSE, !.page = IF p.dests # {} THEN "printers-list" ELSE @]

\* on_printer_deletion_undone
Undone(p) ==
    [Refilter([p EXCEPT !.pending = None])
        EXCEPT !.timer = FALSE,
               !.page  = IF p.dests # {} THEN "printers-list" ELSE @]

\* Mutant of Deleted: the timer is not started anew for the second printer.
DeletedUntimed(p, name) ==
    Refilter([Dismissed(p) EXCEPT !.toast = "undo", !.pending = name])

\* on_printer_deleted
Deleted(p, name) ==
    Refilter([Dismissed(p) EXCEPT !.toast = "undo", !.pending = name, !.timer = TRUE])

\* The last printer that is not deleted already is the one being deleted.
IsLast(p) == Cardinality(p.dests) = 1 + Cardinality(p.deleting)

\* actualize_printers_list_cb, its choice of a page: whether CUPS has to be tested
NeedsTest(p) == (p.dests = {} /\ p.new = None) \/ (IsLast(p) /\ p.pending # None)

\* Mutant of Listed: the rows that are added are shown.
ListedUnfiltered(p, dests) ==
    [p EXCEPT !.dests = dests, !.entries = dests, !.hidden = @ \cap dests \cap p.entries]

\* ... and its rows: a renamed printer is not listed under its old name again.
Listed(p, dests) ==
    LET kept    == p.entries \cap dests
        skipped == IF p.renamed.new \in dests THEN {p.renamed.old} ELSE {}
        added   == (dests \ skipped) \ kept
    IN  [p EXCEPT !.dests   = dests,
                  !.entries = kept \cup added,
                  !.hidden  = (p.hidden \cap kept) \cup (added \cap Gone(p))]

Paged(p) == IF NeedsTest(p) THEN p ELSE [p EXCEPT !.page = "printers-list"]

\* Mutant of Removed: the printer stays on deleted_printers.
RemovedUnlisted(p, name) == p

\* printer_removed_cb
Removed(p, name) == [p EXCEPT !.deleting = @ \ {name}]

\* What a handler does besides: each name it puts on deleted_printers goes with a call.
Becomes(p) ==
    /\ panel' = p
    /\ deletions' = [n \in Printers |-> IF n \in p.deleting \ panel.deleting THEN "sent"
                                        ELSE deletions[n]]

AskListing == listings' = Append(listings, Asked)

\* pp_cups_connection_test_async, also while an earlier test is in flight
TestIf(needed) ==
    IF needed THEN testing < MaxTests /\ testing' = testing + 1 ELSE UNCHANGED testing

\* The panel is gone, with the calls it would cancel.
Ends ==
    /\ alive' = FALSE /\ panel' = Blank
    /\ listings' = <<>> /\ testing' = 0 /\ adding' = None

------------------------------------------------------------------------------
(* The panel *)

\* cc_printers_panel_init, with or without a polkit permission
Init ==
    /\ queues \in SUBSET Printers
    /\ up \in BOOLEAN
    /\ listings \in {<<Asked>>, <<Asked, Asked>>}
    /\ testing = 0
    /\ deletions = [p \in Printers |-> "none"]
    /\ adding = None
    /\ panel = Blank
    /\ alive = TRUE
    /\ verdict = [p \in Printers |-> "keep"]

\* The user removes a printer whose row is shown.  If self->toast is a toast that is
\* gone, dismissing it has no defined outcome: the process may end.
Delete(name) ==
    /\ alive /\ panel.page = "printers-list"
    /\ name \in panel.entries \ panel.hidden
    /\ \/ /\ Becomes(Deleted(panel, name))
          /\ TestIf(IsLast(panel'))
          /\ UNCHANGED <<listings, adding, alive>>
       \/ panel.toast = "freed" /\ Ends /\ UNCHANGED deletions
    /\ verdict' = [verdict EXCEPT ![name] = "delete"]
    /\ UNCHANGED <<queues, up>>

\* The button of the toast, which then dismisses itself
Undo ==
    /\ alive /\ panel.toast = "undo"
    /\ Becomes(Dismissed(Undone(panel)))
    /\ verdict' = [p \in Printers |-> IF p = panel.pending THEN "keep" ELSE verdict[p]]
    /\ UNCHANGED <<queues, up, calls, alive>>

ToastExpires ==
    /\ alive /\ panel.toast = "undo"
    /\ Becomes(Dismissed(panel))
    /\ UNCHANGED <<queues, up, calls, alive, verdict>>

\* on_remove_printer_timeout
Timeout ==
    /\ alive /\ panel.timer
    /\ Becomes(Dismissed(panel))
    /\ UNCHANGED <<queues, up, calls, alive, verdict>>

\* The answer of PrinterDelete arrives, in time or after the panel is gone.
PrinterRemoved(name) ==
    /\ deletions[name] = "answered"
    /\ panel' = IF alive THEN Removed(panel, name) ELSE panel
    /\ deletions' = [deletions EXCEPT ![name] = "none"]
    /\ UNCHANGED <<queues, up, calls, alive, verdict>>

\* actualize_printers_list_cb, for any of the listings in flight
ListingArrives(i) ==
    /\ alive /\ listings[i].read
    /\ LET listed == Listed(panel, listings[i].dests)
       IN  /\ Becomes(Paged(listed))
           /\ TestIf(NeedsTest(listed))
    /\ listings' = RemoveAt(listings, i)
    /\ UNCHANGED <<queues, up, adding, alive, verdict>>

\* set_current_page
PageTested ==
    /\ alive /\ testing > 0
    /\ panel' = [panel EXCEPT !.page = IF up THEN "empty-state" ELSE "no-cups-page"]
    /\ testing' = testing - 1
    /\ UNCHANGED <<queues, up, listings, deletions, adding, alive, verdict>>

\* Notifications of CUPS, changes of a printer's details or of the permission
Notified ==
    /\ alive /\ Len(listings) < MaxListings
    /\ AskListing
    /\ UNCHANGED <<queues, up, testing, deletions, adding, panel, alive, verdict>>

\* on_printer_renamed: the entry that reports it has its old name.
Renamed(old, new) ==
    /\ alive /\ old \in panel.entries /\ new \in queues \ {old}
    /\ panel' = [panel EXCEPT !.renamed = [old |-> old, new |-> new]]
    /\ UNCHANGED <<queues, up, calls, deletions, alive, verdict>>

\* new_printer_dialog_response_cb: the button is insensitive once a name is set.
Add(name) ==
    /\ alive /\ panel.new = None /\ panel.page \in {"printers-list", "empty-state"}
    /\ Len(listings) < MaxListings
    /\ panel' = [panel EXCEPT !.new = name]
    /\ adding' = name
    /\ AskListing
    /\ UNCHANGED <<queues, up, testing, deletions, alive, verdict>>

\* printer_add_async_cb: a toast that is there is added again, with its time starting
\* anew, and shows the failure; a new one has no handler for "dismissed".
Added ==
    /\ alive /\ adding # None
    /\ \/ up /\ queues' = queues \cup {adding} /\ UNCHANGED panel
       \/ /\ panel' = [panel EXCEPT !.toast = IF @ = "none" THEN "plain" ELSE @]
          /\ UNCHANGED queues
    /\ adding' = None
    /\ AskListing
    /\ UNCHANGED <<up, testing, deletions, alive, verdict>>

\* The new toast of a failure goes, and self->toast still points to it.
PlainToastExpires ==
    /\ alive /\ panel.toast = "plain"
    /\ panel' = [panel EXCEPT !.toast = "freed"]
    /\ UNCHANGED <<queues, up, calls, deletions, alive, verdict>>

\* cc_printers_panel_dispose: a deletion that can still be undone is carried out, and what
\* is in flight is cancelled.  (The test of the connection is not: its answer would use a
\* panel that is gone, which is left out here.)
Dispose ==
    /\ alive /\ Ends
    /\ deletions' = [p \in Printers |-> IF p = panel.pending THEN "sent" ELSE deletions[p]]
    /\ UNCHANGED <<queues, up, verdict>>

------------------------------------------------------------------------------
(* CUPS and cups-pk-helper *)

\* The thread of a listing reads the printers.
ReadListing(i) ==
    /\ ~listings[i].read
    /\ listings' = [listings EXCEPT ![i] = [read  |-> TRUE,
                                            dests |-> IF up THEN queues ELSE {}]]
    /\ UNCHANGED <<queues, up, testing, deletions, adding, panel, alive, verdict>>

\* PrinterDelete succeeds, or fails.
RunDeletion(name) ==
    /\ deletions[name] = "sent"
    /\ deletions' = [deletions EXCEPT ![name] = "answered"]
    /\ queues' \in {queues, queues \ {name}}
    /\ UNCHANGED <<up, calls, panel, alive, verdict>>

\* Other programs add and remove printers.
ChangeQueues ==
    /\ up
    /\ \E name \in Printers : queues' \in {queues \cup {name}, queues \ {name}}
    /\ queues' # queues
    /\ UNCHANGED <<up, calls, deletions, panel, alive, verdict>>

\* CUPS stops or starts.
Flip ==
    /\ up' = ~up
    /\ UNCHANGED <<queues, calls, deletions, panel, alive, verdict>>

Next ==
    \/ \E name \in Printers : Delete(name) \/ PrinterRemoved(name) \/ RunDeletion(name)
    \/ \E name \in Additions : Add(name)
    \/ \E pair \in Renamings : Renamed(pair[1], pair[2])
    \/ Undo \/ ToastExpires \/ PlainToastExpires \/ Timeout \/ Dispose
    \/ \E i \in DOMAIN listings : ReadListing(i) \/ ListingArrives(i)
    \/ PageTested \/ Notified \/ Added \/ ChangeQueues \/ Flip

Spec == Init /\ [][Next]_vars /\ WF_vars(Timeout)

------------------------------------------------------------------------------
(* Properties *)

\* Types of all variables; listings grow past their bound by what a handler asks for.
TypeOK ==
    /\ queues \in SUBSET Printers /\ up \in BOOLEAN
    /\ listings \in Seq(Listings)
    /\ testing \in Nat
    /\ deletions \in [Printers -> {"none", "sent", "answered"}]
    /\ adding \in Names
    /\ panel \in PanelStates
    /\ alive \in BOOLEAN
    /\ verdict \in [Printers -> {"keep", "delete"}]

\* While a deletion can be undone or is being carried out, the row of the printer is not
\* shown, whatever listings arrive meanwhile: it cannot be deleted a second time.
DeletedIsHidden ==
    alive => panel.entries \cap Gone(panel) \subseteq panel.hidden

\* deleted_printers holds the printers whose deletion has not been answered, until the
\* panel goes; each of them at most once, and never the one that can still be undone.
DeletionsAreTracked ==
    alive => /\ panel.deleting = {p \in Printers : deletions[p] # "none"}
             /\ panel.pending \notin panel.deleting

\* CUPS is asked to delete a printer only if the last thing the user said of that printer
\* is to delete it: an undone deletion is never carried out, by no timer, toast or closing.
OnlyDeletedAreRemoved ==
    [][\A p \in Printers : deletions[p] = "none" /\ deletions'[p] # "none"
                              => verdict'[p] = "delete"]_vars

\* Every deletion is undone or sent to CUPS in the end, also when the panel is closed.
DeletionsAreSent ==
    \A p \in Printers :
        (verdict[p] = "delete" /\ deletions[p] = "none" /\ panel.pending = p)
            ~> (verdict[p] = "keep" \/ deletions[p] # "none")
==============================================================================
