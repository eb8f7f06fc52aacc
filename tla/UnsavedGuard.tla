---------------------------- MODULE UnsavedGuard ----------------------------
(***************************************************************************)
(* The question before a page with unsaved changes is left (UnsavedGuard), *)
(* the history of the browser and the router, which shows a page for each  *)
(* address.  Addresses of one component (PageOf) keep what was entered.    *)
(* The guard sees clicks on links and steps through the history before the *)
(* router does.                                                            *)
(*                                                                         *)
(* Left out: links that leave the app or open elsewhere, closing the       *)
(* window, dialogs of other kinds.                                         *)
(***************************************************************************)
EXTENDS Page

CONSTANTS Address, Start, PageOf, NoDialog

(* Where a dialog leads, and whether that takes the place of the entry.    *)
Dialog == [to : Address, replace : BOOLEAN]
Known == Start \in Address /\ NoDialog \notin Dialog

(* The page (its state is Page's variable page): the history and where the *)
(* browser is in it, what the router shows, whether that has changes       *)
(* (State::unsaved), and the guard's leaving, page_url and dialog.         *)
Init ==
    /\ db = {} /\ calls = {} /\ spent = NothingSpent
    /\ page = [entries |-> <<Start>>, at |-> 1, shown |-> Start, unsaved |-> FALSE,
               pageUrl |-> Start, leaving |-> FALSE, dialog |-> NoDialog]

Url(p) == p.entries[p.at]
Pushed(p, url) == [p EXCEPT !.entries = Append(SubSeq(@, 1, p.at), url), !.at = @ + 1]
Replaced(p, url) == [p EXCEPT !.entries[p.at] = url]

HasUnsaved(p) == p.unsaved /\ ~ p.leaving

(* Unsaved::set, after every render. *)
Rendered(p) == IF p.unsaved THEN [p EXCEPT !.pageUrl = Url(p)] ELSE p

(* The router reads the address; a page that is gone has no changes.       *)
Routed(p) ==
    Rendered([p EXCEPT !.shown = Url(p), !.unsaved = @ /\ PageOf[Url(p)] = PageOf[p.shown]])

(* A fault: the address stays where the browser went. *)
Stayed(p) == p
(* The address of the page comes back as a new entry. *)
CameBack(p) == Pushed(p, p.pageUrl)

(* on_pop_state, and the router if the guard lets it pass.                 *)
PopState(p) ==
    IF HasUnsaved(p) THEN [CameBack(p) EXCEPT !.dialog = [to |-> Url(p), replace |-> TRUE]]
    ELSE Routed(p)

(* go_to *)
WentTo(p, url, replace) == PopState(IF replace THEN Replaced(p, url) ELSE Pushed(p, url))

(* The page becomes p; the answers for a page that is gone are dropped.    *)
Becomes(p, done) ==
    /\ page' = p
    /\ calls' = IF PageOf[p.shown] = PageOf[page.shown] THEN calls \ done ELSE {}

-----------------------------------------------------------------------------
Edit ==
    /\ Spend("edits") /\ page.dialog = NoDialog
    /\ page' = Rendered([page EXCEPT !.unsaved = TRUE])
    /\ UNCHANGED <<db, calls>>

(* on_click, and the link if the guard lets it pass. *)
ClickLink(to) ==
    /\ Spend("opens") /\ page.dialog = NoDialog /\ to # Url(page)
    /\ Becomes(IF HasUnsaved(page) THEN [page EXCEPT !.dialog = [to |-> to, replace |-> FALSE]]
               ELSE Routed(Pushed(page, to)), {})
    /\ UNCHANGED db

(* Back and forward in the browser, also while the question is open.       *)
Browse(i) ==
    /\ Spend("opens") /\ i # page.at
    /\ Becomes(PopState([page EXCEPT !.at = i]), {})
    /\ UNCHANGED db

(* A fault: leaving stays set. *)
StillLeaving(p) == p
Left(p) == [p EXCEPT !.leaving = FALSE]

(* on_discard, on_keep *)
Discard ==
    /\ page.dialog # NoDialog
    /\ LET p == [page EXCEPT !.dialog = NoDialog, !.leaving = TRUE]
       IN  Becomes(Left(WentTo(p, page.dialog.to, page.dialog.replace)), {})
    /\ UNCHANGED <<db, spent>>
Keep ==
    /\ page.dialog # NoDialog
    /\ page' = [page EXCEPT !.dialog = NoDialog]
    /\ UNCHANGED <<db, calls, spent>>

(* A page sends its changes, or deletes its object (after a question of    *)
(* its own).  The user can go on; edits counts what was entered by then.   *)
Asking(kind) ==
    /\ page.dialog = NoDialog
    /\ Send(Request(kind, [page |-> PageOf[page.shown], edits |-> spent.edits]))
    /\ UNCHANGED <<db, page>>
Save == page.unsaved /\ Asking("save") /\ UNCHANGED spent
Delete == Spend("opens") /\ Asking("delete")
Serve(c) ==
    /\ c.answer = Unanswered
    /\ Reply(c, TRUE) /\ UNCHANGED <<db, page, spent>>

(* What was stored is shown, in place of all that was entered, also since; *)
(* or the page goes to another, unasked (navigate).                        *)
Saved(c) ==
    /\ Answered(c, "save")
    /\ \/ c.answer = Failed /\ Becomes(page, {c})
       \/ /\ c.answer # Failed
          /\ LET p == [page EXCEPT !.unsaved = FALSE]
             IN  \/ Becomes(p, {c})
                 \/ \E to \in Address \ {Url(page)} : Becomes(Routed(Pushed(p, to)), {c})
    /\ UNCHANGED <<db, spent>>

(* A page whose object is gone goes to the list, unasked (navigate). *)
Deleted(c) ==
    /\ Answered(c, "delete")
    /\ \/ c.answer = Failed /\ Becomes(page, {c})
       \/ /\ c.answer # Failed
          /\ \E to \in Address :
                /\ PageOf[to] # PageOf[page.shown]
                /\ Becomes(Routed(Pushed(page, to)), {c})
    /\ UNCHANGED <<db, spent>>

Next ==
    \/ Edit \/ Discard \/ Keep \/ Save \/ Delete
    \/ \E to \in Address : ClickLink(to)
    \/ \E i \in DOMAIN page.entries : Browse(i)
    \/ \E c \in calls : Serve(c) \/ Saved(c) \/ Deleted(c)
    \/ Refuse

Spec == Init /\ [][Next]_vars
=============================================================================
