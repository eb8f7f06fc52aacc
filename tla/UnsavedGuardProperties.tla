----------------------- MODULE UnsavedGuardProperties -----------------------
(* What must hold of the question before a page is left. *)
EXTENDS UnsavedGuard

TypeOK ==
    /\ PageTypeOK
    /\ page.at \in DOMAIN page.entries
    /\ \A i \in DOMAIN page.entries : page.entries[i] \in Address
    /\ {page.shown, page.pageUrl} \subseteq Address
    /\ page.dialog = NoDialog \/ page.dialog.to \in Address

(***************************************************************************)
(* The address is the one of the page shown, also while the question is    *)
(* open after the browser went back, and after it went back again.         *)
(***************************************************************************)
ShownIsTheAddress == page.shown = Url(page)

(***************************************************************************)
(* Changes go only by being stored or discarded, or with the object the    *)
(* user deletes: not by a link or a step in the history, also after        *)
(* earlier changes were discarded.  The exception is what is entered while *)
(* a save is under way: nothing is asked when its answer overwrites it.    *)
(* (What is entered while an object is deleted goes with the object.)      *)
(***************************************************************************)
Discarding == page.dialog # NoDialog /\ page' = [page' EXCEPT !.dialog = NoDialog, !.shown = page.dialog.to]
Done(c, kind) == c \in calls \ calls' /\ c.kind = kind /\ c.answer = TRUE
Stored == \E c \in calls : Done(c, "save") /\ c.what.edits = spent.edits
Overwritten == \E c \in calls : Done(c, "save") /\ c.what.edits # spent.edits
WithObject == \E c \in calls : Done(c, "delete")
LossIsChosen ==
    page.unsaved /\ ~ page'.unsaved => Discarding \/ Stored \/ Overwritten \/ WithObject
=============================================================================
