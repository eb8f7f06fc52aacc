----------------------- MODULE CableEditorProperties -----------------------
(* What must hold of the page of a cable. *)
EXTENDS CableEditor

(***************************************************************************)
(* Storing sends only what the user changed of the data shown, so changes  *)
(* somebody else stored in the other fields stay.  The exception is the    *)
(* structure: of the two counts of bundles and of fibers one may be sent   *)
(* though only the other was typed, but then as it was loaded (what        *)
(* somebody else stored since in that count is overwritten).               *)
(***************************************************************************)
OnlyTypedIsSent ==
    \A c \in calls : c.kind = "update" =>
        LET counts == {"bundle_count", "fiber_count"}
            w == c.what
        IN  /\ w.fields \ {"fibers"} \subseteq w.typed
            /\ "fibers" \in w.fields => w.typed \intersect counts # {}
            /\ \A n \in counts \ w.typed : w[n] = w.loaded[n]

(* A path whose segments join and which passes no manhole twice. *)
Joined(path) ==
    \A i \in DOMAIN path.segments :
        EndsOf(path.segments[i].duct)
            = {IF i = 1 THEN path.near ELSE path.segments[i - 1].far, path.segments[i].far}
Simple(path) ==
    Cardinality({path.near} \union {path.segments[i].far : i \in DOMAIN path.segments})
        = Len(path.segments) + 1

(***************************************************************************)
(* Only the ducts of a path are stored.  The backend rebuilds the path the *)
(* user sees from them; a path of one duct may be turned.                  *)
(***************************************************************************)
WhatIsBuiltAligns ==
    LET path == page.path
        ducts == DuctSequence(path)
    IN  (path # NoPath /\ Joined(path) /\ Simple(path)) =>
            /\ Alignable(ducts)
            /\ PathFromDucts(ducts) \in {path} \union IF Len(ducts) = 1 THEN {Reverse(path)} ELSE {}
=============================================================================
