------------------------- MODULE PanelTreeProperties -------------------------
(* What must hold of the page of a manhole's panels. *)
EXTENDS PanelTree

TypeOK ==
    /\ PageTypeOK
    /\ \A k \in Panel : db[k] = NoPanel \/ (db[k].parent \in Panel \union {Root} /\ db[k].order \in Nat)
    /\ DOMAIN page = DOMAIN Empty
    /\ page.route \in Cabinet \union {Closed}
    /\ page.route # Closed => Keys(page.tree) \subseteq Key /\ DOMAIN page.tree.kids = Keys(page.tree) \union {Root}

(***************************************************************************)
(* No panel is lost or doubled by rearranging the forest: each is reached  *)
(* from the top exactly once.                                              *)
(***************************************************************************)
TreeIsWhole ==
    page.route # Closed =>
        /\ Keys(page.tree) = ToSet(Below(page.tree))
        /\ Len(Below(page.tree)) = Cardinality(Keys(page.tree))

(***************************************************************************)
(* A new panel is sent before the panels it is the parent of, whatever was *)
(* created, moved and stored before: the backend knows the ids of new      *)
(* parents from the changes before.                                        *)
(***************************************************************************)
ParentsFirst ==
    \A c \in calls : c.kind = "store" =>
        \A i \in DOMAIN c.what.changes : c.what.changes[i].parent \in New =>
            \E j \in 1 .. i - 1 : c.what.changes[j].id = c.what.changes[i].parent
=============================================================================
