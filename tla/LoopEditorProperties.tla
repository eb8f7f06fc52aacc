------------------------ MODULE LoopEditorProperties ------------------------
(* What must hold of the page that loops fibers. *)
EXTENDS LoopEditor

TypeOK ==
    /\ PageTypeOK
    /\ \A p \in Plans : \A s \in Slot : db[p][s] \in Row
    /\ DOMAIN page = DOMAIN Empty
    /\ page.route \in Plan \union {Closed}
    /\ {page.a, page.b} \subseteq Cable \union {NoCable} /\ page.saving \in BOOLEAN
    /\ \A n \in DOMAIN page.fibers : page.fibers[n].status \in {"Free", "Looped", "UsedElsewhere"}

(***************************************************************************)
(* A loop has a fiber of the same number on both sides, or none: in every  *)
(* plan, also after the plan was switched, a save failed and loops moved   *)
(* to other ports because one before them was freed.  Of panels only whose *)
(* loops are all of one pair of cables: the page shows one pair and sends  *)
(* what differs from it, on one side of a port perhaps.                    *)
(***************************************************************************)
LoopsStayWhole ==
    \A p \in Plans : \A port \in ToSet(PanelPorts) : PortType[port] = "Loop" =>
        LET front == EffectivePortUsage(db, p, <<port, "Front">>)
            back == EffectivePortUsage(db, p, <<port, "Back">>)
        IN  IF Removed \in {front, back} THEN front = back
            ELSE front.bundle = back.bundle /\ front.fiber = back.fiber

(***************************************************************************)
(* Once a pair is stored, the numbers looped on the panel are those the    *)
(* page showed as looped, each on one port with both cables.  (If there    *)
(* are ports enough, and the page showed the plan it stored to.)           *)
(***************************************************************************)
StoredAsShown ==
    \A c \in calls : (c.kind = "store" /\ c.answer = TRUE /\ c.what.seen = c.what.plan
                        /\ Cardinality(c.what.looped) <= Len(PanelPorts)) =>
        c.what.looped =
            {n \in Numbers(c.what.a) : \E port \in ToSet(PanelPorts) :
                /\ EffectivePortUsage(db, c.what.plan, <<port, "Front">>) = FiberOf(c.what.a, n)
                /\ EffectivePortUsage(db, c.what.plan, <<port, "Back">>) = FiberOf(c.what.b, n)}
=============================================================================
