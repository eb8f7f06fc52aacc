----------------------- MODULE FiberEditorProperties -----------------------
(* What must hold of the page that attaches fibers. *)
EXTENDS FiberEditor

TypeOK ==
    /\ PageTypeOK
    /\ \A p \in Plans : \A s \in Slot : db[p][s] \in Row
    /\ DOMAIN page = DOMAIN Empty
    /\ page.route \in Plan \union {Closed}
    /\ \A s \in DOMAIN page.held : page.held[s] \in Fiber \union {Removed}
    /\ page.reset \subseteq Port /\ page.saving \in BOOLEAN

(***************************************************************************)
(* No fiber is put on two sides of ports, whatever is taken off, put on    *)
(* and reset before it is stored: a fiber taken off stays reserved, so     *)
(* that resetting its port can put it back.  (Two sides that are loaded    *)
(* with one fiber keep it: a port that is reset in the plan gets its fiber *)
(* back from the current state, wherever the plan put it meanwhile.)       *)
(***************************************************************************)
NoFiberTwice ==
    Loaded => \A s, t \in PanelSlots : page.held[s] = page.held[t] /\ page.held[s] \in Fiber =>
        \/ s = t
        \/ page.held[s] = page.state.usage[s] /\ page.held[t] = page.state.usage[t]

(***************************************************************************)
(* What was stored is what the page showed, on every side of the panel's   *)
(* ports: also on those of which nothing was sent.  (If no port was reset, *)
(* and the page showed the plan it stored to.)                             *)
(***************************************************************************)
StoredAsShown ==
    \A c \in calls : (c.kind = "store" /\ c.answer = TRUE
                        /\ c.what.reset = {} /\ c.what.seen = c.what.plan) =>
        \A s \in PanelSlots : EffectivePortUsage(db, c.what.plan, s) = c.what.held[s]

(***************************************************************************)
(* A splice is used on both sides or on none: the page stores only panels  *)
(* of which this holds.                                                    *)
(***************************************************************************)
SpliceWhole ==
    \A p \in Plans : \A s \in PanelSlots : PortType[s[1]] = "Splice" =>
        ((EffectivePortUsage(db, p, <<s[1], "Front">>) = Removed)
             = (EffectivePortUsage(db, p, <<s[1], "Back">>) = Removed))

(***************************************************************************)
(* Changes the user discarded are lost: they are not stored later.         *)
(***************************************************************************)
DiscardedIsLost ==
    \A c \in calls : c.kind = "store" => DOMAIN c.what.changes \intersect c.what.dropped = {}
=============================================================================
