----------------------------- MODULE PanelFibers -----------------------------
(***************************************************************************)
(* What the two pages that attach fibers to the ports of a panel share:    *)
(* the request for what the panel holds in a plan, the one that stores     *)
(* changes, and the backend behind both.  db is the table port_usage.      *)
(* Such a page stays when the user chooses another plan in its breadcrumb. *)
(*                                                                         *)
(* Left out: cables that don't end at the panel's manhole, whose fibers    *)
(* can only be taken off, and where the fibers lead.                       *)
(***************************************************************************)
EXTENDS Page, PortUsage, SequencesExt

CONSTANTS
    PortType,    \* "Splice", "Connector" or "Loop"
    PanelPorts,  \* the ports of the panel, in their order
    Kabels,      \* the cables
    Usages       \* what may be stored at first

PanelSlots == {s \in Slot : Contains(PanelPorts, s[1])}
Here(s) == SchachtOf[s[1]] = SchachtOf[PanelPorts[1]]
CablesHere == {c \in Cable : SchachtOf[PanelPorts[1]] \in KabelEnde(Kabels[c].path)}

(* A panel is in one manhole; the current state is no plan.                *)
Known ==
    /\ Usages \subseteq [Plans -> [Slot -> Row]]
    /\ Baseline \notin Plan /\ Closed \notin Plan
    /\ NoRow # Removed /\ {NoRow, Removed} \intersect Fiber = {}
    /\ \A s \in PanelSlots : Here(s)
    /\ TRUE \notin {Unanswered, Failed}

(* PlannedPanel::fetch_situation: what the slots hold in plan p and in the *)
(* current state, which of them have a row, which a row of the plan; the   *)
(* fibers used in the manhole, and those a row of the plan uses.           *)
Situation(p) ==
    [plan |-> p,
     usage |-> [s \in PanelSlots |-> EffectivePortUsage(db, p, s)],
     current |-> [s \in PanelSlots |-> EffectivePortUsage(db, Baseline, s)],
     rows |-> {s \in PanelSlots : db[p][s] # NoRow \/ db[Baseline][s] # NoRow},
     modified |-> {s \in PanelSlots : db[p][s] # NoRow},
     used |-> {f \in Fiber : \E s \in Slot : Here(s) /\ EffectivePortUsage(db, p, s) = f},
     planned |-> {f \in Fiber : \E s \in Slot : Here(s) /\ db[p][s] = f}]

ServeFetch(c) ==
    /\ Waiting(c, "fetch") /\ Reply(c, Situation(c.what.plan))
    /\ UNCHANGED <<db, page, spent>>

(* set_port_usage: a change is a fiber (Attach), Removed or NoRow (Reset). *)
ServeStore(c) ==
    /\ Waiting(c, "store")
    /\ LET slots == DOMAIN c.what.changes
           after == [db EXCEPT ![c.what.plan] =
                        [s \in Slot |-> IF s \in slots THEN c.what.changes[s] ELSE @[s]]]
       IN  IF IssuesOfPorts(after, Kabels, c.what.plan, slots)
                 \subseteq IssuesOfPorts(db, Kabels, c.what.plan, slots)
           THEN Reply(c, TRUE) /\ db' = after
           ELSE Reply(c, Failed) /\ UNCHANGED db
    /\ UNCHANGED <<page, spent>>

-----------------------------------------------------------------------------
(* The page *)

Loaded == page.state \notin {Pending, Failed}
Form == Loaded /\ ~ page.saving
Editing == Form /\ Spend("edits") /\ UNCHANGED <<db, calls>>
Arrival(c, kind) == Answered(c, kind) /\ Arrived(c) /\ UNCHANGED <<db, spent>>

(* Msg::FetchData, Msg::Error *)
Fetch(p) == Request("fetch", [plan |-> p])
FetchFailed(c) ==
    /\ c.answer = Failed /\ page' = [page EXCEPT !.state = Failed]
    /\ Arrival(c, "fetch")

(* Msg::Saved, Msg::SaveFailed; without changes nothing is requested. *)
SaveUnchanged ==
    /\ page' = [page EXCEPT !.state = Pending, !.saving = FALSE]
    /\ Send(Fetch(page.route))
Saved(c) ==
    /\ Answered(c, "store")
    /\ IF c.answer = Failed
       THEN page' = [page EXCEPT !.saving = FALSE] /\ Arrived(c)
       ELSE /\ page' = [page EXCEPT !.state = Pending, !.saving = FALSE]
            /\ Exchange({c}, {Fetch(page.route)})
    /\ UNCHANGED <<db, spent>>
=============================================================================
