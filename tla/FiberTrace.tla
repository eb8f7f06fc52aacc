----------------------------- MODULE FiberTrace -----------------------------
(***************************************************************************)
(* Where a signal goes in a plan: along a fiber to another port and        *)
(* through a port to its other side, alternately (PortUsage::trace, a      *)
(* recursive query), and what is made of it: the end of a usage's signal,  *)
(* the ports a plan changes.                                               *)
(*                                                                         *)
(* use is what the slots hold in the plan (effective_port_usage): a fiber  *)
(* or Removed.                                                             *)
(***************************************************************************)
EXTENDS PortUsage

EffectiveUsage(pu, p) == [s \in Slot |-> EffectivePortUsage(pu, p, s)]

PortSide == {"Front", "Back"}
Other(side) == IF side = "Front" THEN "Back" ELSE "Front"
FirstHop == {"Fiber", "Port"}

AlongFiber(use, s) == {t \in Slot : t[1] # s[1] /\ use[s] \in Fiber /\ use[t] = use[s]}
ThroughPort(use, s) == {t \in Slot : t[1] = s[1] /\ t[2] # s[2] /\ use[t] \in Fiber}

(* A fault: the walk goes on along the fiber, whatever it did before. *)
AlongOnly(use, s, n, first) == AlongFiber(use, s)

(* The slots the n-th hop leads to from slot s. *)
Hop(use, s, n, first) ==
    IF (first = "Fiber") = (n % 2 = 1) THEN AlongFiber(use, s) ELSE ThroughPort(use, s)

(* The rows of the walk by their step.  Where a fiber is held more than    *)
(* twice it branches.  A row that reaches a slot its own walk reached      *)
(* before is closed, and the walk stops there.                             *)
Walk(use, start, first) ==
    LET hops == Cardinality({s \in Slot : use[s] \in Fiber})
        from(r) == {[step |-> r.step + 1, slot |-> t, closed |-> t \in r.visited,
                     visited |-> r.visited \union {t}] : t \in Hop(use, r.slot, r.step + 1, first)}
        rows[n \in 0 .. hops] ==
            IF n = 0
            THEN {[step |-> 0, slot |-> start, closed |-> FALSE, visited |-> {start}]}
            ELSE LET before == rows[n - 1]
                 IN  before \union UNION {from(r) : r \in {r \in before : r.step = n - 1 /\ ~ r.closed}}
    IN  rows[hops]

(* ORDER BY step, port_id, side (the front before the back). *)
SideNo(side) == IF side = "Front" THEN 0 ELSE 1
Before(r, q) ==
    \/ r.step < q.step
    \/ r.step = q.step /\ r.slot[1] < q.slot[1]
    \/ r.step = q.step /\ r.slot[1] = q.slot[1] /\ SideNo(r.slot[2]) < SideNo(q.slot[2])
LastRows(rows) == {r \in rows : \A q \in rows : ~ Before(r, q)}

(* The results a trace can have: which of several rows with the same slot  *)
(* is the last one is open.  last is the last usage, reached tells if      *)
(* there is one beside the first.                                          *)
Traces(use, start, first) ==
    LET rows == Walk(use, start, first)
        open == {r \in rows : ~ r.closed}
    IN  {[looped |-> r.closed, last |-> q.slot, reached |-> q.step > 0] :
            r \in LastRows(rows), q \in LastRows(open)}

(* Trace::end, for cableSideEndPort and panelSideEndPort: none if the      *)
(* signal runs in a circle.                                                *)
Ends(use, start, first) ==
    {IF t.looped THEN {} ELSE {t.last} : t \in Traces(use, start, first)}

(* PortChange::of: the ports whose fibers a plan changes, for its work     *)
(* order.  A row without a fiber takes it away; a row equal to the current *)
(* state changes nothing.                                                  *)
Holds(pu, p, s) == IF pu[p][s] \in Fiber THEN pu[p][s] ELSE Removed
Planned(pu, p, s) == IF pu[p][s] = NoRow THEN Holds(pu, Baseline, s) ELSE Holds(pu, p, s)
ChangedPorts(pu, p) ==
    IF p = Baseline THEN {}
    ELSE {port \in Port : \E side \in Side :
              Planned(pu, p, <<port, side>>) # Holds(pu, Baseline, <<port, side>>)}
=============================================================================
