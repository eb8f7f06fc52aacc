----------------------- MODULE CircuitPlanProperties -----------------------
(***************************************************************************)
(* What must hold of the circuits planned, against the graph of slots:     *)
(* two slots are joined if they hold the same fiber at different ports, or *)
(* are the two sides of one port.                                          *)
(***************************************************************************)
EXTENDS CircuitPlan

Neighbours(s) == IF use[s] \in Fiber THEN AlongFiber(use, s) \union ThroughPort(use, s) ELSE {}

(* The slots a signal reaches from s, however many hops away. *)
Reach(s) ==
    LET hops == Cardinality({t \in Slot : use[t] \in Fiber})
        reach[n \in 0 .. hops] ==
            IF n = 0 THEN {s}
            ELSE UNION {{t} \union Neighbours(t) : t \in reach[n - 1]}
    IN  reach[hops]

(* Connectors p and q are the two ends of one line of fibers. *)
Linked(p, q) ==
    /\ p # q
    /\ PortType[p] = "Connector" /\ PortType[q] = "Connector"
    /\ Back(q) \in Reach(Back(p))
    /\ \A s \in {Back(p), Back(q)} : Cardinality(Neighbours(s)) = 1

(* No fiber is at more than two port sides: the plan has no usage that is  *)
(* listed as FiberTwice (a fiber has two ends).                            *)
EachEndOnce ==
    \A f \in Fiber : Cardinality({s \in Slot : use[s] = f}) <= 2

(* A line of fibers through a connector (whose front is used as well) ends *)
(* at the backs of two other connectors and passes no other such one.      *)
(* Elsewhere the outcome depends on the order: the connector in the        *)
(* middle, taken first, is paired with the one end; taken last, it is only *)
(* passed on the way to the other end.  And two in the middle may be       *)
(* paired with one end each, without any issue.                            *)
Through(p) == PortType[p] = "Connector" /\ use[<<p, "Front">>] \in Fiber
PassesWhole ==
    \A p \in Port : Through(p) =>
        /\ \A t \in Reach(Back(p)) : Cardinality(Neighbours(t)) <= 1 =>
               t[1] # p /\ t[2] = "Back" /\ PortType[t[1]] = "Connector"
        /\ \A q \in Port : q # p /\ Through(q) => Back(q) \notin Reach(Back(p))
Sound == EachEndOnce /\ PassesWhole

(* The circuits, defined on the graph: one for each two rear ports some    *)
(* linked connectors are assigned to.                                      *)
LinkedRearPorts(r1, r2) ==
    {m \in Port \X Port : netbox_port[m[1]] = r1 /\ netbox_port[m[2]] = r2 /\ Linked(m[1], m[2])}
TrueCircuits ==
    {[ports |-> {r[1], r[2]}, members |-> LinkedRearPorts(r[1], r[2]),
      cid |-> CHOOSE m \in LinkedRearPorts(r[1], r[2]) :
                  \A o \in LinkedRearPorts(r[1], r[2]) : m[1] <= o[1]] :
        r \in {r \in RearPort \X RearPort : r[1] < r[2] /\ LinkedRearPorts(r[1], r[2]) # {}}}

(* Without issues the circuits are those of the graph, with the same ids,  *)
(* in whatever order the connectors were taken: so the next sync of the    *)
(* same plan finds its circuits again by their ids.                        *)
CircuitsAreLinks ==
    pc = "planned" /\ issues = {} /\ Sound => circuits = TrueCircuits

(* Whatever the plan holds, also fibers held twice: no rear port is in two *)
(* circuits and no id is given twice, on which the comparison with the     *)
(* circuits in Netbox rests (it takes the first one with the id).          *)
CircuitsDisjoint ==
    \A c, d \in circuits : c # d => c.cid # d.cid /\ c.ports \cap d.ports = {}

(* The two ends a usage's signal has, followed along the fiber and through *)
(* the port, are the ends of its line of fibers; it has none exactly if    *)
(* the line is a circle.                                                   *)
SignalEndsAgree ==
    EachEndOnce => \A s \in Slot : use[s] \in Fiber =>
        UNION (Ends(use, s, "Fiber") \union Ends(use, s, "Port"))
            = {t \in Reach(s) : Cardinality(Neighbours(t)) <= 1}

(* A connection between connectors is never dropped silently: of two that  *)
(* are linked, the circuit of their rear ports is planned, or an issue     *)
(* keeps Netbox as it is.                                                  *)
NoLinkLost ==
    pc = "planned" /\ Sound =>
        \A p, q \in Port : Linked(p, q) =>
            issues # {} \/ \E c \in circuits : <<p, q>> \in c.members \/ <<q, p>> \in c.members
=============================================================================
