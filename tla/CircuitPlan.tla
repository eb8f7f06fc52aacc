---------------------------- MODULE CircuitPlan ----------------------------
(***************************************************************************)
(* The circuits Netbox is to show for a plan, and the issues that forbid   *)
(* to show them: the first half of sync_plan_to_netbox.  The connectors    *)
(* are taken one by one, in the arbitrary order of a hash map, and each is *)
(* traced to its other end; then rear ports of Netbox that are connected   *)
(* only to each other make a circuit.                                      *)
(*                                                                         *)
(* Left out: the length of a circuit (a mean of sums of reals).            *)
(***************************************************************************)
EXTENDS FiberTrace, FiniteSetsExt

CONSTANTS
    PortType,    \* Splice, Connector or Loop of each port
    RearPort,    \* rear ports of Netbox
    NoRearPort,
    NetboxPorts, \* the ways ports may be assigned to rear ports
    Usages       \* what the slots may hold in the plan to show

VARIABLES
    use,         \* what the slots hold in that plan
    netbox_port, \* the rear port each port is assigned to
    remaining,   \* remaining_connector_ports
    port_pairs,  \* <<p1, p2, q1, q2>>: rear ports p1, p2 are connected by ports q1, q2
    issues,
    circuits,    \* planned_circuits
    pc

vars == <<use, netbox_port, remaining, port_pairs, issues, circuits, pc>>

IssueKind == {"MissingNetboxReference", "AsymmetricDuplex", "RoutingLoop", "InvalidTargetReference"}
Issue == [kind : IssueKind, at : Port \union RearPort]
Member == Port \X Port
Circuit == [ports : SUBSET RearPort, members : SUBSET Member, cid : Member]

ASSUME PortAssumption ==
    /\ Port \subseteq Nat /\ IsFiniteSet(Port) /\ RearPort \subseteq Int
    /\ Side = PortSide
    /\ PortType \in [Port -> {"Splice", "Connector", "Loop"}]
    /\ NetboxPorts \subseteq [Port -> RearPort \union {NoRearPort}]
    /\ NoRearPort \notin RearPort
    /\ Usages \subseteq [Slot -> Fiber \union {Removed}]

TypeOK ==
    /\ use \in [Slot -> Fiber \union {Removed}]
    /\ netbox_port \in [Port -> RearPort \union {NoRearPort}]
    /\ remaining \subseteq Port
    /\ port_pairs \subseteq RearPort \X RearPort \X Port \X Port
    /\ issues \subseteq Issue
    /\ circuits \subseteq Circuit
    /\ pc \in {"tracing", "planned"}

Init ==
    /\ use \in Usages /\ netbox_port \in NetboxPorts
    /\ remaining = {p \in Port : PortType[p] = "Connector"}
    /\ port_pairs = {} /\ issues = {} /\ circuits = {}
    /\ pc = "tracing"

At(kind, port) == [kind |-> kind, at |-> port]

-----------------------------------------------------------------------------
(* Taking connector p from those remaining, from the back along its fiber  *)

Take(p) == pc = "tracing" /\ p \in remaining
Back(p) == <<p, "Back">>
TracesOf(p) == Traces(use, Back(p), "Fiber")

(* Nothing is spliced to its back, or the fiber is attached nowhere else. *)
SkipPort(p) ==
    /\ Take(p)
    /\ \/ use[Back(p)] = Removed
       \/ use[Back(p)] \in Fiber /\ \E t \in TracesOf(p) : ~ t.looped /\ ~ t.reached
    /\ remaining' = remaining \ {p}
    /\ UNCHANGED <<use, netbox_port, port_pairs, issues, circuits, pc>>

ReportLoop(p) ==
    /\ Take(p) /\ use[Back(p)] \in Fiber
    /\ \E t \in TracesOf(p) : t.looped
    /\ remaining' = remaining \ {p}
    /\ issues' = issues \union {At("RoutingLoop", p)}
    /\ UNCHANGED <<use, netbox_port, port_pairs, circuits, pc>>

(* The signal ends at port q. *)
EndsAtPort(p, q) ==
    \E t \in TracesOf(p) : ~ t.looped /\ t.reached /\ t.last[1] = q

(* The other end is no connector, or one that was taken before. *)
ReportTarget(p) ==
    /\ Take(p) /\ use[Back(p)] \in Fiber
    /\ \E q \in Port \ (remaining \ {p}) :
          /\ EndsAtPort(p, q)
          /\ issues' = issues \union {At("InvalidTargetReference", q)}
    /\ remaining' = remaining \ {p}
    /\ UNCHANGED <<use, netbox_port, port_pairs, circuits, pc>>

(* A fault: connections are noted also where a rear port is missing. *)
PairUnassigned(p) ==
    /\ Take(p) /\ use[Back(p)] \in Fiber
    /\ \E q \in remaining \ {p} :
          /\ EndsAtPort(p, q)
          /\ remaining' = remaining \ {p, q}
          /\ port_pairs' = port_pairs \union {<<netbox_port[p], netbox_port[q], p, q>>,
                                              <<netbox_port[q], netbox_port[p], q, p>>}
    /\ UNCHANGED <<use, netbox_port, issues, circuits, pc>>

(* The other end is connector q, taken too: both ways of the connection    *)
(* are noted for their rear ports, or the rear ports missing reported.     *)
PairPorts(p) ==
    /\ Take(p) /\ use[Back(p)] \in Fiber
    /\ \E q \in remaining \ {p} :
          LET r1 == netbox_port[p]
              r2 == netbox_port[q]
          IN  /\ EndsAtPort(p, q)
              /\ remaining' = remaining \ {p, q}
              /\ issues' = issues \union
                     {At("MissingNetboxReference", o) : o \in {o \in {p, q} : netbox_port[o] = NoRearPort}}
              /\ port_pairs' = IF NoRearPort \in {r1, r2} THEN port_pairs
                               ELSE port_pairs \union {<<r1, r2, p, q>>, <<r2, r1, q, p>>}
    /\ UNCHANGED <<use, netbox_port, circuits, pc>>

-----------------------------------------------------------------------------
(* Once every connector is taken *)

Partners(r) == {pair[2] : pair \in {pair \in port_pairs : pair[1] = r}}
Connections(r1, r2) ==
    {<<pair[3], pair[4]>> : pair \in {pair \in port_pairs : pair[1] = r1 /\ pair[2] = r2}}

(* Faults: a rear port with several partners makes no issue; the id is     *)
(* made from the ports of the other side; only one side need be connected  *)
(* to no other.                                                            *)
NoAsymmetry == {}
OneSidedPairs == {pair \in RearPort \X RearPort : pair[1] < pair[2] /\ Partners(pair[1]) = {pair[2]}}
AnyCid(members) == CHOOSE m \in members : \A o \in members : m[2] <= o[2]

(* A rear port connected to more than one other. *)
Asymmetric == {r \in RearPort : Cardinality(Partners(r)) > 1}

(* PlannedCircuit::order and cid: the first member by the ports' ids. *)
Cid(members) ==
    CHOOSE m \in members :
        \A o \in members : m[1] < o[1] \/ (m[1] = o[1] /\ m[2] <= o[2])

(* Rear ports connected only to each other, taken from the smaller id. *)
MutualPairs ==
    {pair \in RearPort \X RearPort :
        pair[1] < pair[2] /\ Partners(pair[1]) = {pair[2]} /\ Partners(pair[2]) = {pair[1]}}

(* The fibers lead back into the same rear port: one of the ports, the     *)
(* first noted, is reported.                                               *)
Returning == {r \in RearPort : Partners(r) = {r}}

BuildCircuits ==
    /\ pc = "tracing" /\ remaining = {}
    /\ \E reported \in [Returning -> Port] :
          /\ \A r \in Returning : \E m \in Connections(r, r) : m[1] = reported[r]
          /\ issues' = issues \union {At("AsymmetricDuplex", r) : r \in Asymmetric}
                              \union {At("RoutingLoop", reported[r]) : r \in Returning}
    /\ circuits' = {[ports |-> {pair[1], pair[2]}, members |-> Connections(pair[1], pair[2]),
                     cid |-> Cid(Connections(pair[1], pair[2]))] : pair \in MutualPairs}
    /\ pc' = "planned"
    /\ UNCHANGED <<use, netbox_port, remaining, port_pairs>>

TakePort(p) == SkipPort(p) \/ ReportLoop(p) \/ ReportTarget(p) \/ PairPorts(p)

Next == (\E p \in Port : TakePort(p)) \/ BuildCircuits

Spec == Init /\ [][Next]_vars
=============================================================================
