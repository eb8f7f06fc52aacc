----------------------------- MODULE PortUsage -----------------------------
(***************************************************************************)
(* The tables a port usage depends on, as values, and what the views and   *)
(* functions of the database compute from them: effective_port_usage,      *)
(* kabel_ende and port_usage_issue, and the IssueCheck of the backend.     *)
(*                                                                         *)
(* port_usage is a function from plan and slot (a port and its side, the   *)
(* key of a row within a plan) to the row: NoRow, Removed (the row of a    *)
(* plan without a cable, which takes the fiber away) or a fiber.           *)
(* kabel is a function from cable to NoCable or its structure and path.    *)
(***************************************************************************)
EXTENDS Integers, FiniteSets, Sequences

CONSTANTS
    Baseline,   \* the plan that is the current state (plan 0)
    Plan,       \* the other plans
    Port, Side, \* the ports and their sides
    Schacht,    \* the manholes
    SchachtOf,  \* the manhole of a port's panel (no mutation moves a panel)
    Cable,
    BundleNo, FiberNo, \* the numbers requests name
    Duct,
    DuctEnds,   \* a duct's manholes <<a, z>> (fixed once it has cables)
    NoRow, Removed, NoCable

Plans == {Baseline} \union Plan
Slot == Port \X Side
Fiber == [cable : Cable, bundle : BundleNo, fiber : FiberNo]
Row == {NoRow, Removed} \union Fiber
Kabel == [buendel_anz : Int, faser_anz : Int, path : Seq(Duct)]
Problem == {"CableNotEnding", "FiberOutOfRange", "FiberTwice"}

ASSUME PlansAssumption == Baseline \notin Plan
ASSUME PlacesAssumption ==
    /\ SchachtOf \in [Port -> Schacht]
    /\ DuctEnds \in [Duct -> Schacht \X Schacht]
ASSUME NumbersAssumption == BundleNo \subseteq Int /\ FiberNo \subseteq Int
ASSUME NullAssumption ==
    /\ NoRow \notin Fiber
    /\ Removed \notin Fiber
    /\ NoRow # Removed
    /\ NoCable \notin Kabel

-----------------------------------------------------------------------------
(* What a slot holds in plan p: the plan's own row, else the baseline's; a *)
(* row without a cable holds nothing (Removed).                            *)
EffectivePortUsage(pu, p, s) ==
    LET row == IF pu[p][s] = NoRow THEN pu[Baseline][s] ELSE pu[p][s]
    IN  IF row = NoRow THEN Removed ELSE row

(* The manholes exactly one duct end of the path touches. *)
KabelEnde(path) ==
    {z \in Schacht :
        Cardinality({e \in (DOMAIN path) \X {1, 2} : DuctEnds[path[e[1]]][e[2]] = z}) = 1}

EndsAt(kb, f, s) == SchachtOf[s[1]] \in KabelEnde(kb[f.cable].path)

InRange(kb, f) ==
    /\ f.bundle \in 1 .. kb[f.cable].buendel_anz
    /\ f.fiber \in 1 .. kb[f.cable].faser_anz

(* Another slot in the same manhole holds the fiber in plan p. *)
HeldTwice(pu, p, s) ==
    \E t \in Slot \ {s} :
        /\ SchachtOf[t[1]] = SchachtOf[s[1]]
        /\ EffectivePortUsage(pu, p, t) = pu[p][s]

(* The rows of port_usage_issue for the slots given: plan, slot, problem. *)
PortUsageIssue(pu, kb, ps, slots) ==
    {i \in ps \X slots \X Problem :
        LET row == pu[i[1]][i[2]]
        IN  /\ row \in Fiber
            /\ \/ i[3] = "CableNotEnding" /\ ~ EndsAt(kb, row, i[2])
               \/ i[3] = "FiberOutOfRange" /\ ~ InRange(kb, row)
               \/ i[3] = "FiberTwice" /\ HeldTwice(pu, i[1], i[2])}

(* Faults: a check of the ports that leaves the fibers held twice out, a   *)
(* check of the cable in the current state only.                           *)
CableIssuesOfPorts(pu, kb, p, slots) ==
    {i \in PortUsageIssue(pu, kb, {p}, {s \in Slot : \E t \in slots : t[1] = s[1]}) :
        i[3] # "FiberTwice"}
BaselineIssuesOfCable(pu, kb, c) ==
    {i \in PortUsageIssue(pu, kb, {Baseline}, Slot) : pu[i[1]][i[2]].cable = c}

(* IssueScope::Ports: both sides of the ports the slots belong to. *)
IssuesOfPorts(pu, kb, p, slots) ==
    PortUsageIssue(pu, kb, {p}, {s \in Slot : \E t \in slots : t[1] = s[1]})

(* IssueScope::Cable: the usages of a cable in every plan. *)
IssuesOfCable(pu, kb, c) ==
    {i \in PortUsageIssue(pu, kb, Plans, Slot) : pu[i[1]][i[2]].cable = c}

Broken(pu, kb, p, s) == PortUsageIssue(pu, kb, {p}, {s}) # {}
=============================================================================
