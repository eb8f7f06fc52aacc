--------------------------- MODULE MCCircuitPlan ---------------------------
(***************************************************************************)
(* Connectors 1 to 4 and splice 5, three fibers of a cable.  A fiber is at *)
(* up to two port sides, fiber 1 (data imported before the checks) at up   *)
(* to three; connector 2 may also be used on its front, and then connector *)
(* 3 too where the splice is unused.                                       *)
(***************************************************************************)
EXTENDS CircuitPlanProperties, TLC

CONSTANTS k1, zA, d1

MCSchachtOf == [p \in Port |-> zA]
MCDuctEnds == d1 :> <<zA, zA>>
MCPortType == [p \in Port |-> IF p = 5 THEN "Splice" ELSE "Connector"]

F(n) == [cable |-> k1, bundle |-> 1, fiber |-> n]

Used == {1, 2, 3, 4, 5} \X {"Back"} \union {2, 3, 5} \X {"Front"}
Holding(u, n) == {s \in Used : u[s] = F(n)}
MCUsages ==
    {[s \in Slot |-> IF s \in Used THEN u[s] ELSE Removed] :
        u \in {u \in [Used -> {Removed, F(1), F(2), F(3)}] :
                 /\ Cardinality(Holding(u, 1)) \in 1 .. 3
                 /\ Cardinality(Holding(u, 2)) = 2
                 /\ Cardinality(Holding(u, 3)) \in {0, 2}
                 /\ u[<<3, "Front">>] # Removed =>
                        u[<<2, "Front">>] # Removed /\ \A side \in Side : u[<<5, side>>] = Removed}}

(* Two duplex rear ports; a duplex one whose connectors may lead to two    *)
(* others; three rear ports and a connector without one.                   *)
MCNetboxPorts ==
    {1 :> 3 @@ 2 :> 3 @@ 3 :> 1 @@ 4 :> 2 @@ 5 :> NoRearPort,
     1 :> 1 @@ 2 :> 1 @@ 3 :> 2 @@ 4 :> 2 @@ 5 :> NoRearPort,
     1 :> 3 @@ 2 :> 1 @@ 3 :> 2 @@ 4 :> NoRearPort @@ 5 :> NoRearPort}
=============================================================================
