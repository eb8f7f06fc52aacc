---------------------------- MODULE MCPlanUsage ----------------------------
(***************************************************************************)
(* A small network: manholes A, B and C in a row, joined by ducts d1 and   *)
(* d2; two ports in A and one in B; cables of one bundle.                  *)
(***************************************************************************)
EXTENDS PlanUsageProperties, TLC

CONSTANTS a1, a2, b1, k1, d1, d2, zA, zB, zC

MCSchachtOf == a1 :> zA @@ a2 :> zA @@ b1 :> zB
MCDuctEnds == d1 :> <<zA, zB>> @@ d2 :> <<zB, zC>>

Structured(fibers, path) == [buendel_anz |-> 1, faser_anz |-> fibers, path |-> path]

(* The cable with one fiber ending in A and B, with two ending in A and C. *)
MCKabelInput == {Structured(1, <<d1>>), Structured(2, <<d1, d2>>)}

MCImportedKabel == [c \in Cable |-> Structured(2, <<d1, d2>>)]

Held(s, n) == s :> [cable |-> k1, bundle |-> 1, fiber |-> n]
NothingHeld == [s \in Slot |-> NoRow]
Usage(rows) == rows @@ [p \in Plans |-> NothingHeld]

(* Data these checks have not seen (those before them let a fiber be at    *)
(* two port sides of a plan): a plan with fiber 1 at both ports in A, and  *)
(* the port in B, where the cable passes through, in plan and baseline.    *)
MCImportedUsage ==
    {Usage(p :> (Held(<<a1, "Back">>, 1) @@ Held(<<a2, "Back">>, 1) @@ Held(<<b1, "Back">>, 2))
             @@ Baseline :> (Held(<<b1, "Back">>, 1) @@ NothingHeld)) : p \in Plan}
MCNothingImported == {Usage(<<>>)}

Symmetry == Permutations(Plan)
=============================================================================
