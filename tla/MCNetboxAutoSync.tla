-------------------------- MODULE MCNetboxAutoSync --------------------------
(***************************************************************************)
(* Instances of the automatic sync: model values for plans, requests and   *)
(* replicas.  The requests are interchangeable, and so are the replicas    *)
(* (not in the runs of liveness properties, where symmetry is unsound).    *)
(***************************************************************************)
EXTENDS NetboxAutoSyncProperties, TLC

(* Issues come and go with the content all plans share, and with a plan. *)
MCFaulty ==
    {t \in [plan : Plans, shared : 0 .. 3, own : 0 .. 3] :
        t.shared = 1 \/ (t.plan # Baseline /\ t.shared = 0 /\ t.own = 1)}

Symmetry == Permutations(Request) \union Permutations(Replica)
=============================================================================
