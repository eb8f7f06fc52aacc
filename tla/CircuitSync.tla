---------------------------- MODULE CircuitSync ----------------------------
(***************************************************************************)
(* What a sync of the circuits promises, without its requests: a run adds  *)
(* only what is planned and takes away only what is not, touches no other  *)
(* circuit, and Netbox shows the plan when it ends well.                   *)
(***************************************************************************)
VARIABLES
    own,      \* the own circuits in Netbox: cid, rear ports connected, text
    foreign,  \* the other circuits in Netbox
    planned,  \* the circuits the run is to show
    running,
    result,   \* of the last run: "none", "ok" or "failed"
    edited    \* Netbox was edited by hand since the run began

vars == <<own, foreign, planned, running, result, edited>>

Init ==
    /\ own = {} /\ foreign = {} /\ planned = {}
    /\ running = FALSE /\ result = "none" /\ edited = FALSE

(* Circuit c with some of its rear ports not connected, or not yet. *)
PartOf(c, p) == c.cid = p.cid /\ c.text = p.text /\ c.ports \subseteq p.ports

Begin ==
    /\ ~ running /\ running' = TRUE /\ edited' = FALSE
    /\ UNCHANGED <<own, foreign, result>>

Work ==
    /\ running
    /\ \A c \in own' \ own : \E p \in planned \union own : PartOf(c, p)
    /\ edited \/ (own \ own') \cap planned = {}
    /\ UNCHANGED <<foreign, planned, running, result, edited>>

Finish ==
    /\ running /\ running' = FALSE /\ result' = "ok"
    /\ edited \/ own = planned
    /\ UNCHANGED <<own, foreign, planned, edited>>

Fail ==
    /\ running /\ running' = FALSE /\ result' = "failed"
    /\ UNCHANGED <<own, foreign, planned, edited>>

Edit == edited' = TRUE /\ UNCHANGED <<planned, running, result>>

Next == Begin \/ Work \/ Finish \/ Fail \/ Edit

Spec == Init /\ [][Next]_vars
=============================================================================
