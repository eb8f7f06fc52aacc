------------------------ MODULE NetboxPushProperties ------------------------
(***************************************************************************)
(* What must hold of the circuits in Netbox while runs are interrupted,    *)
(* refused and repeated, and that the requests keep the promise of         *)
(* CircuitSync.                                                            *)
(***************************************************************************)
EXTENDS NetboxPush

(* What Netbox shows of circuits, without their ids. *)
Shown(ids) == {[cid |-> circuits[i].cid, ports |-> ConnectedRearPorts(i), text |-> circuits[i].text] :
                   i \in ids}
OwnIds == {i \in Existing : circuits[i].cid \in OwnCid}
Aim(cs) == {[cid |-> c.cid, ports |-> Ends(c), text |-> c.text] : c \in cs}
ForeignCircuits == {<<i, circuits[i]>> : i \in Existing \ OwnIds}

(* A run adds and takes away what it should and ends well only when Netbox *)
(* shows exactly the circuits planned, whatever earlier runs left half     *)
(* done (unless Netbox was edited by hand meanwhile).                      *)
Promise == INSTANCE CircuitSync WITH
    own <- Shown(OwnIds), foreign <- ForeignCircuits, planned <- Aim(planned)
KeepsPromise == Promise!Spec

(* A run that is not disturbed by hand is refused nothing but the cable of *)
(* a rear port whose old cable it failed to delete: no request of its own  *)
(* blocks a later one, whatever the order and whatever a run before left.  *)
NeverInItsOwnWay ==
    running /\ Refused =>
        \/ edited
        \/ In("cable") /\ cable[job.circuit.ports[job.side]] = job.seen[job.side]

(* After the last failure and the last edit Netbox comes to show the       *)
(* circuits of the active plan and keeps showing them: runs repeat, and    *)
(* each one compares everything anew.                                      *)
Converges == <>[](Shown(OwnIds) = Aim(wanted))
=============================================================================
