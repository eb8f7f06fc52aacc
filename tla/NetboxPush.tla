----------------------------- MODULE NetboxPush -----------------------------
(***************************************************************************)
(* How the circuits planned reach Netbox: the second half of               *)
(* sync_plan_to_netbox.  A run reads the circuits of Netbox, compares them *)
(* with those planned and sends one request after the other; the first     *)
(* one refused ends it, and what is written stays.  Meanwhile Netbox is    *)
(* edited by hand and the plan changes.                                    *)
(*                                                                         *)
(* Netbox is external and modelled as far as the calls depend on it: an    *)
(* id is given once, a cid is taken by one circuit, a rear port and a      *)
(* termination hold one cable; deleting a circuit takes its terminations   *)
(* along and may leave their cables loose.  A request whose answer is lost *)
(* is one that is done, and a failure before the next.                     *)
(***************************************************************************)
EXTENDS Integers, FiniteSets

CONSTANTS
    Cid,
    OwnCid,      \* those that start with "FIBER-"
    RearPort,
    CircuitId,   \* enough ids: one not in use is taken for a new one
    Text,        \* description and length of a circuit
    Wanted,      \* the sets of circuits that may be planned
    NoCircuit, NoCable, NoJob,
    Loose,       \* a cable left by a circuit deleted
    Elsewhere,   \* a cable laid by hand, to something else
    MaxEdits, MaxFailures, MaxReplans

VARIABLES
    circuits, cable,                 \* Netbox
    wanted,                          \* the circuits of the active plan
    running, result,                 \* of the last run: Ok or an error
    planned,                         \* planned_circuits of the run
    to_delete, to_create, to_update,
    job,                             \* the circuit being created
    edited,                          \* Netbox was edited by hand in this run
    edits, failures, replans

netbox == <<circuits, cable>>
lists == <<to_delete, to_create, to_update>>
run == <<running, result, planned, to_delete, to_create, to_update, job, edited>>
bounds == <<edits, failures, replans>>
vars == <<netbox, wanted, run, bounds>>

TermSide == {"A", "Z"}
Ports == [TermSide -> RearPort]
Planned == [cid : OwnCid, ports : Ports, text : Text]
Circuit == [cid : Cid, text : Text, terms : SUBSET TermSide]
Cable == {NoCable, Loose, Elsewhere} \union (CircuitId \X TermSide)
Update == [circuit : Planned, id : CircuitId]
JobStep == {"fetch", "terminate", "unblock", "cable"}
Job == [circuit : Planned, id : CircuitId, side : TermSide, step : JobStep,
        seen : [TermSide -> Cable]]

ASSUME CidAssumption == OwnCid \subseteq Cid
ASSUME NullAssumption ==
    /\ NoCircuit \notin Circuit /\ NoJob \notin Job
    /\ {NoCable, Loose, Elsewhere} \cap (CircuitId \X TermSide) = {}
    /\ NoCable # Loose /\ NoCable # Elsewhere /\ Loose # Elsewhere
(* What CircuitPlan shows of the circuits planned. *)
Ends(c) == {c.ports["A"], c.ports["Z"]}
ASSUME WantedAssumption ==
    /\ Wanted \subseteq SUBSET Planned
    /\ \A w \in Wanted : \A c, d \in w :
          /\ c.ports["A"] # c.ports["Z"]
          /\ c # d => c.cid # d.cid /\ Ends(c) \cap Ends(d) = {}
ASSUME BoundsAssumption == MaxEdits \in Nat /\ MaxFailures \in Nat /\ MaxReplans \in Nat

TypeOK ==
    /\ circuits \in [CircuitId -> Circuit \union {NoCircuit}]
    /\ cable \in [RearPort -> Cable]
    /\ wanted \in Wanted /\ planned \in Wanted \union {{}}
    /\ running \in BOOLEAN /\ edited \in BOOLEAN /\ result \in {"none", "ok", "failed"}
    /\ to_delete \subseteq CircuitId
    /\ to_create \subseteq Planned
    /\ to_update \subseteq Update
    /\ job \in Job \union {NoJob}
    /\ edits \in 0 .. MaxEdits /\ failures \in 0 .. MaxFailures /\ replans \in 0 .. MaxReplans

Init ==
    /\ circuits = [i \in CircuitId |-> NoCircuit]
    /\ cable = [r \in RearPort |-> NoCable]
    /\ wanted \in Wanted /\ planned = {}
    /\ running = FALSE /\ result = "none" /\ edited = FALSE
    /\ to_delete = {} /\ to_create = {} /\ to_update = {} /\ job = NoJob
    /\ edits = 0 /\ failures = 0 /\ replans = 0

Existing == {i \in CircuitId : circuits[i] # NoCircuit}
Taken(c) == \E i \in Existing : circuits[i].cid = c
IsLast(i, side) == \A r \in RearPort : cable[r] # <<i, side>>

(* An id no run knows: Netbox gives none twice. *)
FreshIds == {i \in CircuitId \ Existing :
    /\ i \notin to_delete
    /\ \A u \in to_update : u.id # i
    /\ job = NoJob \/ job.id # i
    /\ \A r \in RearPort, side \in TermSide : cable[r] # <<i, side>>}
NewId == CHOOSE i \in FreshIds : TRUE

-----------------------------------------------------------------------------
(* The comparison *)

(* connected_rear_port_ids: the rear ports at the other ends of the        *)
(* circuit's terminations.                                                 *)
ConnectedRearPorts(i) ==
    {r \in RearPort : \E side \in circuits[i].terms : cable[r] = <<i, side>>}

(* A fault: a circuit that lacks a cable is taken for the one planned. *)
MatchesPart(i, c) == circuits[i].cid = c.cid /\ ConnectedRearPorts(i) \subseteq Ends(c)

(* The circuit with the cid ends at the rear ports planned. *)
Matches(i, c) == circuits[i].cid = c.cid /\ ConnectedRearPorts(i) = Ends(c)

(* A fault: a circuit with a cid planned is not deleted. *)
UnplannedCids ==
    {i \in Existing : circuits[i].cid \in OwnCid /\ ~ \E c \in wanted : circuits[i].cid = c.cid}

(* The circuits to delete: own ones that match no circuit planned. *)
Surplus ==
    {i \in Existing : circuits[i].cid \in OwnCid /\ ~ \E c \in wanted : Matches(i, c)}

FetchCircuits ==
    /\ ~ running
    /\ running' = TRUE /\ planned' = wanted /\ edited' = FALSE
    /\ to_update' = {u \in [circuit : wanted, id : Existing] : Matches(u.id, u.circuit)}
    /\ to_delete' = Surplus
    /\ to_create' = {c \in wanted : ~ \E i \in Existing : Matches(i, c)}
    /\ job' = NoJob
    /\ UNCHANGED <<netbox, wanted, result, bounds>>

-----------------------------------------------------------------------------
(* The requests, one after the other *)

Deleting == running /\ to_delete # {}
Creating == running /\ to_delete = {} /\ job = NoJob /\ to_create # {}
In(step) == running /\ job # NoJob /\ job.step = step
Updating == running /\ to_delete = {} /\ to_create = {} /\ job = NoJob /\ to_update # {}

(* What deleting circuit i leaves at its rear ports. *)
WithoutCircuit(i, left) ==
    [r \in RearPort |-> IF cable[r] \in {i} \X TermSide THEN left ELSE cable[r]]

DeleteCircuit ==
    /\ Deleting
    /\ \E i \in to_delete, left \in {NoCable, Loose} :
          /\ i \in Existing
          /\ circuits' = [circuits EXCEPT ![i] = NoCircuit]
          /\ cable' = WithoutCircuit(i, left)
          /\ to_delete' = to_delete \ {i}
    /\ UNCHANGED <<wanted, running, result, planned, to_create, to_update, job, edited, bounds>>

CreateCircuit ==
    /\ Creating
    /\ FreshIds # {}
    /\ \E c \in to_create :
          /\ ~ Taken(c.cid)
          /\ circuits' = [circuits EXCEPT ![NewId] = [cid |-> c.cid, text |-> c.text, terms |-> {}]]
          /\ to_create' = to_create \ {c}
          /\ job' = [circuit |-> c, id |-> NewId, side |-> "A", step |-> "fetch",
                     seen |-> [side \in TermSide |-> NoCable]]
    /\ UNCHANGED <<cable, wanted, running, result, planned, to_delete, to_update, edited, bounds>>

(* RearPort::fetch_by_id: the cable at the rear port, first for A, then Z. *)
FetchRearPort ==
    /\ In("fetch")
    /\ job' = [job EXCEPT !.seen[job.side] = cable[job.circuit.ports[job.side]],
                          !.side = IF job.side = "A" THEN "Z" ELSE "A",
                          !.step = IF job.side = "A" THEN "fetch" ELSE "terminate"]
    /\ UNCHANGED <<netbox, wanted, running, result, planned, lists, edited, bounds>>

CanTerminate == job.id \in Existing /\ job.side \notin circuits[job.id].terms

CreateTermination ==
    /\ In("terminate") /\ CanTerminate
    /\ circuits' = [circuits EXCEPT ![job.id].terms = @ \union {job.side}]
    /\ job' = [job EXCEPT !.step = IF job.seen[job.side] = NoCable THEN "cable" ELSE "unblock"]
    /\ UNCHANGED <<cable, wanted, running, result, planned, lists, edited, bounds>>

(* A fault: the cable that blocks the rear port stays. *)
LeaveBlockingCable ==
    /\ In("unblock")
    /\ job' = [job EXCEPT !.step = "cable"]
    /\ UNCHANGED <<netbox, wanted, running, result, planned, lists, edited, bounds>>

(* The cable seen at the rear port is deleted, whatever it is; it may be   *)
(* gone, or have made way for another.  A failure is ignored.              *)
RemoveBlockingCable ==
    /\ In("unblock")
    /\ LET r == job.circuit.ports[job.side]
       IN  \/ /\ cable' = [cable EXCEPT ![r] = IF @ = job.seen[job.side] THEN NoCable ELSE @]
              /\ UNCHANGED failures
           \/ /\ failures < MaxFailures /\ failures' = failures + 1
              /\ UNCHANGED cable
    /\ job' = [job EXCEPT !.step = "cable"]
    /\ UNCHANGED <<circuits, wanted, running, result, planned, lists, edited, edits, replans>>

CanCable ==
    /\ job.id \in Existing /\ job.side \in circuits[job.id].terms
    /\ IsLast(job.id, job.side)
    /\ cable[job.circuit.ports[job.side]] = NoCable

PatchCable ==
    /\ In("cable") /\ CanCable
    /\ cable' = [cable EXCEPT ![job.circuit.ports[job.side]] = <<job.id, job.side>>]
    /\ job' = IF job.side = "A" THEN [job EXCEPT !.side = "Z", !.step = "terminate"] ELSE NoJob
    /\ UNCHANGED <<circuits, wanted, running, result, planned, lists, edited, bounds>>

(* A fault: the update replaces the circuit (PUT rather than PATCH). *)
ReplaceCircuit ==
    /\ Updating
    /\ \E u \in to_update :
          /\ u.id \in Existing
          /\ circuits' = [circuits EXCEPT ![u.id] = u.circuit]
          /\ to_update' = to_update \ {u}
    /\ UNCHANGED <<cable, wanted, running, result, planned, to_delete, to_create, job, edited, bounds>>

(* PATCH changes only the fields given. *)
UpdateCircuit ==
    /\ Updating
    /\ \E u \in to_update :
          /\ u.id \in Existing
          /\ circuits' = [circuits EXCEPT ![u.id].text = u.circuit.text]
          /\ to_update' = to_update \ {u}
    /\ UNCHANGED <<cable, wanted, running, result, planned, to_delete, to_create, job, edited, bounds>>

AllDone == running /\ to_delete = {} /\ to_create = {} /\ to_update = {} /\ job = NoJob
EndRun(outcome) ==
    /\ running' = FALSE /\ result' = outcome
    /\ to_delete' = {} /\ to_create' = {} /\ to_update' = {} /\ job' = NoJob

Finish ==
    /\ AllDone /\ EndRun("ok")
    /\ UNCHANGED <<netbox, wanted, planned, edited, bounds>>

(* Netbox refuses a request: its object is gone, the cid is taken, the     *)
(* termination is there, a cable is in the way.                            *)
Refused ==
    \/ Deleting /\ \E i \in to_delete : i \notin Existing
    \/ Creating /\ \E c \in to_create : Taken(c.cid)
    \/ In("terminate") /\ ~ CanTerminate
    \/ In("cable") /\ ~ CanCable
    \/ Updating /\ \E u \in to_update : u.id \notin Existing
Fail ==
    /\ Refused /\ EndRun("failed")
    /\ UNCHANGED <<netbox, wanted, planned, edited, bounds>>

(* Netbox does not answer, the program is stopped or its connection lost. *)
Interrupt ==
    /\ running /\ failures < MaxFailures
    /\ failures' = failures + 1 /\ EndRun("failed")
    /\ UNCHANGED <<netbox, wanted, planned, edited, edits, replans>>

-----------------------------------------------------------------------------
(* Others *)

Replan ==
    /\ replans < MaxReplans /\ replans' = replans + 1
    /\ wanted' \in Wanted \ {wanted}
    /\ UNCHANGED <<netbox, run, edits, failures>>

HandDelete(i) ==
    /\ i \in Existing
    /\ circuits' = [circuits EXCEPT ![i] = NoCircuit]
    /\ \E left \in {NoCable, Loose} : cable' = WithoutCircuit(i, left)

(* A circuit by hand, with one end cabled to a rear port. *)
HandCreate(c, r) ==
    /\ ~ Taken(c) /\ cable[r] = NoCable /\ FreshIds # {}
    /\ \E text \in Text : circuits' = [circuits EXCEPT ![NewId] =
                                         [cid |-> c, text |-> text, terms |-> {"A"}]]
    /\ cable' = [cable EXCEPT ![r] = <<NewId, "A">>]

HandCable(r) ==
    /\ \/ cable[r] = NoCable /\ cable' = [cable EXCEPT ![r] = Elsewhere]
       \/ cable[r] # NoCable /\ cable' = [cable EXCEPT ![r] = NoCable]
    /\ UNCHANGED circuits

Edit ==
    /\ edits < MaxEdits /\ edits' = edits + 1
    /\ \/ \E i \in CircuitId : HandDelete(i)
       \/ \E c \in Cid, r \in RearPort : HandCreate(c, r)
       \/ \E r \in RearPort : HandCable(r)
    /\ edited' = TRUE
    /\ UNCHANGED <<wanted, running, result, planned, lists, job, failures, replans>>

Request ==
    \/ FetchCircuits \/ DeleteCircuit \/ CreateCircuit \/ FetchRearPort \/ CreateTermination
    \/ RemoveBlockingCable \/ PatchCable \/ UpdateCircuit \/ Finish \/ Fail

Next == Request \/ Interrupt \/ Replan \/ Edit

Spec == Init /\ [][Next]_vars
FairSpec == Spec /\ WF_vars(Request)
=============================================================================
