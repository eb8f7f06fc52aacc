-------------------------- MODULE NetboxPushProofs --------------------------
(***************************************************************************)
(* Theorems about the requests to Netbox, for any circuits, plans and      *)
(* bounds: they implement CircuitSync.                                     *)
(***************************************************************************)
EXTENDS NetboxPushProperties, TLAPS

-----------------------------------------------------------------------------
(* What always holds, also while Netbox is edited by hand. *)

(* Cables end at terminations there are. *)
Wired ==
    \A r \in RearPort, i \in CircuitId, side \in TermSide :
        cable[r] = <<i, side>> => i \in Existing /\ side \in circuits[i].terms

(* A cid is taken by one circuit. *)
CidsUnique == \A i, j \in Existing : circuits[i].cid = circuits[j].cid => i = j

(* The lists of a run are about the circuits it planned. *)
Listed ==
    /\ ~ running => to_delete = {} /\ to_create = {} /\ to_update = {} /\ job = NoJob
    /\ to_create \subseteq planned
    /\ \A u \in to_update : u.circuit \in planned
    /\ job # NoJob => job.circuit \in planned /\ to_delete = {}

(* Only own circuits are deleted; no id is given anew in a run. *)
OwnDeleted == \A i \in to_delete \cap Existing : circuits[i].cid \in OwnCid

(* The circuit being created has what is planned of it, so far.            *)
JobPart ==
    job # NoJob =>
        /\ \A u \in to_update : u.id # job.id
        /\ job.id \in Existing =>
              circuits[job.id].cid = job.circuit.cid /\ circuits[job.id].text = job.circuit.text
        /\ \A r \in RearPort, side \in TermSide :
              cable[r] = <<job.id, side>> => r = job.circuit.ports[side]

(* A circuit to be updated has the cid and at most the rear ports planned. *)
UpdatePart ==
    \A u \in to_update : u.id \in Existing =>
        circuits[u.id].cid = u.circuit.cid /\ ConnectedRearPorts(u.id) \subseteq Ends(u.circuit)

AlwaysInv == TypeOK /\ Wired /\ CidsUnique /\ Listed /\ OwnDeleted /\ JobPart /\ UpdatePart

-----------------------------------------------------------------------------
(* What holds in a run that is not disturbed by hand: each own circuit is  *)
(* to go, is the one being created, or is one planned; each one planned is *)
(* to be created, is being created, or is there.                           *)

Creates(i) == job # NoJob /\ i = job.id
Done(i, c) ==
    /\ Matches(i, c)
    /\ circuits[i].text = c.text \/ [circuit |-> c, id |-> i] \in to_update

NoneTooMany == \A i \in OwnIds : i \in to_delete \/ Creates(i) \/ \E c \in planned : Done(i, c)
NoneMissing ==
    \A c \in planned :
        \/ c \in to_create
        \/ job # NoJob /\ job.circuit = c
        \/ \E i \in OwnIds : Matches(i, c)
ToGo == \A i \in to_delete : i \in Existing => \A c \in planned : ~ Matches(i, c)

(* The ends of the circuit being created, in the order they are cabled.    *)
JobSoFar ==
    job # NoJob =>
        /\ job.id \in Existing
        /\ \A r \in RearPort : cable[r] # <<job.id, "Z">>
        /\ IF job.side = "Z" /\ job.step # "fetch"
           THEN cable[job.circuit.ports["A"]] = <<job.id, "A">>
           ELSE \A r \in RearPort : cable[r] # <<job.id, "A">>

(* No circuit is to be created that is there, or being created.            *)
NotThere ==
    /\ \A c \in to_create, i \in OwnIds : ~ Matches(i, c)
    /\ job # NoJob => job.circuit \notin to_create

RunInv == running /\ ~ edited => NoneTooMany /\ NoneMissing /\ ToGo /\ JobSoFar /\ NotThere

PushInv == AlwaysInv /\ RunInv

-----------------------------------------------------------------------------
(* Circuits, cables and ids *)

LEMMA Sides == TermSide = {"A", "Z"} /\ "A" # "Z"
BY DEF TermSide

LEMMA ExistingTyped ==
    ASSUME TypeOK, NEW i \in Existing
    PROVE  i \in CircuitId /\ circuits[i] \in Circuit
BY DEF TypeOK, Existing

LEMMA PlannedTyped ==
    ASSUME TypeOK, NEW c \in planned
    PROVE  /\ c \in Planned /\ c.ports["A"] \in RearPort /\ c.ports["Z"] \in RearPort
           /\ c.ports["A"] # c.ports["Z"]
           /\ \A d \in planned : c # d => c.cid # d.cid /\ Ends(c) \cap Ends(d) = {}
<1>1. planned \in Wanted
    BY DEF TypeOK
<1> QED BY <1>1, WantedAssumption DEF Planned, Ports, TermSide

(* A new id is one nothing refers to. *)
LEMMA NewIdFresh ==
    ASSUME FreshIds # {}
    PROVE  /\ NewId \in CircuitId /\ NewId \notin Existing /\ NewId \notin to_delete
           /\ \A u \in to_update : u.id # NewId
           /\ job # NoJob => job.id # NewId
           /\ \A r \in RearPort, side \in TermSide : cable[r] # <<NewId, side>>
BY DEF NewId, FreshIds

(* A cable that is none of a circuit's. *)
LEMMA NoTermination ==
    ASSUME NEW i \in CircuitId, NEW side \in TermSide
    PROVE  NoCable # <<i, side>> /\ Loose # <<i, side>> /\ Elsewhere # <<i, side>>
BY NullAssumption

(* A circuit is connected as before if its terminations and cables are.    *)
LEMMA SameEnds ==
    ASSUME NEW i, circuits'[i].terms = circuits[i].terms,
           circuits[i].terms \subseteq TermSide,
           \A r \in RearPort, side \in TermSide : cable'[r] = <<i, side>> <=> cable[r] = <<i, side>>
    PROVE  ConnectedRearPorts(i)' = ConnectedRearPorts(i)
BY DEF ConnectedRearPorts

LEMMA FewerEnds ==
    ASSUME NEW i, circuits'[i].terms = circuits[i].terms,
           circuits[i].terms \subseteq TermSide,
           \A r \in RearPort, side \in TermSide : cable'[r] = <<i, side>> => cable[r] = <<i, side>>
    PROVE  ConnectedRearPorts(i)' \subseteq ConnectedRearPorts(i)
BY DEF ConnectedRearPorts

-----------------------------------------------------------------------------
(* What the actions do to circuits and cables. *)

(* A circuit goes, with its terminations. *)
Goes(i) ==
    /\ circuits' = [circuits EXCEPT ![i] = NoCircuit]
    /\ \E left \in {NoCable, Loose} : cable' = WithoutCircuit(i, left)

LEMMA GoneCircuit ==
    ASSUME TypeOK, NEW i \in CircuitId, Goes(i)
    PROVE  /\ circuits' \in [CircuitId -> Circuit \union {NoCircuit}] /\ cable' \in [RearPort -> Cable]
           /\ Existing' = Existing \ {i}
           /\ \A j \in Existing' : circuits'[j] = circuits[j]
           /\ \A r \in RearPort, j \in CircuitId, side \in TermSide :
                 cable'[r] = <<j, side>> <=> cable[r] = <<j, side>> /\ j # i
<1>1. PICK left \in {NoCable, Loose} : cable' = WithoutCircuit(i, left)
    BY DEF Goes
<1>2. circuits' \in [CircuitId -> Circuit \union {NoCircuit}]
    BY DEF Goes, TypeOK
<1>3. cable' \in [RearPort -> Cable]
    BY <1>1 DEF WithoutCircuit, TypeOK, Cable
<1>4. Existing' = Existing \ {i} /\ \A j \in Existing' : circuits'[j] = circuits[j]
    BY DEF Goes, Existing, TypeOK
<1>5. ASSUME NEW r \in RearPort, NEW j \in CircuitId, NEW side \in TermSide
      PROVE  cable'[r] = <<j, side>> <=> cable[r] = <<j, side>> /\ j # i
  <2>1. cable'[r] = IF cable[r] \in {i} \X TermSide THEN left ELSE cable[r]
      BY <1>1 DEF WithoutCircuit
  <2>2. left # <<j, side>>
      BY NoTermination
  <2> QED BY <2>1, <2>2
<1> QED BY <1>2, <1>3, <1>4, <1>5

(* A circuit comes, with a cable at most.                                  *)
LEMMA NewCircuit ==
    ASSUME TypeOK, FreshIds # {}, NEW c \in Circuit, circuits' = [circuits EXCEPT ![NewId] = c]
    PROVE  /\ circuits' \in [CircuitId -> Circuit \union {NoCircuit}]
           /\ Existing' = Existing \union {NewId} /\ NewId \notin Existing
           /\ circuits'[NewId] = c
           /\ \A j \in Existing : circuits'[j] = circuits[j]
<1>1. NewId \in CircuitId /\ NewId \notin Existing
    BY NewIdFresh
<1> HIDE DEF NewId
<1> QED BY <1>1, NullAssumption DEF TypeOK, Existing

-----------------------------------------------------------------------------
(* AlwaysInv is kept *)

LEMMA AlwaysInit ==
    ASSUME Init
    PROVE  AlwaysInv
<1> USE DEF Init
<1>1. TypeOK
  <2>1. circuits \in [CircuitId -> Circuit \union {NoCircuit}] /\ cable \in [RearPort -> Cable]
      BY DEF Cable
  <2>2. edits \in 0 .. MaxEdits /\ failures \in 0 .. MaxFailures /\ replans \in 0 .. MaxReplans
      BY BoundsAssumption
  <2> QED BY <2>1, <2>2 DEF TypeOK
<1>2. Existing = {}
    BY DEF Existing
<1>3. Wired
    BY NoTermination DEF Wired
<1> QED BY <1>1, <1>2, <1>3 DEF AlwaysInv, CidsUnique, Listed, OwnDeleted, JobPart, UpdatePart

LEMMA FetchKeeps ==
    ASSUME AlwaysInv, FetchCircuits
    PROVE  AlwaysInv'
<1> USE DEF AlwaysInv
<1>1. TypeOK'
  <2>1. to_update' \subseteq Update
      BY WantedAssumption DEF FetchCircuits, TypeOK, Update, Existing
  <2>2. to_delete' \subseteq CircuitId /\ to_create' \subseteq Planned
      BY WantedAssumption DEF FetchCircuits, TypeOK, Surplus, Existing
  <2> QED BY <2>1, <2>2 DEF FetchCircuits, TypeOK, netbox, bounds
<1>2. Existing' = Existing /\ UNCHANGED <<circuits, cable>>
    BY DEF FetchCircuits, netbox, Existing
<1>3. Wired' /\ CidsUnique'
    BY <1>2 DEF Wired, CidsUnique
<1>4. Listed' /\ JobPart'
    BY DEF FetchCircuits, Listed, JobPart
<1>5. OwnDeleted'
    BY <1>2 DEF FetchCircuits, OwnDeleted, Surplus
<1>6. UpdatePart'
  <2> SUFFICES ASSUME NEW u \in to_update'
               PROVE  circuits'[u.id].cid = u.circuit.cid /\ ConnectedRearPorts(u.id)' \subseteq Ends(u.circuit)
      BY DEF UpdatePart
  <2>1. Matches(u.id, u.circuit)
      BY DEF FetchCircuits
  <2> QED BY <1>2, <2>1 DEF Matches, ConnectedRearPorts
<1> QED BY <1>1, <1>3, <1>4, <1>5, <1>6

(* Also by hand: circuit i goes, and the run's lists lose it at most.      *)
LEMMA GoesKeeps ==
    ASSUME AlwaysInv, NEW i \in CircuitId, Goes(i),
           to_delete' \subseteq to_delete,
           UNCHANGED <<planned, running, to_create, to_update, job>>
    PROVE  Wired' /\ CidsUnique' /\ Listed' /\ OwnDeleted' /\ JobPart' /\ UpdatePart'
<1> USE DEF AlwaysInv
<1>1. /\ Existing' = Existing \ {i}
      /\ \A j \in Existing' : circuits'[j] = circuits[j]
      /\ \A r \in RearPort, j \in CircuitId, side \in TermSide :
            cable'[r] = <<j, side>> <=> cable[r] = <<j, side>> /\ j # i
    BY GoneCircuit
<1>2. Wired'
    BY <1>1 DEF Wired
<1>3. CidsUnique'
    BY <1>1 DEF CidsUnique
<1>4. Listed'
    BY DEF Listed
<1>5. OwnDeleted'
    BY <1>1 DEF OwnDeleted
<1>6. JobPart'
  <2> SUFFICES ASSUME job # NoJob PROVE JobPart'
      BY DEF JobPart
  <2>1. job.id \in CircuitId
      BY DEF TypeOK, Job
  <2> QED BY <1>1, <2>1 DEF JobPart
<1>7. UpdatePart'
  <2> SUFFICES ASSUME NEW u \in to_update, u.id \in Existing'
               PROVE  circuits'[u.id].cid = u.circuit.cid /\ ConnectedRearPorts(u.id)' \subseteq Ends(u.circuit)
      BY DEF UpdatePart
  <2>1. u.id \in Existing /\ u.id \in CircuitId /\ circuits'[u.id] = circuits[u.id]
      BY <1>1, ExistingTyped
  <2>2. circuits[u.id].terms \subseteq TermSide
      BY <2>1, ExistingTyped DEF Circuit
  <2>3. ConnectedRearPorts(u.id)' \subseteq ConnectedRearPorts(u.id)
      BY <1>1, <2>1, <2>2, FewerEnds
  <2> QED BY <2>1, <2>3 DEF UpdatePart
<1> QED BY <1>2, <1>3, <1>4, <1>5, <1>6, <1>7

LEMMA DeleteKeeps ==
    ASSUME AlwaysInv, DeleteCircuit
    PROVE  AlwaysInv'
<1>1. PICK i \in to_delete : i \in Existing /\ Goes(i) /\ to_delete' = to_delete \ {i}
    BY DEF DeleteCircuit, Goes
<1>2. i \in CircuitId
    BY <1>1 DEF Existing
<1>3. UNCHANGED <<wanted, running, result, planned, to_create, to_update, job, edited, bounds>>
    BY DEF DeleteCircuit
<1>4. TypeOK'
    BY <1>1, <1>2, <1>3, GoneCircuit DEF AlwaysInv, TypeOK, bounds
<1> QED BY <1>1, <1>2, <1>3, <1>4, GoesKeeps DEF AlwaysInv

LEMMA CreateKeeps ==
    ASSUME AlwaysInv, CreateCircuit
    PROVE  AlwaysInv'
<1> USE DEF AlwaysInv
<1>1. PICK c \in to_create :
          /\ ~ Taken(c.cid)
          /\ circuits' = [circuits EXCEPT ![NewId] = [cid |-> c.cid, text |-> c.text, terms |-> {}]]
          /\ to_create' = to_create \ {c}
          /\ job' = [circuit |-> c, id |-> NewId, side |-> "A", step |-> "fetch",
                     seen |-> [side \in TermSide |-> NoCable]]
    BY DEF CreateCircuit
<1>2. /\ FreshIds # {} /\ running /\ to_delete = {} /\ job = NoJob
      /\ UNCHANGED <<cable, wanted, running, result, planned, to_delete, to_update, edited, bounds>>
    BY DEF CreateCircuit, Creating
<1>3. /\ NewId \in CircuitId /\ NewId \notin Existing
      /\ \A u \in to_update : u.id # NewId
      /\ \A r \in RearPort, side \in TermSide : cable[r] # <<NewId, side>>
    BY <1>2, NewIdFresh
<1> DEFINE n == NewId
<1> DEFINE new == [cid |-> c.cid, text |-> c.text, terms |-> {}]
<1>4. c \in planned /\ c \in Planned /\ new \in Circuit
    BY CidAssumption DEF Listed, TypeOK, Planned, Circuit
<1>5. /\ circuits' \in [CircuitId -> Circuit \union {NoCircuit}]
      /\ Existing' = Existing \union {n} /\ circuits'[n] = new
      /\ \A j \in Existing : circuits'[j] = circuits[j]
    BY <1>1, <1>2, <1>4, NewCircuit
<1>6. job' = [circuit |-> c, id |-> n, side |-> "A", step |-> "fetch",
              seen |-> [side \in TermSide |-> NoCable]] /\ job' \in Job
    BY <1>1, <1>3, <1>4 DEF Job, JobStep, Cable, TermSide
<1> HIDE DEF n
<1>7. TypeOK'
    BY <1>1, <1>2, <1>5, <1>6 DEF TypeOK, bounds
<1>8. Wired'
    BY <1>2, <1>5 DEF Wired
<1>9. CidsUnique'
  <2>1. \A j \in Existing : circuits[j].cid # c.cid
      BY <1>1 DEF Taken
  <2> QED BY <1>5, <2>1 DEF CidsUnique
<1>10. Listed'
    BY <1>1, <1>2, <1>4, <1>6 DEF Listed
<1>11. OwnDeleted'
    BY <1>2 DEF OwnDeleted
<1>12. JobPart'
  <2>1. \A u \in to_update' : u.id # n
      BY <1>2, <1>3 DEF n
  <2>2. \A r \in RearPort, side \in TermSide : cable'[r] # <<n, side>>
      BY <1>2, <1>3 DEF n
  <2> QED BY <1>5, <1>6, <2>1, <2>2 DEF JobPart
<1>13. UpdatePart'
  <2> SUFFICES ASSUME NEW u \in to_update, u.id \in Existing'
               PROVE  circuits'[u.id].cid = u.circuit.cid /\ ConnectedRearPorts(u.id)' \subseteq Ends(u.circuit)
      BY <1>2 DEF UpdatePart
  <2>1. u.id \in Existing /\ circuits'[u.id] = circuits[u.id]
      BY <1>3, <1>5 DEF n
  <2>2. ConnectedRearPorts(u.id)' = ConnectedRearPorts(u.id)
      BY <1>2, <2>1 DEF ConnectedRearPorts
  <2> QED BY <2>1, <2>2 DEF UpdatePart
<1> QED BY <1>7, <1>8, <1>9, <1>10, <1>11, <1>12, <1>13

(* The terminations or the text of circuit i change. *)
LEMMA ChangeKeeps ==
    ASSUME AlwaysInv, NEW i \in Existing, NEW c \in Circuit,
           circuits' = [circuits EXCEPT ![i] = c], c.cid = circuits[i].cid,
           circuits[i].terms \subseteq c.terms, UNCHANGED <<cable, to_delete>>
    PROVE  /\ circuits' \in [CircuitId -> Circuit \union {NoCircuit}]
           /\ Existing' = Existing /\ circuits'[i] = c
           /\ \A j \in Existing : circuits'[j].cid = circuits[j].cid
           /\ \A j \in Existing \ {i} : circuits'[j] = circuits[j]
           /\ Wired' /\ CidsUnique' /\ OwnDeleted'
<1> USE DEF AlwaysInv
<1>1. i \in CircuitId /\ c # NoCircuit
    BY NullAssumption, ExistingTyped
<1>2. /\ circuits' \in [CircuitId -> Circuit \union {NoCircuit}] /\ circuits'[i] = c
      /\ \A j \in CircuitId \ {i} : circuits'[j] = circuits[j]
    BY <1>1 DEF TypeOK
<1>3. Existing' = Existing
    BY <1>1, <1>2 DEF Existing
<1>4. \A j \in Existing : circuits'[j].cid = circuits[j].cid
    BY <1>2, ExistingTyped
<1>5. \A j \in Existing \ {i} : circuits'[j] = circuits[j]
    BY <1>2, ExistingTyped
<1>6. Wired'
    BY <1>2, <1>3, <1>5 DEF Wired
<1>7. CidsUnique' /\ OwnDeleted'
    BY <1>3, <1>4 DEF CidsUnique, OwnDeleted
<1> QED BY <1>2, <1>3, <1>4, <1>5, <1>6, <1>7

LEMMA FetchPortKeeps ==
    ASSUME AlwaysInv, FetchRearPort
    PROVE  AlwaysInv'
<1> USE DEF AlwaysInv
<1>1. job \in Job /\ job # NoJob
    BY DEF FetchRearPort, In, TypeOK
<1> DEFINE r == job.circuit.ports[job.side]
<1>2. r \in RearPort
    BY <1>1 DEF Job, Planned, Ports
<1>3. cable[r] \in Cable
    BY <1>2 DEF TypeOK
<1> HIDE DEF r
<1>4. /\ job' \in Job /\ job'.circuit = job.circuit /\ job'.id = job.id
    BY <1>1, <1>3 DEF FetchRearPort, Job, JobStep, TermSide, r
<1>5. UNCHANGED <<circuits, cable, wanted, running, result, planned, to_delete, to_create, to_update, edited,
                  edits, failures, replans>> /\ Existing' = Existing
    BY DEF FetchRearPort, netbox, lists, bounds, Existing
<1>6. job' # NoJob
    BY <1>4, NullAssumption
<1>7. TypeOK'
    BY <1>4, <1>5 DEF TypeOK
<1>8. Wired' /\ CidsUnique' /\ OwnDeleted'
    BY <1>5 DEF Wired, CidsUnique, OwnDeleted
<1>9. Listed' /\ JobPart'
    BY <1>1, <1>4, <1>5, <1>6 DEF Listed, JobPart, FetchRearPort, In
<1>10. UpdatePart'
    BY <1>5 DEF UpdatePart, ConnectedRearPorts
<1> QED BY <1>7, <1>8, <1>9, <1>10

LEMMA TerminateKeeps ==
    ASSUME AlwaysInv, CreateTermination
    PROVE  AlwaysInv'
<1> USE DEF AlwaysInv
<1>1. job \in Job /\ job # NoJob /\ job.id \in Existing
    BY DEF CreateTermination, CanTerminate, In, TypeOK
<1> DEFINE i == job.id
<1> DEFINE c == [circuits[i] EXCEPT !.terms = circuits[i].terms \union {job.side}]
<1>2. i \in CircuitId /\ circuits[i] \in Circuit /\ job.side \in TermSide
    BY <1>1, ExistingTyped DEF Job
<1>3. /\ c \in Circuit /\ c.cid = circuits[i].cid /\ c.text = circuits[i].text
      /\ circuits[i].terms \subseteq c.terms
    BY <1>2 DEF Circuit
<1>4. circuits' = [circuits EXCEPT ![i] = c]
    BY DEF CreateTermination
<1>5. UNCHANGED <<cable, wanted, running, result, planned, to_delete, to_create, to_update, edited,
                  edits, failures, replans>>
    BY DEF CreateTermination, lists, bounds
<1> HIDE DEF c
<1>6. /\ circuits' \in [CircuitId -> Circuit \union {NoCircuit}]
      /\ Existing' = Existing /\ circuits'[i] = c
      /\ \A j \in Existing : circuits'[j].cid = circuits[j].cid
      /\ \A j \in Existing \ {i} : circuits'[j] = circuits[j]
      /\ Wired' /\ CidsUnique' /\ OwnDeleted'
    BY <1>1, <1>3, <1>4, <1>5, ChangeKeeps
<1>7. job' \in Job /\ job'.circuit = job.circuit /\ job'.id = i
    BY <1>1 DEF CreateTermination, Job, JobStep
<1>8. job' # NoJob
    BY <1>7, NullAssumption
<1>9. TypeOK'
    BY <1>5, <1>6, <1>7 DEF TypeOK
<1>10. Listed'
    BY <1>1, <1>5, <1>7, <1>8 DEF Listed, CreateTermination, In
<1>11. JobPart'
    BY <1>1, <1>3, <1>5, <1>6, <1>7, <1>8 DEF JobPart
<1>12. UpdatePart'
  <2> SUFFICES ASSUME NEW u \in to_update, u.id \in Existing
               PROVE  circuits'[u.id].cid = u.circuit.cid /\ ConnectedRearPorts(u.id)' \subseteq Ends(u.circuit)
      BY <1>5, <1>6 DEF UpdatePart
  <2>1. u.id # i
      BY <1>1 DEF JobPart
  <2>2. ConnectedRearPorts(u.id)' = ConnectedRearPorts(u.id)
      BY <1>5, <1>6, <2>1 DEF ConnectedRearPorts
  <2> QED BY <1>6, <2>2 DEF UpdatePart
<1> QED BY <1>6, <1>9, <1>10, <1>11, <1>12

(* A cable at rear port r goes, or one to elsewhere comes. *)
LEMMA CableKeeps ==
    ASSUME AlwaysInv, NEW r \in RearPort, NEW end \in {NoCable, Elsewhere},
           cable' = [cable EXCEPT ![r] = end],
           UNCHANGED <<circuits, planned, running, to_delete, to_create, to_update>>,
           job' = job \/ /\ job # NoJob /\ job' # NoJob
                         /\ job'.circuit = job.circuit /\ job'.id = job.id
    PROVE  cable' \in [RearPort -> Cable] /\ Wired' /\ CidsUnique' /\ Listed' /\ OwnDeleted' /\ JobPart' /\ UpdatePart'
<1> USE DEF AlwaysInv
<1>1. Existing' = Existing
    BY DEF Existing
<1>2. cable' \in [RearPort -> Cable]
    BY DEF TypeOK, Cable
<1>3. \A s \in RearPort : cable'[s] = cable[s] \/ cable'[s] = end
    BY DEF TypeOK
<1>4. ASSUME NEW i \in CircuitId PROVE
          \A s \in RearPort, side \in TermSide : cable'[s] = <<i, side>> => cable[s] = <<i, side>>
    BY <1>3, NoTermination
<1>5. Wired'
    BY <1>1, <1>4 DEF Wired
<1>6. CidsUnique' /\ Listed' /\ OwnDeleted'
    BY <1>1 DEF CidsUnique, Listed, OwnDeleted
<1>7. JobPart'
  <2> SUFFICES ASSUME job' # NoJob PROVE JobPart'
      BY DEF JobPart
  <2>1. job # NoJob /\ job'.circuit = job.circuit /\ job'.id = job.id
      OBVIOUS
  <2>2. job.id \in CircuitId
      BY <2>1 DEF TypeOK, Job
  <2> QED BY <1>1, <1>4, <2>1, <2>2 DEF JobPart
<1>8. UpdatePart'
  <2> SUFFICES ASSUME NEW u \in to_update, u.id \in Existing
               PROVE  circuits'[u.id].cid = u.circuit.cid /\ ConnectedRearPorts(u.id)' \subseteq Ends(u.circuit)
      BY <1>1 DEF UpdatePart
  <2>1. u.id \in CircuitId /\ circuits[u.id].terms \subseteq TermSide
      BY ExistingTyped DEF Circuit
  <2>2. ConnectedRearPorts(u.id)' \subseteq ConnectedRearPorts(u.id)
      BY <1>4, <2>1, FewerEnds
  <2> QED BY <2>2 DEF UpdatePart
<1> QED BY <1>2, <1>5, <1>6, <1>7, <1>8

LEMMA RemoveKeeps ==
    ASSUME AlwaysInv, RemoveBlockingCable
    PROVE  AlwaysInv'
<1> USE DEF AlwaysInv
<1>1. job \in Job /\ job # NoJob
    BY DEF RemoveBlockingCable, In, TypeOK
<1> DEFINE r == job.circuit.ports[job.side]
<1>2. r \in RearPort
    BY <1>1 DEF Job, Planned, Ports
<1>3. job' \in Job /\ job'.circuit = job.circuit /\ job'.id = job.id
    BY <1>1 DEF RemoveBlockingCable, Job, JobStep
<1>4. job' # NoJob
    BY <1>3, NullAssumption
<1>5. UNCHANGED <<circuits, wanted, running, result, planned, to_delete, to_create, to_update, edited, edits, replans>>
    BY DEF RemoveBlockingCable, lists
<1>6. cable' = [cable EXCEPT ![r] = NoCable] \/ cable' = cable
  <2>1. r \in DOMAIN cable
      BY <1>2 DEF TypeOK
  <2>2. cable' = [cable EXCEPT ![r] = IF cable[r] = job.seen[job.side] THEN NoCable ELSE cable[r]]
            \/ cable' = cable
      BY DEF RemoveBlockingCable
  <2>3. [cable EXCEPT ![r] = cable[r]] = cable
      BY <2>1 DEF TypeOK
  <2> QED BY <2>2, <2>3
<1>7. failures' \in 0 .. MaxFailures
    BY BoundsAssumption DEF RemoveBlockingCable, TypeOK
<1> HIDE DEF r
<1>8. CASE cable' = [cable EXCEPT ![r] = NoCable]
    BY <1>1, <1>2, <1>3, <1>4, <1>5, <1>7, <1>8, CableKeeps DEF TypeOK
<1>9. CASE cable' = cable
  <2>1. Existing' = Existing
      BY <1>5 DEF Existing
  <2>2. TypeOK'
      BY <1>3, <1>5, <1>7, <1>9 DEF TypeOK
  <2>3. Wired' /\ CidsUnique' /\ OwnDeleted' /\ UpdatePart'
      BY <1>5, <1>9, <2>1 DEF Wired, CidsUnique, OwnDeleted, UpdatePart, ConnectedRearPorts
  <2>4. Listed' /\ JobPart'
      BY <1>1, <1>3, <1>4, <1>5, <1>9, <2>1 DEF Listed, JobPart
  <2> QED BY <2>2, <2>3, <2>4
<1> QED BY <1>6, <1>8, <1>9

LEMMA PatchKeeps ==
    ASSUME AlwaysInv, PatchCable
    PROVE  AlwaysInv'
<1> USE DEF AlwaysInv
<1>1. job \in Job /\ job # NoJob /\ job.id \in Existing /\ job.side \in circuits[job.id].terms
    BY DEF PatchCable, CanCable, In, TypeOK
<1> DEFINE r == job.circuit.ports[job.side]
<1>2. r \in RearPort /\ job.side \in TermSide /\ job.id \in CircuitId
    BY <1>1 DEF Job, Planned, Ports
<1>3. cable' = [cable EXCEPT ![r] = <<job.id, job.side>>]
    BY DEF PatchCable
<1>4. UNCHANGED <<circuits, wanted, running, result, planned, to_delete, to_create, to_update, edited,
                  edits, failures, replans>> /\ Existing' = Existing
    BY DEF PatchCable, lists, bounds, Existing
<1> HIDE DEF r
<1>5. cable' \in [RearPort -> Cable]
    BY <1>2, <1>3 DEF TypeOK, Cable
<1>6. \A s \in RearPort, i \in CircuitId, side \in TermSide :
          cable'[s] = <<i, side>> =>
              cable[s] = <<i, side>> \/ (s = r /\ i = job.id /\ side = job.side)
    BY <1>2, <1>3 DEF TypeOK
<1>7. \/ job' = NoJob
      \/ job' \in Job /\ job' # NoJob /\ job'.circuit = job.circuit /\ job'.id = job.id
  <2> DEFINE next == [job EXCEPT !.side = "Z", !.step = "terminate"]
  <2>1. next \in Job /\ next.circuit = job.circuit /\ next.id = job.id
      BY <1>1 DEF Job, JobStep, TermSide
  <2>2. job' = next \/ job' = NoJob
      BY DEF PatchCable
  <2> HIDE DEF next
  <2> QED BY <2>1, <2>2, NullAssumption
<1>8. TypeOK'
    BY <1>4, <1>5, <1>7 DEF TypeOK
<1>9. Wired'
    BY <1>1, <1>4, <1>6 DEF Wired
<1>10. CidsUnique' /\ OwnDeleted'
    BY <1>4 DEF CidsUnique, OwnDeleted
<1>11. Listed'
    BY <1>1, <1>4, <1>7 DEF Listed, PatchCable, In
<1>12. JobPart'
  <2> SUFFICES ASSUME job' # NoJob PROVE JobPart'
      BY DEF JobPart
  <2>1. \A s \in RearPort, side \in TermSide :
            cable'[s] = <<job.id, side>> => s = job.circuit.ports[side]
      BY <1>1, <1>2, <1>6 DEF JobPart, r
  <2> QED BY <1>1, <1>4, <1>7, <2>1 DEF JobPart
<1>13. UpdatePart'
  <2> SUFFICES ASSUME NEW u \in to_update, u.id \in Existing
               PROVE  circuits'[u.id].cid = u.circuit.cid /\ ConnectedRearPorts(u.id)' \subseteq Ends(u.circuit)
      BY <1>4 DEF UpdatePart
  <2>1. u.id # job.id /\ u.id \in CircuitId /\ circuits[u.id].terms \subseteq TermSide
      BY <1>1, ExistingTyped DEF JobPart, Circuit
  <2>2. ConnectedRearPorts(u.id)' \subseteq ConnectedRearPorts(u.id)
      BY <1>4, <1>6, <2>1, FewerEnds
  <2> QED BY <1>4, <2>2 DEF UpdatePart
<1> QED BY <1>8, <1>9, <1>10, <1>11, <1>12, <1>13

LEMMA UpdateKeeps ==
    ASSUME AlwaysInv, UpdateCircuit
    PROVE  AlwaysInv'
<1> USE DEF AlwaysInv
<1>1. PICK u \in to_update :
          /\ u.id \in Existing
          /\ circuits' = [circuits EXCEPT ![u.id].text = u.circuit.text]
          /\ to_update' = to_update \ {u}
    BY DEF UpdateCircuit
<1>2. /\ running /\ to_delete = {} /\ job = NoJob
      /\ UNCHANGED <<cable, wanted, running, result, planned, to_delete, to_create, job, edited,
                     edits, failures, replans>>
    BY DEF UpdateCircuit, Updating, bounds
<1> DEFINE i == u.id
<1> DEFINE c == [circuits[i] EXCEPT !.text = u.circuit.text]
<1>3. circuits[i] \in Circuit /\ u.circuit.text \in Text
    BY <1>1, ExistingTyped DEF TypeOK, Update, Planned
<1>4. c \in Circuit /\ c.cid = circuits[i].cid /\ c.terms = circuits[i].terms
    BY <1>3 DEF Circuit
<1>5. circuits' = [circuits EXCEPT ![i] = c]
    BY <1>1
<1> HIDE DEF c
<1>6. /\ circuits' \in [CircuitId -> Circuit \union {NoCircuit}]
      /\ Existing' = Existing /\ circuits'[i] = c
      /\ \A j \in Existing : circuits'[j].cid = circuits[j].cid
      /\ \A j \in Existing \ {i} : circuits'[j] = circuits[j]
      /\ Wired' /\ CidsUnique' /\ OwnDeleted'
    BY <1>1, <1>2, <1>4, <1>5, ChangeKeeps
<1>7. TypeOK'
    BY <1>1, <1>2, <1>6 DEF TypeOK
<1>8. Listed' /\ JobPart'
    BY <1>1, <1>2 DEF Listed, JobPart
<1>9. UpdatePart'
  <2> SUFFICES ASSUME NEW v \in to_update, v.id \in Existing
               PROVE  circuits'[v.id].cid = v.circuit.cid /\ ConnectedRearPorts(v.id)' \subseteq Ends(v.circuit)
      BY <1>1, <1>6 DEF UpdatePart
  <2>1. circuits'[v.id].terms = circuits[v.id].terms
      BY <1>4, <1>6
  <2>2. ConnectedRearPorts(v.id)' = ConnectedRearPorts(v.id)
      BY <1>2, <2>1 DEF ConnectedRearPorts
  <2> QED BY <1>6, <2>2 DEF UpdatePart
<1> QED BY <1>6, <1>7, <1>8, <1>9

LEMMA EndKeeps ==
    ASSUME AlwaysInv, Finish \/ Fail \/ Interrupt
    PROVE  AlwaysInv'
<1> USE DEF AlwaysInv
<1>1. /\ running' = FALSE /\ result' \in {"ok", "failed"}
      /\ to_delete' = {} /\ to_create' = {} /\ to_update' = {} /\ job' = NoJob
      /\ UNCHANGED <<circuits, cable, wanted, planned, edited, edits, replans>>
    BY DEF Finish, Fail, Interrupt, EndRun, netbox, bounds
<1>2. failures' \in 0 .. MaxFailures
    BY BoundsAssumption DEF Finish, Fail, Interrupt, bounds, TypeOK
<1>3. Existing' = Existing
    BY <1>1 DEF Existing
<1>4. TypeOK'
    BY <1>1, <1>2 DEF TypeOK
<1> QED BY <1>1, <1>3, <1>4 DEF Wired, CidsUnique, Listed, OwnDeleted, JobPart, UpdatePart

LEMMA ReplanKeeps ==
    ASSUME AlwaysInv, Replan
    PROVE  AlwaysInv'
<1> USE DEF AlwaysInv
<1>1. /\ UNCHANGED <<circuits, cable, running, result, planned, to_delete, to_create, to_update, job, edited,
                     edits, failures>> /\ Existing' = Existing
    BY DEF Replan, netbox, run, Existing
<1>2. wanted' \in Wanted /\ replans' \in 0 .. MaxReplans
    BY BoundsAssumption DEF Replan, TypeOK
<1>3. TypeOK'
    BY <1>1, <1>2 DEF TypeOK
<1> QED BY <1>1, <1>3 DEF Wired, CidsUnique, Listed, OwnDeleted, JobPart, UpdatePart, ConnectedRearPorts

LEMMA HandCreateKeeps ==
    ASSUME AlwaysInv, NEW c \in Cid, NEW r \in RearPort, HandCreate(c, r),
           UNCHANGED <<planned, running, to_delete, to_create, to_update, job>>
    PROVE  /\ circuits' \in [CircuitId -> Circuit \union {NoCircuit}] /\ cable' \in [RearPort -> Cable]
           /\ Wired' /\ CidsUnique' /\ Listed' /\ OwnDeleted' /\ JobPart' /\ UpdatePart'
<1> USE DEF AlwaysInv
<1> DEFINE n == NewId
<1>1. /\ FreshIds # {} /\ ~ Taken(c) /\ cable[r] = NoCable
      /\ cable' = [cable EXCEPT ![r] = <<n, "A">>]
    BY DEF HandCreate
<1>2. PICK text \in Text : circuits' = [circuits EXCEPT ![NewId] = [cid |-> c, text |-> text, terms |-> {"A"}]]
    BY DEF HandCreate
<1> DEFINE new == [cid |-> c, text |-> text, terms |-> {"A"}]
<1>3. new \in Circuit
    BY DEF Circuit, TermSide
<1>4. /\ n \in CircuitId /\ n \notin Existing /\ n \notin to_delete
      /\ \A u \in to_update : u.id # n
      /\ job # NoJob => job.id # n
      /\ \A s \in RearPort, side \in TermSide : cable[s] # <<n, side>>
    BY <1>1, NewIdFresh
<1>5. /\ circuits' \in [CircuitId -> Circuit \union {NoCircuit}]
      /\ Existing' = Existing \union {n} /\ circuits'[n] = new
      /\ \A j \in Existing : circuits'[j] = circuits[j]
    BY <1>1, <1>2, <1>3, NewCircuit
<1> HIDE DEF n
<1>6. cable' \in [RearPort -> Cable]
    BY <1>1, <1>4, Sides DEF TypeOK, Cable
<1>7. \A s \in RearPort, i \in CircuitId, side \in TermSide :
          cable'[s] = <<i, side>> => cable[s] = <<i, side>> \/ (i = n /\ side = "A")
    BY <1>1 DEF TypeOK
<1>8. Wired'
    BY <1>5, <1>7 DEF Wired
<1>9. CidsUnique'
  <2>1. \A j \in Existing : circuits[j].cid # c
      BY <1>1 DEF Taken
  <2> QED BY <1>5, <2>1 DEF CidsUnique
<1>10. Listed'
    BY DEF Listed
<1>11. OwnDeleted'
    BY <1>4, <1>5 DEF OwnDeleted
<1>12. JobPart'
  <2> SUFFICES ASSUME job # NoJob PROVE JobPart'
      BY DEF JobPart
  <2>1. job.id \in CircuitId
      BY DEF TypeOK, Job
  <2> QED BY <1>4, <1>5, <1>7, <2>1 DEF JobPart
<1>13. UpdatePart'
  <2> SUFFICES ASSUME NEW u \in to_update, u.id \in Existing'
               PROVE  circuits'[u.id].cid = u.circuit.cid /\ ConnectedRearPorts(u.id)' \subseteq Ends(u.circuit)
      BY DEF UpdatePart
  <2>1. u.id # n /\ u.id \in Existing /\ circuits'[u.id] = circuits[u.id]
      BY <1>4, <1>5
  <2>2. u.id \in CircuitId /\ circuits[u.id].terms \subseteq TermSide
      BY <2>1, ExistingTyped DEF Circuit
  <2>3. ConnectedRearPorts(u.id)' \subseteq ConnectedRearPorts(u.id)
      BY <1>7, <2>1, <2>2, FewerEnds
  <2> QED BY <2>1, <2>3 DEF UpdatePart
<1> QED BY <1>5, <1>6, <1>8, <1>9, <1>10, <1>11, <1>12, <1>13

LEMMA EditKeeps ==
    ASSUME AlwaysInv, Edit
    PROVE  AlwaysInv'
<1> USE DEF AlwaysInv
<1>1. UNCHANGED <<wanted, running, result, planned, to_delete, to_create, to_update, job, failures, replans>>
    BY DEF Edit, lists
<1>2. edited' = TRUE /\ edits' \in 0 .. MaxEdits
    BY BoundsAssumption DEF Edit, TypeOK
<1>3. ASSUME NEW i \in CircuitId, HandDelete(i) PROVE AlwaysInv'
  <2>1. Goes(i)
      BY <1>3 DEF HandDelete, Goes
  <2> QED BY <1>1, <1>2, <2>1, GoesKeeps, GoneCircuit DEF TypeOK
<1>4. ASSUME NEW c \in Cid, NEW r \in RearPort, HandCreate(c, r) PROVE AlwaysInv'
    BY <1>1, <1>2, <1>4, HandCreateKeeps DEF TypeOK
<1>5. ASSUME NEW r \in RearPort, HandCable(r) PROVE AlwaysInv'
  <2>1. PICK end \in {NoCable, Elsewhere} : cable' = [cable EXCEPT ![r] = end]
      BY <1>5 DEF HandCable
  <2>2. UNCHANGED circuits
      BY <1>5 DEF HandCable
  <2> QED BY <1>1, <1>2, <2>1, <2>2, CableKeeps DEF TypeOK
<1> QED BY <1>3, <1>4, <1>5 DEF Edit

LEMMA AlwaysStep ==
    ASSUME AlwaysInv, [Next]_vars
    PROVE  AlwaysInv'
<1>1. CASE UNCHANGED vars
  <2>1. UNCHANGED <<circuits, cable, wanted, running, result, planned, to_delete, to_create, to_update, job,
                    edited, edits, failures, replans>> /\ Existing' = Existing
      BY <1>1 DEF vars, netbox, run, bounds, Existing
  <2> QED BY <2>1 DEF AlwaysInv, TypeOK, Wired, CidsUnique, Listed, OwnDeleted, JobPart, UpdatePart, ConnectedRearPorts
<1>2. CASE Request
    BY <1>2, FetchKeeps, DeleteKeeps, CreateKeeps, FetchPortKeeps, TerminateKeeps, RemoveKeeps, PatchKeeps,
       UpdateKeeps, EndKeeps DEF Request
<1> QED BY <1>1, <1>2, EndKeeps, ReplanKeeps, EditKeeps DEF Next

-----------------------------------------------------------------------------
(* RunInv is kept *)

(* A circuit matches what it did if it is left alone. *)
LEMMA SameMatch ==
    ASSUME NEW i, NEW c, circuits'[i].cid = circuits[i].cid, ConnectedRearPorts(i)' = ConnectedRearPorts(i)
    PROVE  Matches(i, c)' <=> Matches(i, c)
BY DEF Matches

LEMMA OwnTyped ==
    ASSUME TypeOK, NEW i \in OwnIds
    PROVE  i \in Existing /\ i \in CircuitId /\ circuits[i].terms \subseteq TermSide
BY ExistingTyped DEF OwnIds, Circuit

LEMMA FetchRuns ==
    ASSUME AlwaysInv, FetchCircuits
    PROVE  RunInv'
<1>1. /\ UNCHANGED <<circuits, cable>> /\ Existing' = Existing /\ OwnIds' = OwnIds
      /\ job' = NoJob /\ planned' = wanted
      /\ to_update' = {u \in [circuit : wanted, id : Existing] : Matches(u.id, u.circuit)}
      /\ to_delete' = Surplus
      /\ to_create' = {c \in wanted : ~ \E i \in Existing : Matches(i, c)}
    BY DEF FetchCircuits, netbox, Existing, OwnIds
<1>2. \A i \in Existing, c \in wanted : Matches(i, c)' <=> Matches(i, c)
    BY <1>1 DEF Matches, ConnectedRearPorts
<1>3. NoneTooMany'
  <2> SUFFICES ASSUME NEW i \in OwnIds, i \notin Surplus
               PROVE  \E c \in planned' : Done(i, c)'
      BY <1>1 DEF NoneTooMany
  <2>1. PICK c \in wanted : Matches(i, c)
      BY DEF OwnIds, Surplus
  <2>2. [circuit |-> c, id |-> i] \in to_update'
      BY <1>1, <2>1 DEF OwnIds
  <2> QED BY <1>1, <1>2, <2>1, <2>2 DEF Done, OwnIds
<1>4. NoneMissing'
  <2> SUFFICES ASSUME NEW c \in wanted, NEW i \in Existing, Matches(i, c)
               PROVE  i \in OwnIds
      BY <1>1, <1>2 DEF NoneMissing
  <2>1. c.cid \in OwnCid
      BY WantedAssumption DEF AlwaysInv, TypeOK, Planned
  <2> QED BY <2>1 DEF OwnIds, Matches
<1>5. ToGo'
    BY <1>1, <1>2 DEF ToGo, Surplus
<1>6. NotThere'
    BY <1>1, <1>2 DEF NotThere, OwnIds
<1> QED BY <1>1, <1>3, <1>4, <1>5, <1>6 DEF RunInv, JobSoFar

LEMMA DeleteRuns ==
    ASSUME AlwaysInv, RunInv, DeleteCircuit
    PROVE  RunInv'
<1>1. PICK i \in to_delete : i \in Existing /\ Goes(i) /\ to_delete' = to_delete \ {i}
    BY DEF DeleteCircuit, Goes
<1>2. running /\ job = NoJob /\ UNCHANGED <<planned, to_create, to_update, job, edited>>
    BY DEF DeleteCircuit, Deleting, AlwaysInv, Listed
<1> SUFFICES ASSUME ~ edited
             PROVE  NoneTooMany' /\ NoneMissing' /\ ToGo' /\ JobSoFar' /\ NotThere'
    BY <1>2 DEF RunInv
<1>3. /\ Existing' = Existing \ {i}
      /\ \A j \in Existing' : circuits'[j] = circuits[j]
      /\ \A r \in RearPort, j \in CircuitId, side \in TermSide :
            cable'[r] = <<j, side>> <=> cable[r] = <<j, side>> /\ j # i
    BY <1>1, GoneCircuit DEF AlwaysInv, Existing
<1>4. \A j \in Existing' : j \in CircuitId /\ ConnectedRearPorts(j)' = ConnectedRearPorts(j)
  <2> SUFFICES ASSUME NEW j \in Existing' PROVE j \in CircuitId /\ ConnectedRearPorts(j)' = ConnectedRearPorts(j)
      OBVIOUS
  <2>1. j \in Existing /\ j # i /\ j \in CircuitId /\ circuits[j].terms \subseteq TermSide
      BY <1>3, ExistingTyped DEF AlwaysInv, Circuit
  <2> QED BY <1>3, <2>1, SameEnds
<1>5. \A j \in Existing', c \in planned : Matches(j, c)' <=> Matches(j, c)
    BY <1>3, <1>4, SameMatch
<1>6. OwnIds' = OwnIds \ {i}
    BY <1>3 DEF OwnIds
<1>7. \A j \in OwnIds', c \in planned : Done(j, c)' <=> Done(j, c)
    BY <1>2, <1>3, <1>5 DEF Done, OwnIds
<1>8. NoneTooMany'
    BY <1>1, <1>2, <1>6, <1>7 DEF RunInv, NoneTooMany, Creates
<1>9. NoneMissing'
  <2> SUFFICES ASSUME NEW c \in planned, c \notin to_create
               PROVE  \E j \in OwnIds' : Matches(j, c)'
      BY <1>2 DEF NoneMissing
  <2>1. PICK j \in OwnIds : Matches(j, c)
      BY <1>2 DEF RunInv, NoneMissing
  <2>2. j # i
      BY <1>1, <1>2, <2>1 DEF RunInv, ToGo
  <2>3. j \in Existing'
      BY <1>3, <2>2 DEF OwnIds
  <2> QED BY <1>5, <1>6, <2>1, <2>2, <2>3
<1>10. ToGo'
    BY <1>1, <1>2, <1>3, <1>5 DEF RunInv, ToGo
<1>11. NotThere'
  <2>1. \A j \in OwnIds', c \in to_create : j \in OwnIds /\ j \in Existing' /\ c \in planned
      BY <1>6 DEF AlwaysInv, Listed, OwnIds
  <2> QED BY <1>2, <1>5, <2>1 DEF RunInv, NotThere
<1> QED BY <1>2, <1>8, <1>9, <1>10, <1>11 DEF JobSoFar

LEMMA CreateRuns ==
    ASSUME AlwaysInv, RunInv, CreateCircuit
    PROVE  RunInv'
<1> DEFINE n == NewId
<1>1. PICK c \in to_create :
          /\ circuits' = [circuits EXCEPT ![NewId] = [cid |-> c.cid, text |-> c.text, terms |-> {}]]
          /\ to_create' = to_create \ {c}
          /\ job' = [circuit |-> c, id |-> n, side |-> "A", step |-> "fetch",
                     seen |-> [side \in TermSide |-> NoCable]]
    BY DEF CreateCircuit
<1>2. /\ FreshIds # {} /\ running /\ to_delete = {} /\ job = NoJob
      /\ UNCHANGED <<cable, planned, to_delete, to_update, edited>>
    BY DEF CreateCircuit, Creating
<1> SUFFICES ASSUME ~ edited
             PROVE  NoneTooMany' /\ NoneMissing' /\ ToGo' /\ JobSoFar' /\ NotThere'
    BY <1>2 DEF RunInv
<1>3. /\ n \in CircuitId /\ n \notin Existing
      /\ \A r \in RearPort, side \in TermSide : cable[r] # <<n, side>>
    BY <1>2, NewIdFresh
<1> DEFINE new == [cid |-> c.cid, text |-> c.text, terms |-> {}]
<1>4. c \in Planned /\ new \in Circuit
    BY CidAssumption DEF AlwaysInv, TypeOK, Planned, Circuit
<1>5. /\ Existing' = Existing \union {n} /\ circuits'[n] = new
      /\ \A j \in Existing : circuits'[j] = circuits[j]
    BY <1>1, <1>2, <1>4, NewCircuit DEF AlwaysInv
<1>6. job' # NoJob
    BY <1>1, <1>3, <1>4, NullAssumption DEF Job, JobStep, TermSide, Cable
<1> HIDE DEF n
<1>7. OwnIds' = OwnIds \union {n}
    BY <1>4, <1>5 DEF OwnIds, Planned
<1>8. \A j \in OwnIds, d \in planned : (Matches(j, d)' <=> Matches(j, d)) /\ (Done(j, d)' <=> Done(j, d))
  <2> SUFFICES ASSUME NEW j \in OwnIds, NEW d \in planned
               PROVE  (Matches(j, d)' <=> Matches(j, d)) /\ (Done(j, d)' <=> Done(j, d))
      OBVIOUS
  <2>1. circuits'[j] = circuits[j]
      BY <1>5 DEF OwnIds
  <2>2. ConnectedRearPorts(j)' = ConnectedRearPorts(j)
      BY <1>2, <2>1 DEF ConnectedRearPorts
  <2> QED BY <1>2, <2>1, <2>2, SameMatch DEF Done
<1>9. NoneTooMany'
    BY <1>1, <1>2, <1>6, <1>7, <1>8 DEF RunInv, NoneTooMany, Creates
<1>10. NoneMissing'
    BY <1>1, <1>2, <1>6, <1>7, <1>8 DEF RunInv, NoneMissing
<1>11. JobSoFar'
  <2>1. "A" \in TermSide /\ "Z" \in TermSide
      BY DEF TermSide
  <2> QED BY <1>1, <1>2, <1>3, <1>5, <2>1 DEF JobSoFar, n
<1>12. NotThere'
  <2>1. c \in planned /\ \A d \in to_create' : d \in planned /\ d # c /\ d \in to_create
      BY <1>1 DEF AlwaysInv, Listed
  <2>2. \A d \in to_create' : d.cid # c.cid
      BY <2>1, PlannedTyped DEF AlwaysInv
  <2>3. ASSUME NEW j \in OwnIds', NEW d \in to_create' PROVE ~ Matches(j, d)'
    <3>1. CASE j = n
        BY <1>5, <2>2, <3>1 DEF Matches
    <3>2. CASE j \in OwnIds
        BY <1>2, <1>8, <2>1, <3>2 DEF RunInv, NotThere
    <3> QED BY <1>7, <3>1, <3>2
  <2>4. job'.circuit = c /\ c \notin to_create'
      BY <1>1
  <2> QED BY <2>3, <2>4 DEF NotThere
<1> QED BY <1>2, <1>9, <1>10, <1>11, <1>12 DEF ToGo

(* The job's circuit changes, or its cables, or what is known of them.     *)
LEMMA JobRuns ==
    ASSUME AlwaysInv, job # NoJob, running, ~ edited, NoneTooMany, NoneMissing,
           job' # NoJob, job'.id = job.id, job'.circuit = job.circuit,
           UNCHANGED <<running, planned, edited, to_delete, to_create, to_update>>,
           OwnIds' = OwnIds,
           \A j \in OwnIds \ {job.id} : circuits'[j] = circuits[j],
           \A j \in OwnIds \ {job.id}, c \in planned : c # job.circuit => (Matches(j, c)' <=> Matches(j, c)),
           circuits'[job.id].cid = circuits[job.id].cid,
           JobSoFar, JobSoFar', NotThere
    PROVE  RunInv'
<1>1. job.circuit \in planned /\ to_delete = {}
    BY DEF AlwaysInv, Listed
<1>2. job.id \in Existing /\ circuits[job.id].cid = job.circuit.cid
    BY DEF AlwaysInv, JobPart, JobSoFar
<1>3. ASSUME NEW j \in OwnIds, NEW c \in planned, Matches(j, c), j # job.id
      PROVE  c # job.circuit
    BY <1>2, <1>3 DEF AlwaysInv, CidsUnique, Matches, OwnIds
<1>4. NoneTooMany'
  <2> SUFFICES ASSUME NEW j \in OwnIds, j # job.id PROVE \E c \in planned : Done(j, c)'
      BY DEF NoneTooMany, Creates
  <2>1. PICK c \in planned : Done(j, c)
      BY <1>1 DEF NoneTooMany, Creates
  <2>2. c # job.circuit /\ Matches(j, c)'
      BY <1>3, <2>1 DEF Done
  <2> QED BY <2>1, <2>2 DEF Done
<1>5. NoneMissing'
  <2> SUFFICES ASSUME NEW c \in planned, c \notin to_create, c # job.circuit
               PROVE  \E j \in OwnIds : Matches(j, c)'
      BY DEF NoneMissing
  <2>1. PICK j \in OwnIds : Matches(j, c)
      BY DEF NoneMissing
  <2>2. j # job.id
    <3>1. c.cid # job.circuit.cid
        BY <1>1, PlannedTyped DEF AlwaysInv
    <3> QED BY <1>2, <2>1, <3>1 DEF Matches
  <2> QED BY <2>1, <2>2
<1>6. NotThere'
  <2> SUFFICES ASSUME NEW c \in to_create, NEW j \in OwnIds PROVE ~ Matches(j, c)'
      BY DEF NotThere
  <2>1. c \in planned /\ c # job.circuit
      BY DEF AlwaysInv, Listed, NotThere
  <2>2. c.cid # job.circuit.cid
      BY <1>1, <2>1, PlannedTyped DEF AlwaysInv
  <2>3. CASE j = job.id
      BY <1>2, <2>2, <2>3 DEF Matches
  <2> QED BY <2>1, <2>3 DEF NotThere
<1> QED BY <1>1, <1>4, <1>5, <1>6 DEF RunInv, ToGo

LEMMA FetchPortRuns ==
    ASSUME AlwaysInv, RunInv, FetchRearPort
    PROVE  RunInv'
<1>1. job \in Job /\ job # NoJob /\ running /\ job.step = "fetch"
    BY DEF FetchRearPort, In, AlwaysInv, TypeOK
<1>2. UNCHANGED <<circuits, cable, running, planned, edited, to_delete, to_create, to_update>>
      /\ Existing' = Existing /\ OwnIds' = OwnIds
    BY DEF FetchRearPort, netbox, lists, Existing, OwnIds
<1> SUFFICES ASSUME ~ edited PROVE RunInv'
    BY <1>1, <1>2 DEF RunInv
<1> DEFINE r == job.circuit.ports[job.side]
<1>3. r \in RearPort /\ cable[r] \in Cable
    BY <1>1 DEF Job, Planned, Ports, AlwaysInv, TypeOK
<1> HIDE DEF r
<1>4. /\ job' \in Job /\ job'.circuit = job.circuit /\ job'.id = job.id
      /\ job'.side = "Z" => job'.step = "fetch"
    BY <1>1, <1>3 DEF FetchRearPort, Job, JobStep, TermSide, r
<1>5. job' # NoJob
    BY <1>4, NullAssumption
<1>6. \A j \in OwnIds, c \in planned : Matches(j, c)' <=> Matches(j, c)
    BY <1>2 DEF Matches, ConnectedRearPorts
<1>7. NoneTooMany /\ NoneMissing /\ JobSoFar /\ NotThere
    BY <1>1 DEF RunInv
<1>8. JobSoFar'
    BY <1>1, <1>2, <1>4, <1>5, <1>7 DEF JobSoFar
<1> QED BY <1>1, <1>2, <1>4, <1>5, <1>6, <1>7, <1>8, JobRuns

LEMMA TerminateRuns ==
    ASSUME AlwaysInv, RunInv, CreateTermination
    PROVE  RunInv'
<1>1. job \in Job /\ job # NoJob /\ job.id \in Existing /\ running /\ job.step = "terminate"
    BY DEF CreateTermination, CanTerminate, In, AlwaysInv, TypeOK
<1>2. UNCHANGED <<cable, running, planned, edited, to_delete, to_create, to_update>>
    BY DEF CreateTermination, lists
<1> SUFFICES ASSUME ~ edited PROVE RunInv'
    BY <1>1, <1>2 DEF RunInv
<1> DEFINE i == job.id
<1> DEFINE c == [circuits[i] EXCEPT !.terms = circuits[i].terms \union {job.side}]
<1>3. i \in CircuitId /\ circuits[i] \in Circuit /\ job.side \in TermSide
    BY <1>1, ExistingTyped DEF Job, AlwaysInv
<1>4. /\ c \in Circuit /\ c.cid = circuits[i].cid /\ circuits[i].terms \subseteq c.terms
    BY <1>3 DEF Circuit
<1>5. circuits' = [circuits EXCEPT ![i] = c]
    BY DEF CreateTermination
<1> HIDE DEF c
<1>6. /\ Existing' = Existing
      /\ \A j \in Existing : circuits'[j].cid = circuits[j].cid
      /\ \A j \in Existing \ {i} : circuits'[j] = circuits[j]
    BY <1>1, <1>2, <1>4, <1>5, ChangeKeeps
<1>7. /\ job' \in Job /\ job'.circuit = job.circuit /\ job'.id = i /\ job'.side = job.side
      /\ job'.step # "fetch"
    BY <1>1 DEF CreateTermination, Job, JobStep
<1>8. job' # NoJob
    BY <1>7, NullAssumption
<1>9. OwnIds' = OwnIds
    BY <1>6 DEF OwnIds
<1>10. \A j \in OwnIds \ {i} : circuits'[j] = circuits[j]
    BY <1>6 DEF OwnIds
<1>11. \A j \in OwnIds \ {i}, d \in planned : Matches(j, d)' <=> Matches(j, d)
    BY <1>2, <1>10 DEF Matches, ConnectedRearPorts
<1>12. NoneTooMany /\ NoneMissing /\ JobSoFar /\ NotThere
    BY <1>1 DEF RunInv
<1>13. JobSoFar'
    BY <1>1, <1>2, <1>6, <1>7, <1>8, <1>12 DEF JobSoFar
<1>14. circuits'[job.id].cid = circuits[job.id].cid
    BY <1>1, <1>6
<1> QED BY <1>1, <1>2, <1>7, <1>8, <1>9, <1>10, <1>11, <1>12, <1>13, <1>14, JobRuns

(* The blocking cable is none of a circuit that is planned: their rear     *)
(* ports are disjoint.                                                     *)
LEMMA RemoveRuns ==
    ASSUME AlwaysInv, RunInv, RemoveBlockingCable
    PROVE  RunInv'
<1>1. job \in Job /\ job # NoJob /\ running /\ job.step = "unblock" /\ job.circuit \in planned
    BY DEF RemoveBlockingCable, In, AlwaysInv, TypeOK, Listed
<1>2. UNCHANGED <<circuits, running, planned, edited, to_delete, to_create, to_update>>
      /\ Existing' = Existing /\ OwnIds' = OwnIds
    BY DEF RemoveBlockingCable, lists, Existing, OwnIds
<1> SUFFICES ASSUME ~ edited PROVE RunInv'
    BY <1>1, <1>2 DEF RunInv
<1> DEFINE r == job.circuit.ports[job.side]
<1>3. r \in RearPort /\ r \in Ends(job.circuit)
    BY <1>1 DEF Job, Planned, Ports, TermSide, Ends
<1>4. /\ job' \in Job /\ job'.circuit = job.circuit /\ job'.id = job.id /\ job'.side = job.side
      /\ job'.step # "fetch"
    BY <1>1 DEF RemoveBlockingCable, Job, JobStep
<1>5. job' # NoJob
    BY <1>4, NullAssumption
<1>6. /\ \A s \in RearPort : s # r => cable'[s] = cable[s]
      /\ cable'[r] = cable[r] \/ cable'[r] = NoCable
    BY <1>3 DEF RemoveBlockingCable, AlwaysInv, TypeOK
<1>7. NoneTooMany /\ NoneMissing /\ JobSoFar /\ NotThere
    BY <1>1 DEF RunInv
<1>8. r = job.circuit.ports["A"] => job.side = "A"
    BY <1>1, PlannedTyped DEF Job, TermSide, AlwaysInv
<1> HIDE DEF r
<1>9. ASSUME NEW j \in OwnIds \ {job.id}, NEW c \in planned, c # job.circuit
      PROVE  Matches(j, c)' <=> Matches(j, c)
  <2>1. Ends(c) \cap Ends(job.circuit) = {}
      BY <1>1, <1>9, PlannedTyped DEF AlwaysInv
  <2>2. r \notin Ends(c)
      BY <1>3, <2>1
  <2>3. j \in CircuitId /\ circuits[j].terms \subseteq TermSide
      BY OwnTyped DEF AlwaysInv
  <2>4. ConnectedRearPorts(j)' = ConnectedRearPorts(j) \ (IF cable'[r] = cable[r] THEN {} ELSE {r})
    <3>1. \A side \in TermSide : NoCable # <<j, side>>
        BY <2>3, NoTermination
    <3> QED BY <1>2, <1>3, <1>6, <2>3, <3>1 DEF ConnectedRearPorts
  <2>5. CASE cable'[r] = cable[r]
      BY <1>2, <2>4, <2>5 DEF Matches
  <2>6. CASE r \notin ConnectedRearPorts(j)
      BY <1>2, <2>4, <2>6 DEF Matches
  <2>7. CASE r \in ConnectedRearPorts(j) /\ cable'[r] # cable[r]
    <3>1. ~ Matches(j, c)
        BY <2>2, <2>7 DEF Matches
    <3>2. circuits[j].cid = c.cid => FALSE
      <4>1. \/ \E d \in planned : Matches(j, d)
            \/ j \in to_delete \/ Creates(j)
          BY <1>7 DEF NoneTooMany, Done
      <4>2. PICK d \in planned : Matches(j, d)
          BY <1>1, <4>1 DEF AlwaysInv, Listed, Creates
      <4>3. d # c
          BY <3>1, <4>2
      <4>4. d.cid # c.cid
          BY <4>3, PlannedTyped DEF AlwaysInv
      <4> QED BY <4>2, <4>4 DEF Matches
    <3> QED BY <1>2, <3>1, <3>2 DEF Matches
  <2> QED BY <2>5, <2>6, <2>7
<1>10. JobSoFar'
  <2>1. job.id \in CircuitId
      BY <1>1 DEF Job
  <2>2. NoCable # <<job.id, "A">> /\ NoCable # <<job.id, "Z">>
      BY <2>1, NoTermination, Sides
  <2>3. job.circuit.ports["A"] \in RearPort
      BY <1>1, PlannedTyped DEF AlwaysInv
  <2>4. \A s \in RearPort : cable'[s] = cable[s] \/ cable'[s] = NoCable
      BY <1>6
  <2>5. job.side = "Z" => cable'[job.circuit.ports["A"]] = cable[job.circuit.ports["A"]]
      BY <1>6, <1>8, <2>3
  <2> QED BY <1>1, <1>2, <1>4, <1>5, <1>7, <2>2, <2>3, <2>4, <2>5 DEF JobSoFar
<1> QED BY <1>1, <1>2, <1>4, <1>5, <1>7, <1>9, <1>10, JobRuns

LEMMA PatchRuns ==
    ASSUME AlwaysInv, RunInv, PatchCable
    PROVE  RunInv'
<1>1. /\ job \in Job /\ job # NoJob /\ running /\ job.step = "cable" /\ job.circuit \in planned
      /\ job.id \in Existing /\ job.side \in circuits[job.id].terms
      /\ cable[job.circuit.ports[job.side]] = NoCable /\ to_delete = {}
    BY DEF PatchCable, CanCable, In, AlwaysInv, TypeOK, Listed
<1>2. UNCHANGED <<circuits, running, planned, edited, to_delete, to_create, to_update>>
      /\ Existing' = Existing /\ OwnIds' = OwnIds
    BY DEF PatchCable, lists, Existing, OwnIds
<1> SUFFICES ASSUME ~ edited PROVE RunInv'
    BY <1>1, <1>2 DEF RunInv
<1> DEFINE i == job.id
<1> DEFINE r == job.circuit.ports[job.side]
<1>3. r \in RearPort /\ job.side \in {"A", "Z"} /\ i \in CircuitId
    BY <1>1 DEF Job, Planned, Ports, TermSide
<1>4. \A s \in RearPort : cable'[s] = IF s = r THEN <<i, job.side>> ELSE cable[s]
    BY <1>3 DEF PatchCable, AlwaysInv, TypeOK
<1>5. NoneTooMany /\ NoneMissing /\ JobSoFar /\ NotThere
    BY <1>1 DEF RunInv
<1>6. \A j \in OwnIds \ {i} : ConnectedRearPorts(j)' = ConnectedRearPorts(j)
  <2> SUFFICES ASSUME NEW j \in OwnIds \ {i} PROVE ConnectedRearPorts(j)' = ConnectedRearPorts(j)
      OBVIOUS
  <2>1. j \in CircuitId /\ circuits[j].terms \subseteq TermSide
      BY OwnTyped DEF AlwaysInv
  <2>2. \A s \in RearPort, side \in TermSide : cable'[s] = <<j, side>> <=> cable[s] = <<j, side>>
      BY <1>1, <1>4, <2>1, NoTermination
  <2> QED BY <1>2, <2>1, <2>2, SameEnds
<1>7. \A j \in OwnIds \ {i}, c \in planned : Matches(j, c)' <=> Matches(j, c)
    BY <1>2, <1>6 DEF Matches
<1>8. CASE job.side = "A"
  <2> DEFINE next == [job EXCEPT !.side = "Z", !.step = "terminate"]
  <2>1. /\ next \in Job /\ next.circuit = job.circuit /\ next.id = job.id
        /\ next.side = "Z" /\ next.step = "terminate"
      BY <1>1 DEF Job, JobStep, TermSide
  <2>2. job' = next
      BY <1>8 DEF PatchCable
  <2> HIDE DEF next
  <2>3. job' # NoJob
      BY <2>1, <2>2, NullAssumption
  <2>4. JobSoFar'
      BY <1>1, <1>2, <1>3, <1>4, <1>5, <1>8, <2>1, <2>2, <2>3 DEF JobSoFar
  <2> QED BY <1>1, <1>2, <1>5, <1>7, <2>1, <2>2, <2>3, <2>4, JobRuns
<1>9. CASE job.side = "Z"
  <2>1. PICK k \in Existing, d \in planned : k = job.id /\ d = job.circuit
      BY <1>1
  <2>2. PICK a \in RearPort, z \in RearPort : a = d.ports["A"] /\ z = d.ports["Z"]
      BY PlannedTyped DEF AlwaysInv
  <2>3. /\ cable[a] = <<k, "A">> /\ a # z /\ Ends(d) = {a, z} /\ z = r
        /\ \A s \in RearPort : cable[s] # <<k, "Z">>
      BY <1>1, <1>5, <1>9, <2>1, <2>2, PlannedTyped DEF JobSoFar, AlwaysInv, Ends
  <2>4. k \in CircuitId /\ circuits[k].terms = {"A", "Z"}
    <3>1. "A" \in circuits[k].terms /\ "Z" \in circuits[k].terms /\ k \in CircuitId
        BY <1>1, <1>3, <1>9, <2>1, <2>2, <2>3, Sides DEF AlwaysInv, Wired
    <3> QED BY <2>1, <3>1, ExistingTyped, Sides DEF AlwaysInv, Circuit
  <2>5. \A s \in RearPort : cable[s] = <<k, "A">> => s = a
      BY <1>1, <2>1, <2>2, Sides DEF AlwaysInv, JobPart
  <2>6. ConnectedRearPorts(k)' = Ends(d)
    <3>1. circuits'[k].terms = {"A", "Z"}
        BY <1>2, <2>4
    <3>2. \A s \in RearPort : cable'[s] = IF s = z THEN <<k, "Z">> ELSE cable[s]
        BY <1>4, <1>9, <2>1, <2>3
    <3>3. \A s \in RearPort : cable'[s] = <<k, "A">> \/ cable'[s] = <<k, "Z">> <=> s \in {a, z}
        BY <2>3, <2>5, <3>2
    <3> HIDE DEF r, i
    <3>4. ConnectedRearPorts(k)' = {s \in RearPort : cable'[s] = <<k, "A">> \/ cable'[s] = <<k, "Z">>}
        BY <3>1 DEF ConnectedRearPorts
    <3> QED BY <2>2, <2>3, <3>3, <3>4
  <2>7. circuits[k].cid = d.cid /\ circuits[k].text = d.text /\ d.cid \in OwnCid
      BY <1>1, <2>1, PlannedTyped DEF AlwaysInv, JobPart, Planned
  <2>8. k \in OwnIds /\ Matches(k, d)' /\ Done(k, d)'
      BY <1>2, <2>6, <2>7 DEF OwnIds, Matches, Done
  <2>9. job' = NoJob
      BY <1>9, Sides DEF PatchCable
  <2>10. NoneTooMany'
    <3> SUFFICES ASSUME NEW j \in OwnIds, j # k PROVE \E c \in planned : Done(j, c)'
        BY <1>2, <2>8 DEF NoneTooMany
    <3>1. PICK c \in planned : Done(j, c)
        BY <1>1, <1>5, <2>1 DEF NoneTooMany, Creates
    <3>2. Matches(j, c)'
        BY <1>7, <2>1, <3>1 DEF Done
    <3> QED BY <1>2, <3>1, <3>2 DEF Done
  <2>11. NoneMissing'
    <3> SUFFICES ASSUME NEW c \in planned, c \notin to_create, c # d
                 PROVE  \E j \in OwnIds : Matches(j, c)'
        BY <1>2, <2>8 DEF NoneMissing
    <3>1. PICK j \in OwnIds : Matches(j, c)
        BY <1>5, <2>1 DEF NoneMissing
    <3>2. c.cid # d.cid
        BY PlannedTyped DEF AlwaysInv
    <3>3. j # k
        BY <2>7, <3>1, <3>2 DEF Matches
    <3> QED BY <1>7, <2>1, <3>1, <3>3
  <2>12. NotThere'
    <3> SUFFICES ASSUME NEW c \in to_create, NEW j \in OwnIds PROVE ~ Matches(j, c)'
        BY <1>2, <2>9 DEF NotThere
    <3>1. c \in planned /\ c # d
        BY <1>1, <1>5, <2>1 DEF AlwaysInv, Listed, NotThere
    <3>2. c.cid # d.cid
        BY <3>1, PlannedTyped DEF AlwaysInv
    <3>3. CASE j = k
        BY <2>8, <3>2, <3>3 DEF Matches
    <3>4. CASE j # k
        BY <1>5, <1>7, <2>1, <3>1, <3>4 DEF NotThere
    <3> QED BY <3>3, <3>4
  <2> QED BY <1>1, <1>2, <2>9, <2>10, <2>11, <2>12 DEF RunInv, ToGo, JobSoFar
<1> QED BY <1>3, <1>8, <1>9

LEMMA UpdateRuns ==
    ASSUME AlwaysInv, RunInv, UpdateCircuit
    PROVE  RunInv'
<1>1. PICK u \in to_update :
          /\ u.id \in Existing
          /\ circuits' = [circuits EXCEPT ![u.id].text = u.circuit.text]
          /\ to_update' = to_update \ {u}
    BY DEF UpdateCircuit
<1>2. /\ running /\ to_delete = {} /\ to_create = {} /\ job = NoJob
      /\ UNCHANGED <<cable, running, planned, to_delete, to_create, job, edited>>
    BY DEF UpdateCircuit, Updating
<1> SUFFICES ASSUME ~ edited PROVE RunInv'
    BY <1>2 DEF RunInv
<1> DEFINE i == u.id
<1> DEFINE c == [circuits[i] EXCEPT !.text = u.circuit.text]
<1>3. circuits[i] \in Circuit /\ u.circuit.text \in Text
    BY <1>1, ExistingTyped DEF AlwaysInv, TypeOK, Update, Planned
<1>4. c \in Circuit /\ c.cid = circuits[i].cid /\ c.terms = circuits[i].terms /\ c.text = u.circuit.text
    BY <1>3 DEF Circuit
<1>5. circuits' = [circuits EXCEPT ![i] = c]
    BY <1>1
<1> HIDE DEF c
<1>6. /\ Existing' = Existing /\ circuits'[i] = c
      /\ \A j \in Existing : circuits'[j].cid = circuits[j].cid
      /\ \A j \in Existing \ {i} : circuits'[j] = circuits[j]
    BY <1>1, <1>2, <1>4, <1>5, ChangeKeeps
<1>7. OwnIds' = OwnIds
    BY <1>6 DEF OwnIds
<1>8. \A j \in OwnIds, d \in planned : Matches(j, d)' <=> Matches(j, d)
  <2> SUFFICES ASSUME NEW j \in OwnIds, NEW d \in planned PROVE Matches(j, d)' <=> Matches(j, d)
      OBVIOUS
  <2>1. circuits'[j].terms = circuits[j].terms /\ circuits'[j].cid = circuits[j].cid
      BY <1>4, <1>6 DEF OwnIds
  <2>2. ConnectedRearPorts(j)' = ConnectedRearPorts(j)
      BY <1>2, <2>1 DEF ConnectedRearPorts
  <2> QED BY <2>1, <2>2, SameMatch
<1>9. NoneTooMany'
  <2> SUFFICES ASSUME NEW j \in OwnIds PROVE \E d \in planned : Done(j, d)'
      BY <1>2, <1>7 DEF NoneTooMany
  <2>1. PICK d \in planned : Done(j, d)
      BY <1>2 DEF RunInv, NoneTooMany, Creates
  <2>2. Matches(j, d)'
      BY <1>8, <2>1 DEF Done
  <2>3. CASE j = i
    <3>1. u.circuit \in planned /\ circuits[i].cid = u.circuit.cid
        BY <1>1 DEF AlwaysInv, Listed, UpdatePart
    <3>2. d = u.circuit
        BY <2>1, <2>3, <3>1, PlannedTyped DEF Done, Matches, AlwaysInv
    <3>3. circuits'[j].text = d.text
        BY <1>4, <1>6, <2>3, <3>2
    <3> QED BY <2>2, <3>3 DEF Done
  <2>4. CASE j # i
    <3>1. circuits'[j] = circuits[j]
        BY <1>6, <2>4 DEF OwnIds
    <3>2. [circuit |-> d, id |-> j] # u
        BY <2>4
    <3> QED BY <1>1, <2>1, <2>2, <3>1, <3>2 DEF Done
  <2> QED BY <2>3, <2>4
<1>10. NoneMissing'
    BY <1>2, <1>7, <1>8 DEF RunInv, NoneMissing
<1>11. NotThere'
    BY <1>2 DEF NotThere
<1> QED BY <1>2, <1>9, <1>10, <1>11 DEF RunInv, ToGo, JobSoFar

LEMMA SameRun ==
    ASSUME RunInv,
           UNCHANGED <<circuits, cable, running, planned, to_delete, to_create, to_update, job, edited>>
    PROVE  RunInv'
<1>1. Existing' = Existing /\ OwnIds' = OwnIds
    BY DEF Existing, OwnIds
<1>2. \A i, c : Matches(i, c)' <=> Matches(i, c)
    BY DEF Matches, ConnectedRearPorts
<1>3. NoneTooMany => NoneTooMany'
    BY <1>1, <1>2 DEF NoneTooMany, Done, Creates
<1>4. NoneMissing => NoneMissing'
    BY <1>1, <1>2 DEF NoneMissing
<1>5. (ToGo => ToGo') /\ (JobSoFar => JobSoFar')
    BY <1>1, <1>2 DEF ToGo, JobSoFar
<1>6. NotThere => NotThere'
    BY <1>1, <1>2 DEF NotThere
<1> QED BY <1>3, <1>4, <1>5, <1>6 DEF RunInv

LEMMA RunStep ==
    ASSUME PushInv, [Next]_vars
    PROVE  RunInv'
<1> USE DEF PushInv
<1>1. CASE UNCHANGED vars
    BY <1>1, SameRun DEF vars, netbox, run, lists
<1>2. CASE Replan
    BY <1>2, SameRun DEF Replan, netbox, run
<1>3. CASE Edit
    BY <1>3 DEF Edit, RunInv
<1>4. CASE Finish \/ Fail \/ Interrupt
    BY <1>4 DEF Finish, Fail, Interrupt, EndRun, RunInv
<1>5. CASE Request
    BY <1>4, <1>5, FetchRuns, DeleteRuns, CreateRuns, FetchPortRuns, TerminateRuns, RemoveRuns, PatchRuns,
       UpdateRuns DEF Request
<1> QED BY <1>1, <1>2, <1>3, <1>4, <1>5 DEF Next

LEMMA PushInvStep ==
    ASSUME PushInv, [Next]_vars
    PROVE  PushInv'
BY AlwaysStep, RunStep DEF PushInv

LEMMA PushInvInit ==
    ASSUME Init
    PROVE  PushInv
BY AlwaysInit DEF PushInv, RunInv, Init

THEOREM PushInvHolds == Spec => []PushInv
<1>1. Init => PushInv
    BY PushInvInit
<1>2. PushInv /\ [Next]_vars => PushInv'
    BY PushInvStep
<1> QED BY <1>1, <1>2, PTL DEF Spec

(* The types hold, whatever was deleted, cabled and interrupted. *)
THEOREM TypeCorrect == Spec => []TypeOK
<1>1. PushInv => TypeOK
    BY DEF PushInv, AlwaysInv
<1> QED BY <1>1, PushInvHolds, PTL

-----------------------------------------------------------------------------
(* The requests implement CircuitSync *)

Show(i) == [cid |-> circuits[i].cid, ports |-> ConnectedRearPorts(i), text |-> circuits[i].text]
AimOf(c) == [cid |-> c.cid, ports |-> Ends(c), text |-> c.text]

(* Nothing that CircuitSync speaks of changes. *)
LEMMA NothingShown ==
    ASSUME UNCHANGED <<planned, running, result, edited>>,
           Existing' = Existing, OwnIds' = OwnIds,
           \A j \in Existing \ OwnIds : circuits'[j] = circuits[j],
           \A j \in OwnIds : Show(j)' = Show(j)
    PROVE  UNCHANGED Promise!vars
<1>1. Shown(OwnIds)' = Shown(OwnIds)
    BY DEF Shown, Show
<1>2. ForeignCircuits' = ForeignCircuits
    BY DEF ForeignCircuits
<1>3. Aim(planned)' = Aim(planned)
    BY DEF Aim, Ends
<1> QED BY <1>1, <1>2, <1>3 DEF Promise!vars

(* Of the own circuits at most k changes: it then is a part of what was    *)
(* planned or there, and was none planned.                                 *)
LEMMA OneShown ==
    ASSUME running, UNCHANGED <<planned, running, result, edited>>, NEW k,
           OwnIds' \ {k} = OwnIds \ {k},
           Existing' \ OwnIds' = Existing \ OwnIds,
           \A j \in Existing \ OwnIds : circuits'[j] = circuits[j],
           \A j \in OwnIds \ {k} : Show(j)' = Show(j),
           k \in OwnIds' => \E p \in Aim(planned) \union Shown(OwnIds) : Promise!PartOf(Show(k)', p),
           ~ edited /\ k \in OwnIds =>
               Show(k) \notin Aim(planned) \/ (k \in OwnIds' /\ Show(k)' = Show(k))
    PROVE  Promise!Work
<1>1. ForeignCircuits' = ForeignCircuits
    BY DEF ForeignCircuits
<1>2. Aim(planned)' = Aim(planned)
    BY DEF Aim, Ends
<1>3. Shown(OwnIds) = {Show(i) : i \in OwnIds}
    BY DEF Shown, Show
<1>4. Shown(OwnIds)' = {Show(i)' : i \in OwnIds'}
    BY DEF Shown, Show
<1>5. ASSUME NEW c \in Shown(OwnIds)' \ Shown(OwnIds)
      PROVE  \E p \in Aim(planned) \union Shown(OwnIds) : Promise!PartOf(c, p)
  <2>1. PICK i \in OwnIds' : c = Show(i)'
      BY <1>4
  <2>2. i = k
      BY <1>3, <2>1
  <2> QED BY <2>1, <2>2
<1>6. ASSUME ~ edited, NEW c \in Shown(OwnIds) \ Shown(OwnIds)' PROVE c \notin Aim(planned)
  <2>1. PICK i \in OwnIds : c = Show(i)
      BY <1>3
  <2>2. i = k
      BY <1>4, <2>1
  <2> QED BY <1>4, <1>6, <2>1, <2>2
<1>7. edited \/ (Shown(OwnIds) \ Shown(OwnIds)') \cap Aim(planned) = {}
    BY <1>6
<1> QED BY <1>1, <1>2, <1>5, <1>7 DEF Promise!Work

(* What is shown of a circuit is one planned only if it matches.           *)
LEMMA AimMatches ==
    ASSUME NEW i, Show(i) \in Aim(planned)
    PROVE  \E c \in planned : Matches(i, c) /\ circuits[i].text = c.text
BY DEF Show, Aim, Matches

LEMMA SameShow ==
    ASSUME NEW j \in CircuitId, circuits'[j] = circuits[j], circuits[j].terms \subseteq TermSide,
           \A r \in RearPort, side \in TermSide : cable'[r] = <<j, side>> <=> cable[r] = <<j, side>>
    PROVE  Show(j)' = Show(j)
<1>1. ConnectedRearPorts(j)' = ConnectedRearPorts(j)
    BY SameEnds
<1> QED BY <1>1 DEF Show

LEMMA BeginStep ==
    ASSUME PushInv, FetchCircuits
    PROVE  Promise!Begin
<1>1. UNCHANGED <<circuits, cable>> /\ Existing' = Existing /\ OwnIds' = OwnIds
    BY DEF FetchCircuits, netbox, Existing, OwnIds
<1>2. Shown(OwnIds)' = Shown(OwnIds) /\ ForeignCircuits' = ForeignCircuits
    BY <1>1 DEF Shown, ForeignCircuits, ConnectedRearPorts
<1> QED BY <1>2 DEF FetchCircuits, Promise!Begin

LEMMA DeleteStep ==
    ASSUME PushInv, DeleteCircuit
    PROVE  Promise!Work
<1>1. PICK k \in to_delete : k \in Existing /\ Goes(k)
    BY DEF DeleteCircuit, Goes
<1>2. running /\ UNCHANGED <<planned, running, result, edited>>
    BY DEF DeleteCircuit, Deleting
<1>3. k \in OwnIds /\ k \in CircuitId
    BY <1>1 DEF PushInv, AlwaysInv, OwnDeleted, OwnIds, Existing
<1>4. /\ Existing' = Existing \ {k}
      /\ \A j \in Existing' : circuits'[j] = circuits[j]
      /\ \A r \in RearPort, j \in CircuitId, side \in TermSide :
            cable'[r] = <<j, side>> <=> cable[r] = <<j, side>> /\ j # k
    BY <1>1, <1>3, GoneCircuit DEF PushInv, AlwaysInv
<1>5. OwnIds' = OwnIds \ {k}
    BY <1>4 DEF OwnIds
<1>6. \A j \in OwnIds \ {k} : Show(j)' = Show(j)
  <2> SUFFICES ASSUME NEW j \in OwnIds \ {k} PROVE Show(j)' = Show(j)
      OBVIOUS
  <2>1. j \in CircuitId /\ circuits[j].terms \subseteq TermSide /\ circuits'[j] = circuits[j]
      BY <1>4, OwnTyped DEF PushInv, AlwaysInv, OwnIds
  <2> QED BY <1>4, <2>1, SameShow
<1>7. \A j \in Existing \ OwnIds : circuits'[j] = circuits[j]
    BY <1>3, <1>4
<1>8. ASSUME ~ edited PROVE Show(k) \notin Aim(planned)
    BY <1>1, <1>2, <1>8, AimMatches DEF PushInv, RunInv, ToGo
<1>9. Existing' \ OwnIds' = Existing \ OwnIds
    BY <1>3, <1>4, <1>5
<1>10. k \notin OwnIds' /\ OwnIds' \ {k} = OwnIds \ {k}
    BY <1>5
<1>11. ~ edited /\ k \in OwnIds => Show(k) \notin Aim(planned) \/ (k \in OwnIds' /\ Show(k)' = Show(k))
    BY <1>8
<1> QED BY <1>2, <1>6, <1>7, <1>9, <1>10, <1>11, OneShown

LEMMA CreateStep ==
    ASSUME PushInv, CreateCircuit
    PROVE  Promise!Work
<1> USE DEF PushInv, AlwaysInv
<1>1. PICK c \in to_create :
          circuits' = [circuits EXCEPT ![NewId] = [cid |-> c.cid, text |-> c.text, terms |-> {}]]
    BY DEF CreateCircuit
<1>2. /\ FreshIds # {} /\ running
      /\ UNCHANGED <<cable, planned, running, result, edited>>
    BY DEF CreateCircuit, Creating
<1>3. PICK k \in CircuitId : k = NewId
    BY <1>2, NewIdFresh
<1> DEFINE new == [cid |-> c.cid, text |-> c.text, terms |-> {}]
<1>4. c \in planned /\ c.cid \in OwnCid /\ new \in Circuit
    BY CidAssumption DEF Listed, TypeOK, Planned, Circuit
<1>5. /\ Existing' = Existing \union {k} /\ k \notin Existing /\ circuits'[k] = new
      /\ \A j \in Existing : circuits'[j] = circuits[j]
    BY <1>1, <1>2, <1>3, <1>4, NewCircuit
<1>6. OwnIds' = OwnIds \union {k}
    BY <1>4, <1>5 DEF OwnIds
<1>7. \A j \in OwnIds \ {k} : Show(j)' = Show(j)
    BY <1>2, <1>5, SameShow, OwnTyped DEF OwnIds
<1>8. Show(k)' = [cid |-> c.cid, ports |-> {}, text |-> c.text]
  <2>1. ConnectedRearPorts(k)' = {}
      BY <1>5 DEF ConnectedRearPorts
  <2> QED BY <1>5, <2>1 DEF Show
<1>9. AimOf(c) \in Aim(planned) /\ Promise!PartOf(Show(k)', AimOf(c))
    BY <1>4, <1>8 DEF Aim, AimOf, Promise!PartOf
<1>10. Existing' \ OwnIds' = Existing \ OwnIds /\ k \notin OwnIds
    BY <1>5, <1>6 DEF OwnIds
<1>11. \A j \in Existing \ OwnIds : circuits'[j] = circuits[j]
    BY <1>5
<1> QED BY <1>2, <1>6, <1>7, <1>9, <1>10, <1>11, OneShown

LEMMA TerminateStep ==
    ASSUME PushInv, CreateTermination
    PROVE  UNCHANGED Promise!vars
<1> USE DEF PushInv, AlwaysInv
<1>1. job \in Job /\ job # NoJob /\ job.id \in Existing /\ job.side \notin circuits[job.id].terms
    BY DEF CreateTermination, CanTerminate, In, TypeOK
<1>2. PICK k \in Existing, side \in TermSide, d \in planned :
          k = job.id /\ side = job.side /\ d = job.circuit
    BY <1>1 DEF Job, Listed
<1> DEFINE c == [circuits[k] EXCEPT !.terms = circuits[k].terms \union {side}]
<1>3. k \in CircuitId /\ circuits[k] \in Circuit
    BY ExistingTyped
<1>4. /\ c \in Circuit /\ c.cid = circuits[k].cid /\ c.text = circuits[k].text
      /\ c.terms = circuits[k].terms \union {side}
    BY <1>3 DEF Circuit
<1>5. circuits' = [circuits EXCEPT ![k] = c]
      /\ UNCHANGED <<cable, planned, running, result, edited, to_delete>>
    BY <1>2 DEF CreateTermination, lists
<1> HIDE DEF c
<1>6. /\ Existing' = Existing /\ circuits'[k] = c
      /\ \A j \in Existing : circuits'[j].cid = circuits[j].cid
      /\ \A j \in Existing \ {k} : circuits'[j] = circuits[j]
    BY <1>4, <1>5, ChangeKeeps
<1>7. OwnIds' = OwnIds
    BY <1>6 DEF OwnIds
<1>8. k \in OwnIds
    BY <1>1, <1>2, PlannedTyped DEF OwnIds, JobPart, Planned
<1>9. ConnectedRearPorts(k)' = ConnectedRearPorts(k)
  <2>1. \A r \in RearPort : cable[r] # <<k, side>>
      BY <1>1, <1>2, <1>3 DEF Wired
  <2> QED BY <1>4, <1>5, <1>6, <2>1 DEF ConnectedRearPorts
<1>10. Show(k)' = Show(k)
    BY <1>4, <1>6, <1>9 DEF Show
<1>11. \A j \in OwnIds : Show(j)' = Show(j)
  <2> SUFFICES ASSUME NEW j \in OwnIds, j # k PROVE Show(j)' = Show(j)
      BY <1>10
  <2> QED BY <1>5, <1>6, OwnTyped, SameShow DEF OwnIds
<1> QED BY <1>5, <1>6, <1>7, <1>8, <1>11, NothingShown

LEMMA RemoveStep ==
    ASSUME PushInv, RemoveBlockingCable
    PROVE  Promise!Work \/ UNCHANGED Promise!vars
<1> USE DEF PushInv, AlwaysInv
<1>1. job \in Job /\ job # NoJob /\ running /\ job.step = "unblock" /\ job.circuit \in planned
    BY DEF RemoveBlockingCable, In, TypeOK, Listed
<1>2. PICK d \in planned, e \in TermSide, r \in RearPort :
          d = job.circuit /\ e = job.side /\ r = d.ports[e]
    BY <1>1 DEF Job, Planned, Ports
<1>3. /\ UNCHANGED <<circuits, planned, running, result, edited>>
      /\ Existing' = Existing /\ OwnIds' = OwnIds
    BY DEF RemoveBlockingCable, Existing, OwnIds
<1>4. \/ cable' = cable
      \/ cable' = [cable EXCEPT ![r] = NoCable]
    BY <1>2 DEF RemoveBlockingCable, TypeOK
<1>5. CASE cable' = cable
  <2>1. \A j \in OwnIds : Show(j)' = Show(j)
      BY <1>3, <1>5, SameShow, OwnTyped
  <2> QED BY <1>3, <2>1, NothingShown
<1>6. CASE cable' = [cable EXCEPT ![r] = NoCable]
  <2>1. \A s \in RearPort : cable'[s] = IF s = r THEN NoCable ELSE cable[s]
      BY <1>6 DEF TypeOK
  <2>2. CASE \A j \in OwnIds, side \in TermSide : cable[r] # <<j, side>>
    <3>1. \A j \in OwnIds : Show(j)' = Show(j)
      <4> SUFFICES ASSUME NEW j \in OwnIds PROVE Show(j)' = Show(j)
          OBVIOUS
      <4>1. j \in CircuitId /\ circuits[j].terms \subseteq TermSide
          BY OwnTyped
      <4>2. \A s \in RearPort, side \in TermSide : cable'[s] = <<j, side>> <=> cable[s] = <<j, side>>
          BY <2>1, <2>2, <4>1, NoTermination
      <4> QED BY <1>3, <4>1, <4>2, SameShow
    <3> QED BY <1>3, <3>1, NothingShown
  <2>3. ASSUME NEW k \in OwnIds, NEW side \in TermSide, cable[r] = <<k, side>>
        PROVE  Promise!Work
    <3>1. k \in CircuitId /\ circuits[k].terms \subseteq TermSide /\ k \in Existing
        BY OwnTyped DEF OwnIds
    <3>2. \A j \in OwnIds \ {k} : Show(j)' = Show(j)
      <4> SUFFICES ASSUME NEW j \in OwnIds \ {k} PROVE Show(j)' = Show(j)
          OBVIOUS
      <4>1. j \in CircuitId /\ circuits[j].terms \subseteq TermSide
          BY OwnTyped
      <4>2. ASSUME NEW s \in RearPort, NEW t \in TermSide
            PROVE  cable'[s] = <<j, t>> <=> cable[s] = <<j, t>>
        <5>1. <<k, side>> # <<j, t>> /\ NoCable # <<j, t>>
            BY <4>1, NoTermination
        <5> QED BY <2>1, <2>3, <5>1
      <4> QED BY <1>3, <4>1, <4>2, SameShow
    <3>3. ConnectedRearPorts(k)' \subseteq ConnectedRearPorts(k)
        BY <1>3, <2>1, <3>1, NoTermination, FewerEnds
    <3>4. Show(k) \in Shown(OwnIds) /\ Promise!PartOf(Show(k)', Show(k))
        BY <1>3, <3>3 DEF Shown, Show, Promise!PartOf
    <3>5. ASSUME ~ edited PROVE Show(k) \notin Aim(planned)
      <4> SUFFICES ASSUME NEW c \in planned, Matches(k, c) PROVE FALSE
          BY AimMatches
      <4>1. r \in Ends(c)
        <5>1. side \in circuits[k].terms
            BY <2>3, <3>1 DEF Wired
        <5>2. r \in ConnectedRearPorts(k)
            BY <2>3, <5>1 DEF ConnectedRearPorts
        <5> QED BY <5>2 DEF Matches
      <4>2. r \in Ends(d)
          BY <1>2 DEF Ends, TermSide
      <4>3. c = d
          BY <4>1, <4>2, PlannedTyped
      <4>4. job.id \in Existing /\ circuits[job.id].cid = d.cid
          BY <1>1, <1>2, <3>5 DEF RunInv, JobSoFar, JobPart
      <4>5. k = job.id
          BY <3>1, <4>3, <4>4 DEF Matches, CidsUnique
      <4>6. r = d.ports[side]
          BY <1>1, <1>2, <2>3, <4>5 DEF JobPart
      <4>7. side = e
          BY <1>2, <4>6, PlannedTyped, Sides
      <4>8. cable[r] # <<job.id, e>>
          BY <1>1, <1>2, <3>5, Sides DEF RunInv, JobSoFar
      <4> QED BY <2>3, <4>5, <4>7, <4>8
    <3>6. \E p \in Aim(planned) \union Shown(OwnIds) : Promise!PartOf(Show(k)', p)
        BY <3>4
    <3>7. OwnIds' \ {k} = OwnIds \ {k} /\ Existing' \ OwnIds' = Existing \ OwnIds
          /\ \A j \in Existing \ OwnIds : circuits'[j] = circuits[j]
        BY <1>3
    <3>8. ~ edited /\ k \in OwnIds => Show(k) \notin Aim(planned) \/ (k \in OwnIds' /\ Show(k)' = Show(k))
        BY <3>5
    <3> QED BY <1>1, <1>3, <3>2, <3>6, <3>7, <3>8, OneShown
  <2> QED BY <2>2, <2>3
<1> QED BY <1>4, <1>5, <1>6

LEMMA PatchStep ==
    ASSUME PushInv, PatchCable
    PROVE  Promise!Work
<1> USE DEF PushInv, AlwaysInv
<1>1. job \in Job /\ job # NoJob /\ running /\ job.step = "cable" /\ job.circuit \in planned
      /\ job.id \in Existing /\ cable[job.circuit.ports[job.side]] = NoCable
      /\ job.side \in circuits[job.id].terms
    BY DEF PatchCable, CanCable, In, TypeOK, Listed
<1>2. PICK k \in Existing, d \in planned, e \in TermSide, r \in RearPort :
          k = job.id /\ d = job.circuit /\ e = job.side /\ r = d.ports[e]
    BY <1>1 DEF Job, Planned, Ports
<1>3. /\ UNCHANGED <<circuits, planned, running, result, edited>>
      /\ Existing' = Existing /\ OwnIds' = OwnIds
    BY DEF PatchCable, Existing, OwnIds
<1>4. \A s \in RearPort : cable'[s] = IF s = r THEN <<k, e>> ELSE cable[s]
    BY <1>2 DEF PatchCable, TypeOK
<1>5. k \in CircuitId /\ circuits[k].cid = d.cid /\ circuits[k].text = d.text
      /\ circuits[k].terms \subseteq TermSide
    BY <1>1, <1>2, ExistingTyped DEF JobPart, Circuit
<1>6. k \in OwnIds
    BY <1>5, PlannedTyped DEF OwnIds, Planned
<1>7. \A j \in OwnIds \ {k} : Show(j)' = Show(j)
  <2> SUFFICES ASSUME NEW j \in OwnIds \ {k} PROVE Show(j)' = Show(j)
      OBVIOUS
  <2>1. j \in CircuitId /\ circuits[j].terms \subseteq TermSide
      BY OwnTyped
  <2>2. \A s \in RearPort, t \in TermSide : cable'[s] = <<j, t>> <=> cable[s] = <<j, t>>
      BY <1>1, <1>2, <1>4, <2>1, NoTermination
  <2> QED BY <1>3, <2>1, <2>2, SameShow
<1>8. AimOf(d) \in Aim(planned) /\ Promise!PartOf(Show(k)', AimOf(d))
  <2>1. \A s \in RearPort, t \in TermSide : cable'[s] = <<k, t>> => s = d.ports[t]
      BY <1>1, <1>2, <1>4 DEF JobPart
  <2>2. ConnectedRearPorts(k)' \subseteq Ends(d)
      BY <1>3, <1>5, <2>1 DEF ConnectedRearPorts, Ends, TermSide
  <2> QED BY <1>3, <1>5, <2>2 DEF Aim, AimOf, Show, Promise!PartOf
<1>9. ASSUME ~ edited PROVE Show(k) \notin Aim(planned)
  <2> SUFFICES ASSUME NEW c \in planned, Matches(k, c) PROVE FALSE
      BY AimMatches
  <2>1. c = d
      BY <1>5, PlannedTyped DEF Matches
  <2>2. d.ports["Z"] \in ConnectedRearPorts(k)
      BY <2>1 DEF Matches, Ends
  <2>3. PICK t \in circuits[k].terms : cable[d.ports["Z"]] = <<k, t>>
      BY <2>2 DEF ConnectedRearPorts
  <2>4. d.ports["Z"] = d.ports[t] /\ t \in TermSide
      BY <1>1, <1>2, <1>5, <2>3, PlannedTyped DEF JobPart
  <2>5. t = "Z"
      BY <2>4, PlannedTyped, Sides
  <2>6. cable[d.ports["Z"]] # <<k, "Z">>
      BY <1>1, <1>2, <1>9, PlannedTyped DEF RunInv, JobSoFar
  <2> QED BY <2>3, <2>5, <2>6
<1>10. \E p \in Aim(planned) \union Shown(OwnIds) : Promise!PartOf(Show(k)', p)
    BY <1>8
<1>11. OwnIds' \ {k} = OwnIds \ {k} /\ Existing' \ OwnIds' = Existing \ OwnIds
       /\ \A j \in Existing \ OwnIds : circuits'[j] = circuits[j]
    BY <1>3
<1>12. ~ edited /\ k \in OwnIds => Show(k) \notin Aim(planned) \/ (k \in OwnIds' /\ Show(k)' = Show(k))
    BY <1>9
<1> QED BY <1>1, <1>3, <1>7, <1>10, <1>11, <1>12, OneShown

LEMMA UpdateStep ==
    ASSUME PushInv, UpdateCircuit
    PROVE  Promise!Work
<1> USE DEF PushInv, AlwaysInv
<1>1. PICK u \in to_update :
          u.id \in Existing /\ circuits' = [circuits EXCEPT ![u.id].text = u.circuit.text]
    BY DEF UpdateCircuit
<1>2. running /\ UNCHANGED <<cable, planned, running, result, edited, to_delete>>
    BY DEF UpdateCircuit, Updating
<1> DEFINE k == u.id
<1> DEFINE d == u.circuit
<1> DEFINE c == [circuits[k] EXCEPT !.text = d.text]
<1>3. circuits[k] \in Circuit /\ d \in planned /\ d \in Planned
    BY <1>1, ExistingTyped, PlannedTyped DEF Listed
<1>4. c \in Circuit /\ c.cid = circuits[k].cid /\ c.terms = circuits[k].terms /\ c.text = d.text
    BY <1>3 DEF Circuit, Planned
<1>5. circuits' = [circuits EXCEPT ![k] = c]
    BY <1>1
<1> HIDE DEF c
<1>6. /\ Existing' = Existing /\ circuits'[k] = c
      /\ \A j \in Existing : circuits'[j].cid = circuits[j].cid
      /\ \A j \in Existing \ {k} : circuits'[j] = circuits[j]
    BY <1>1, <1>2, <1>4, <1>5, ChangeKeeps
<1>7. circuits[k].cid = d.cid /\ ConnectedRearPorts(k) \subseteq Ends(d)
    BY <1>1 DEF UpdatePart
<1>8. OwnIds' = OwnIds /\ k \in OwnIds
    BY <1>1, <1>3, <1>6, <1>7 DEF OwnIds, Planned
<1>9. \A j \in OwnIds \ {k} : Show(j)' = Show(j)
    BY <1>2, <1>6, SameShow, OwnTyped DEF OwnIds
<1>10. ConnectedRearPorts(k)' = ConnectedRearPorts(k)
    BY <1>2, <1>4, <1>6 DEF ConnectedRearPorts
<1>11. Show(k)' = [cid |-> d.cid, ports |-> ConnectedRearPorts(k), text |-> d.text]
    BY <1>4, <1>6, <1>7, <1>10 DEF Show
<1>12. AimOf(d) \in Aim(planned) /\ Promise!PartOf(Show(k)', AimOf(d))
    BY <1>3, <1>7, <1>11 DEF Aim, AimOf, Promise!PartOf
<1>13. Show(k) \notin Aim(planned) \/ Show(k)' = Show(k)
  <2> SUFFICES ASSUME NEW f \in planned, Matches(k, f), circuits[k].text = f.text
               PROVE  Show(k)' = Show(k)
      BY AimMatches
  <2>1. f = d
      BY <1>3, <1>7, PlannedTyped DEF Matches
  <2> QED BY <1>7, <1>11, <2>1 DEF Show
<1>14. Existing' \ OwnIds' = Existing \ OwnIds /\ \A j \in Existing \ OwnIds : circuits'[j] = circuits[j]
    BY <1>6, <1>8
<1>15. \E p \in Aim(planned) \union Shown(OwnIds) : Promise!PartOf(Show(k)', p)
    BY <1>12
<1>16. OwnIds' \ {k} = OwnIds \ {k} /\ k \in OwnIds'
    BY <1>8
<1>17. ~ edited /\ k \in OwnIds => Show(k) \notin Aim(planned) \/ (k \in OwnIds' /\ Show(k)' = Show(k))
    BY <1>13, <1>16
<1> HIDE DEF k, d
<1> QED BY <1>2, <1>9, <1>14, <1>15, <1>16, <1>17, OneShown

(* A run that ends well found nothing to do in the end.                    *)
LEMMA FinishStep ==
    ASSUME PushInv, Finish
    PROVE  Promise!Finish
<1> USE DEF PushInv, AlwaysInv
<1>1. /\ running /\ to_delete = {} /\ to_create = {} /\ to_update = {} /\ job = NoJob
      /\ running' = FALSE /\ result' = "ok"
      /\ UNCHANGED <<circuits, cable, planned, edited>>
    BY DEF Finish, AllDone, EndRun, netbox
<1>2. UNCHANGED <<Shown(OwnIds), ForeignCircuits, Aim(planned)>>
  <2>1. Existing' = Existing /\ OwnIds' = OwnIds
      BY <1>1 DEF Existing, OwnIds
  <2> QED BY <1>1, <2>1 DEF Shown, ForeignCircuits, Aim, Ends, ConnectedRearPorts
<1>3. ASSUME ~ edited PROVE Shown(OwnIds) = Aim(planned)
  <2>1. NoneTooMany /\ NoneMissing
      BY <1>1, <1>3 DEF RunInv
  <2>2. \A i \in OwnIds : \E c \in planned : Matches(i, c) /\ circuits[i].text = c.text
      BY <1>1, <2>1 DEF NoneTooMany, Creates, Done
  <2>3. \A i \in OwnIds, c \in planned :
            Matches(i, c) => Show(i) = AimOf(c)
    <3> SUFFICES ASSUME NEW i \in OwnIds, NEW c \in planned, Matches(i, c)
                 PROVE  Show(i) = AimOf(c)
        OBVIOUS
    <3>1. PICK f \in planned : Matches(i, f) /\ circuits[i].text = f.text
        BY <2>2
    <3>2. f = c
        BY <3>1, PlannedTyped DEF Matches
    <3> QED BY <3>1, <3>2 DEF Matches, Show, AimOf
  <2>4. Shown(OwnIds) = {Show(i) : i \in OwnIds} /\ Aim(planned) = {AimOf(c) : c \in planned}
      BY DEF Shown, Show, Aim, AimOf
  <2>5. \A c \in planned : \E i \in OwnIds : Matches(i, c)
      BY <1>1, <2>1 DEF NoneMissing
  <2> QED BY <2>2, <2>3, <2>4, <2>5
<1> QED BY <1>1, <1>2, <1>3 DEF Promise!Finish

LEMMA FailStep ==
    ASSUME PushInv, Fail \/ Interrupt
    PROVE  Promise!Fail
<1>1. /\ running /\ running' = FALSE /\ result' = "failed"
      /\ UNCHANGED <<circuits, cable, planned, edited>>
    BY DEF Fail, Interrupt, Refused, EndRun, Deleting, Creating, In, Updating, netbox
<1>2. Existing' = Existing /\ OwnIds' = OwnIds
    BY <1>1 DEF Existing, OwnIds
<1>3. UNCHANGED <<Shown(OwnIds), ForeignCircuits, Aim(planned)>>
    BY <1>1, <1>2 DEF Shown, ForeignCircuits, Aim, Ends, ConnectedRearPorts
<1> QED BY <1>1, <1>3 DEF Promise!Fail

LEMMA StillStep ==
    ASSUME PushInv, UNCHANGED vars \/ Replan \/ FetchRearPort
    PROVE  UNCHANGED Promise!vars
<1>1. UNCHANGED <<circuits, cable, planned, running, result, edited>>
    BY DEF vars, netbox, run, Replan, FetchRearPort
<1>2. Existing' = Existing /\ OwnIds' = OwnIds
    BY <1>1 DEF Existing, OwnIds
<1>3. \A j \in OwnIds : Show(j)' = Show(j)
    BY <1>1 DEF Show, ConnectedRearPorts
<1> QED BY <1>1, <1>2, <1>3, NothingShown

LEMMA PromiseStep ==
    ASSUME PushInv, [Next]_vars
    PROVE  [Promise!Next]_Promise!vars
<1>1. CASE Edit
  <2>1. edited' = TRUE /\ UNCHANGED <<planned, running, result>>
      BY <1>1 DEF Edit
  <2>2. Aim(planned)' = Aim(planned)
      BY <2>1 DEF Aim, Ends
  <2> QED BY <2>1, <2>2 DEF Promise!Edit, Promise!Next
<1>2. CASE Request
    BY <1>2, BeginStep, DeleteStep, CreateStep, StillStep, TerminateStep, RemoveStep, PatchStep,
       UpdateStep, FinishStep, FailStep DEF Request, Promise!Next
<1>3. CASE Interrupt \/ Replan \/ UNCHANGED vars
    BY <1>3, FailStep, StillStep DEF Promise!Next
<1> QED BY <1>1, <1>2, <1>3 DEF Next

(* The requests of sync_plan_to_netbox keep the promise of CircuitSync:    *)
(* a run adds and takes away only what it should, and one that ends well   *)
(* has brought Netbox to the circuits planned, whatever was half done.     *)
THEOREM Refines == Spec => KeepsPromise
<1>1. Init => Promise!Init
  <2>1. ASSUME Init PROVE OwnIds = {} /\ Existing = {}
      BY <2>1 DEF Init, OwnIds, Existing
  <2> QED BY <2>1 DEF Init, Promise!Init, Shown, ForeignCircuits, Aim
<1>2. PushInv /\ [Next]_vars => [Promise!Next]_Promise!vars
    BY PromiseStep
<1> QED BY <1>1, <1>2, PushInvHolds, PTL DEF Spec, KeepsPromise, Promise!Spec

-----------------------------------------------------------------------------
(* No request of a run blocks a later one *)

Holds(side) == cable[job.circuit.ports[side]] = job.seen[side]

(* The terminations made so far, and the cables in their way.              *)
Terminated ==
    LET made == job.step \in {"unblock", "cable"}
    IN  /\ "A" \in circuits[job.id].terms <=> made \/ (job.side = "Z" /\ job.step # "fetch")
        /\ "Z" \in circuits[job.id].terms <=> made /\ job.side = "Z"
InTheWay ==
    /\ job.step = "fetch" /\ job.side = "Z" => Holds("A")
    /\ job.step # "fetch" /\ job.side = "A" => Holds("Z")
    /\ job.step \in {"terminate", "unblock"} => Holds(job.side)
    /\ job.step = "cable" => cable[job.circuit.ports[job.side]] = NoCable \/ Holds(job.side)

ClearInv ==
    running /\ ~ edited =>
        /\ to_delete \subseteq Existing
        /\ \A u \in to_update : u.id \in Existing \ to_delete
        /\ job # NoJob => Terminated /\ InTheWay

LEMMA ClearFetchCircuits ==
    ASSUME PushInv, FetchCircuits
    PROVE  ClearInv'
<1>1. /\ Existing' = Existing /\ job' = NoJob
      /\ to_update' = {u \in [circuit : wanted, id : Existing] : Matches(u.id, u.circuit)}
      /\ to_delete' = Surplus
    BY DEF FetchCircuits, netbox, Existing
<1>2. to_delete' \subseteq Existing /\ \A u \in to_update' : u.id \in Existing \ to_delete'
    BY <1>1 DEF Surplus
<1> QED BY <1>1, <1>2 DEF ClearInv

LEMMA ClearDelete ==
    ASSUME PushInv, ClearInv, DeleteCircuit
    PROVE  ClearInv'
<1>1. PICK i \in to_delete : i \in Existing /\ Goes(i) /\ to_delete' = to_delete \ {i}
    BY DEF DeleteCircuit, Goes
<1>2. running /\ job = NoJob /\ UNCHANGED <<to_update, job, edited>>
    BY DEF DeleteCircuit, Deleting, PushInv, AlwaysInv, Listed
<1>3. Existing' = Existing \ {i}
    BY <1>1, GoneCircuit DEF PushInv, AlwaysInv, Existing
<1> QED BY <1>1, <1>2, <1>3 DEF ClearInv

LEMMA ClearCreate ==
    ASSUME PushInv, ClearInv, CreateCircuit
    PROVE  ClearInv'
<1>1. PICK c \in to_create :
          /\ circuits' = [circuits EXCEPT ![NewId] = [cid |-> c.cid, text |-> c.text, terms |-> {}]]
          /\ job' = [circuit |-> c, id |-> NewId, side |-> "A", step |-> "fetch",
                     seen |-> [side \in TermSide |-> NoCable]]
    BY DEF CreateCircuit
<1>2. FreshIds # {} /\ running /\ to_delete = {} /\ UNCHANGED <<to_delete, to_update, edited>>
    BY DEF CreateCircuit, Creating
<1> DEFINE new == [cid |-> c.cid, text |-> c.text, terms |-> {}]
<1>3. new \in Circuit
    BY CidAssumption DEF PushInv, AlwaysInv, TypeOK, Planned, Circuit
<1>4. Existing' = Existing \union {NewId} /\ circuits'[NewId] = new
    BY <1>1, <1>2, <1>3, NewCircuit DEF PushInv, AlwaysInv
<1>5. job'.side = "A" /\ job'.step = "fetch" /\ job'.id = NewId
    BY <1>1
<1>6. Terminated'
    BY <1>4, <1>5, Sides DEF Terminated
<1>7. InTheWay'
    BY <1>5, Sides DEF InTheWay
<1> QED BY <1>2, <1>4, <1>6, <1>7 DEF ClearInv

LEMMA ClearFetchRearPort ==
    ASSUME PushInv, ClearInv, FetchRearPort
    PROVE  ClearInv'
<1>1. job \in Job /\ job # NoJob /\ running /\ job.step = "fetch"
    BY DEF FetchRearPort, In, PushInv, AlwaysInv, TypeOK
<1>2. UNCHANGED <<circuits, cable, running, edited, to_delete, to_update>> /\ Existing' = Existing
    BY DEF FetchRearPort, netbox, lists, Existing
<1> SUFFICES ASSUME ~ edited PROVE Terminated' /\ InTheWay'
    BY <1>1, <1>2 DEF ClearInv
<1>3. Terminated /\ InTheWay
    BY <1>1 DEF ClearInv
<1>4. /\ job'.circuit = job.circuit /\ job'.id = job.id
      /\ job'.side = IF job.side = "A" THEN "Z" ELSE "A"
      /\ job'.step = IF job.side = "A" THEN "fetch" ELSE "terminate"
      /\ job'.seen[job.side] = cable[job.circuit.ports[job.side]]
      /\ \A side \in TermSide \ {job.side} : job'.seen[side] = job.seen[side]
    BY <1>1 DEF FetchRearPort, Job
<1>5. job.side \in {"A", "Z"}
    BY <1>1 DEF Job, TermSide
<1>6. Terminated'
    BY <1>1, <1>2, <1>3, <1>4, <1>5 DEF Terminated
<1>7. InTheWay'
    BY <1>1, <1>2, <1>3, <1>4, <1>5, Sides DEF InTheWay, Holds
<1> QED BY <1>6, <1>7

LEMMA ClearTerminate ==
    ASSUME PushInv, ClearInv, CreateTermination
    PROVE  ClearInv'
<1>1. /\ job \in Job /\ job # NoJob /\ job.id \in Existing /\ running /\ job.step = "terminate"
      /\ job.side \in {"A", "Z"}
    BY DEF CreateTermination, CanTerminate, In, PushInv, AlwaysInv, TypeOK, Job, TermSide
<1>2. UNCHANGED <<cable, running, edited, to_delete, to_update>>
    BY DEF CreateTermination, lists
<1>3. job.id \in CircuitId /\ circuits[job.id] \in Circuit
    BY <1>1, ExistingTyped DEF PushInv, AlwaysInv
<1>4. circuits'[job.id].terms = circuits[job.id].terms \union {job.side}
    BY <1>3 DEF CreateTermination, PushInv, AlwaysInv, TypeOK, Circuit
<1>5. Existing' = Existing
  <2>1. [circuits[job.id] EXCEPT !.terms = @ \union {job.side}] \in Circuit
      BY <1>1, <1>3, Sides DEF Circuit
  <2>2. [circuits[job.id] EXCEPT !.terms = @ \union {job.side}] # NoCircuit
      BY <2>1, NullAssumption
  <2> QED BY <1>1, <2>2 DEF CreateTermination, Existing, PushInv, AlwaysInv, TypeOK
<1> SUFFICES ASSUME ~ edited PROVE Terminated' /\ InTheWay'
    BY <1>1, <1>2, <1>5 DEF ClearInv
<1>6. Terminated /\ InTheWay
    BY <1>1 DEF ClearInv
<1>7. /\ job'.circuit = job.circuit /\ job'.id = job.id /\ job'.side = job.side /\ job'.seen = job.seen
      /\ job'.step = IF job.seen[job.side] = NoCable THEN "cable" ELSE "unblock"
    BY <1>1 DEF CreateTermination, Job
<1>8. Terminated'
    BY <1>1, <1>4, <1>6, <1>7 DEF Terminated
<1>9. InTheWay'
    BY <1>1, <1>2, <1>6, <1>7 DEF InTheWay, Holds
<1> QED BY <1>8, <1>9

LEMMA ClearRemove ==
    ASSUME PushInv, ClearInv, RemoveBlockingCable
    PROVE  ClearInv'
<1>1. /\ job \in Job /\ job # NoJob /\ running /\ job.step = "unblock" /\ job.side \in {"A", "Z"}
      /\ job.circuit \in planned
    BY DEF RemoveBlockingCable, In, PushInv, AlwaysInv, TypeOK, Job, TermSide, Listed
<1>2. UNCHANGED <<circuits, running, edited, to_delete, to_update>> /\ Existing' = Existing
    BY DEF RemoveBlockingCable, lists, Existing
<1> SUFFICES ASSUME ~ edited PROVE Terminated' /\ InTheWay'
    BY <1>1, <1>2 DEF ClearInv
<1>3. Terminated /\ InTheWay
    BY <1>1 DEF ClearInv
<1>4. /\ job'.circuit = job.circuit /\ job'.id = job.id /\ job'.side = job.side /\ job'.seen = job.seen
      /\ job'.step = "cable"
    BY <1>1 DEF RemoveBlockingCable, Job
<1> DEFINE a == job.circuit.ports["A"]
<1> DEFINE z == job.circuit.ports["Z"]
<1>5. a \in RearPort /\ z \in RearPort /\ a # z
    BY <1>1, PlannedTyped DEF PushInv, AlwaysInv
<1> DEFINE r == job.circuit.ports[job.side]
<1>6. /\ \A s \in RearPort \ {r} : cable'[s] = cable[s]
      /\ cable'[r] = cable[r] \/ cable'[r] = NoCable
    BY <1>1, <1>5 DEF RemoveBlockingCable, PushInv, AlwaysInv, TypeOK
<1>7. Terminated'
    BY <1>1, <1>2, <1>3, <1>4 DEF Terminated
<1>8. job.side = "A" => cable'[z] = cable[z]
    BY <1>5, <1>6
<1>9. InTheWay'
    BY <1>1, <1>3, <1>4, <1>6, <1>8 DEF InTheWay, Holds
<1> QED BY <1>7, <1>9

LEMMA ClearPatch ==
    ASSUME PushInv, ClearInv, PatchCable
    PROVE  ClearInv'
<1>1. /\ job \in Job /\ job # NoJob /\ running /\ job.step = "cable" /\ job.side \in {"A", "Z"}
      /\ job.circuit \in planned
    BY DEF PatchCable, In, PushInv, AlwaysInv, TypeOK, Job, TermSide, Listed
<1>2. UNCHANGED <<circuits, running, edited, to_delete, to_update>> /\ Existing' = Existing
    BY DEF PatchCable, lists, Existing
<1> SUFFICES ASSUME ~ edited, job' # NoJob PROVE Terminated' /\ InTheWay'
    BY <1>1, <1>2 DEF ClearInv
<1>3. Terminated /\ InTheWay
    BY <1>1 DEF ClearInv
<1>4. job.side = "A" /\ job' = [job EXCEPT !.side = "Z", !.step = "terminate"]
    BY <1>1 DEF PatchCable
<1>5. /\ job'.circuit = job.circuit /\ job'.id = job.id /\ job'.seen = job.seen
      /\ job'.side = "Z" /\ job'.step = "terminate"
    BY <1>1, <1>4 DEF Job
<1> DEFINE a == job.circuit.ports["A"]
<1> DEFINE z == job.circuit.ports["Z"]
<1>6. a \in RearPort /\ z \in RearPort /\ a # z
    BY <1>1, PlannedTyped DEF PushInv, AlwaysInv
<1>7. cable'[z] = cable[z]
    BY <1>4, <1>6 DEF PatchCable, PushInv, AlwaysInv, TypeOK
<1>8. Terminated'
    BY <1>1, <1>2, <1>3, <1>4, <1>5 DEF Terminated
<1>9. InTheWay'
    BY <1>1, <1>3, <1>4, <1>5, <1>7 DEF InTheWay, Holds
<1> QED BY <1>8, <1>9

LEMMA ClearUpdate ==
    ASSUME PushInv, ClearInv, UpdateCircuit
    PROVE  ClearInv'
<1>1. PICK u \in to_update :
          /\ u.id \in Existing
          /\ circuits' = [circuits EXCEPT ![u.id].text = u.circuit.text]
          /\ to_update' = to_update \ {u}
    BY DEF UpdateCircuit
<1>2. running /\ to_delete = {} /\ job = NoJob /\ UNCHANGED <<to_delete, job, edited>>
    BY DEF UpdateCircuit, Updating
<1>3. Existing \subseteq Existing'
  <2>1. circuits[u.id] \in Circuit /\ u.id \in CircuitId /\ u.circuit.text \in Text
      BY <1>1, ExistingTyped DEF PushInv, AlwaysInv, TypeOK, Update, Planned
  <2>2. [circuits[u.id] EXCEPT !.text = u.circuit.text] # NoCircuit
      BY <2>1, NullAssumption DEF Circuit
  <2> QED BY <1>1, <2>1, <2>2 DEF Existing, PushInv, AlwaysInv, TypeOK
<1> QED BY <1>1, <1>2, <1>3 DEF ClearInv

LEMMA ClearStep ==
    ASSUME PushInv, ClearInv, [Next]_vars
    PROVE  ClearInv'
<1>1. CASE UNCHANGED vars \/ Replan
  <2>1. UNCHANGED <<circuits, cable, running, to_delete, to_update, job, edited>> /\ Existing' = Existing
      BY <1>1 DEF vars, netbox, run, lists, Replan, Existing
  <2> QED BY <2>1 DEF ClearInv, Terminated, InTheWay, Holds
<1>2. CASE Edit
    BY <1>2 DEF Edit, ClearInv
<1>3. CASE Finish \/ Fail \/ Interrupt
    BY <1>3 DEF Finish, Fail, Interrupt, EndRun, ClearInv
<1>4. CASE Request
    BY <1>3, <1>4, ClearFetchCircuits, ClearDelete, ClearCreate, ClearFetchRearPort, ClearTerminate,
       ClearRemove, ClearPatch, ClearUpdate DEF Request
<1> QED BY <1>1, <1>2, <1>3, <1>4 DEF Next

LEMMA NothingInTheWay ==
    ASSUME PushInv, ClearInv
    PROVE  NeverInItsOwnWay
<1> USE DEF PushInv, AlwaysInv
<1> SUFFICES ASSUME running, Refused, ~ edited
             PROVE  In("cable") /\ Holds(job.side)
    BY DEF NeverInItsOwnWay, Holds
<1>1. NoneTooMany /\ JobSoFar /\ NotThere
    BY DEF RunInv
<1>2. to_delete \subseteq Existing /\ \A u \in to_update : u.id \in Existing
    BY DEF ClearInv
<1>3. CASE Creating /\ \E c \in to_create : Taken(c.cid)
  <2>1. PICK c \in to_create, i \in Existing : circuits[i].cid = c.cid
      BY <1>3 DEF Taken
  <2>2. c \in planned /\ i \in OwnIds
      BY <2>1, PlannedTyped DEF Listed, OwnIds, Planned
  <2>3. PICK d \in planned : Matches(i, d)
      BY <1>1, <1>3, <2>2 DEF Creating, NoneTooMany, Creates, Done
  <2>4. d = c
      BY <2>1, <2>2, <2>3, PlannedTyped DEF Matches
  <2> QED BY <1>1, <2>2, <2>3, <2>4 DEF NotThere
<1>4. CASE In("terminate") /\ ~ CanTerminate
  <2>1. job # NoJob /\ job.step = "terminate" /\ job.side \in {"A", "Z"}
      BY <1>4 DEF In, TypeOK, Job, TermSide
  <2>2. job.id \in Existing /\ Terminated
      BY <1>1, <2>1 DEF JobSoFar, ClearInv
  <2> QED BY <1>4, <2>1, <2>2 DEF Terminated, CanTerminate
<1>5. CASE In("cable") /\ ~ CanCable
  <2>1. job # NoJob /\ job.step = "cable" /\ job.side \in {"A", "Z"}
      BY <1>5 DEF In, TypeOK, Job, TermSide
  <2>2. job.id \in Existing /\ Terminated /\ InTheWay
      BY <1>1, <2>1 DEF JobSoFar, ClearInv
  <2>3. IsLast(job.id, job.side)
      BY <1>1, <2>1 DEF JobSoFar, IsLast
  <2>4. job.side \in circuits[job.id].terms
      BY <2>1, <2>2 DEF Terminated
  <2> QED BY <1>5, <2>1, <2>2, <2>3, <2>4 DEF CanCable, InTheWay
<1> QED BY <1>2, <1>3, <1>4, <1>5 DEF Refused, Deleting, Updating

(* A run that nobody disturbs is refused only the cable of a rear port     *)
(* whose old cable it failed to delete: sync_plan_to_netbox never blocks   *)
(* its own later requests, for any plans and any leftovers.                *)
THEOREM OwnWayIsClear == Spec => []NeverInItsOwnWay
<1>1. Init => ClearInv
    BY DEF Init, ClearInv
<1>2. PushInv /\ ClearInv /\ [Next]_vars => ClearInv'
    BY ClearStep
<1>3. PushInv /\ ClearInv => NeverInItsOwnWay
    BY NothingInTheWay
<1> QED BY <1>1, <1>2, <1>3, PushInvHolds, PTL DEF Spec
=============================================================================
