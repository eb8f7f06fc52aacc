----------------------------- MODULE PortEditor -----------------------------
(***************************************************************************)
(* The page of a panel's ports (PortEditor): a list whose order is the     *)
(* order on the panel.  A port is stored with its order and its rest here: *)
(* its label, type and Netbox port.                                        *)
(*                                                                         *)
(* Left out: the labels of added ports, the ports Netbox offers.           *)
(***************************************************************************)
EXTENDS Page

CONSTANTS
    Port, NewPort,       \* ids, and the one of every port not stored yet
    NoPort, Rest, DefaultRest,
    StoredPorts,         \* what may be stored at first
    MaxPorts

Row == [order : Nat, rest : Rest, used : BOOLEAN]

(* Ports are stored by this page only, so numbered from 1, and there is    *)
(* always an id left for a new one.                                        *)
StoredIds(rows) == {p \in Port : rows[p] # NoPort}
Known ==
    /\ StoredPorts \subseteq [Port -> Row \union {NoPort}] /\ NoPort \notin Row
    /\ \A rows \in StoredPorts : \A p \in StoredIds(rows) :
          /\ rows[p].order \in 1 .. Cardinality(StoredIds(rows))
          /\ \A q \in StoredIds(rows) : rows[q].order = rows[p].order => q = p
    /\ IsFiniteSet(Port) /\ NewPort \notin Port /\ DefaultRest \in Rest
    /\ MaxPorts \in 0 .. Cardinality(Port)
    /\ TRUE \notin {Unanswered, Failed} /\ Closed # "Panel"
    /\ Failed \notin [Port -> Row \union {NoPort}]

Empty == [route |-> Closed, state |-> Pending, ports |-> <<>>, saving |-> FALSE]

Init == db \in StoredPorts /\ page = Empty /\ calls = {} /\ spent = NothingSpent

(* The page's ports that are not deleted, each in its place among them. *)
Shown(ports) == {i \in DOMAIN ports : ~ ports[i].deleted}
PlaceOf(ports, i) == Cardinality({j \in Shown(ports) : j <= i})
Visible(ports) ==
    [n \in 1 .. Cardinality(Shown(ports)) |-> ports[CHOOSE i \in Shown(ports) : PlaceOf(ports, i) = n]]

Open ==
    /\ Spend("opens") /\ page.route = Closed /\ calls = {}
    /\ page' = [page EXCEPT !.route = "Panel"]
    /\ Send(Request("fetch", [panel |-> "Panel"])) /\ UNCHANGED db

(* Msg::PortsFetched, Msg::Error *)
PortsFetched(c) ==
    /\ c.kind = "fetch" /\ c.answer # Unanswered
    /\ page' = IF c.answer = Failed THEN [page EXCEPT !.state = Failed]
               ELSE [page EXCEPT !.state = c.answer, !.ports = c.answer]
    /\ Arrived(c) /\ UNCHANGED <<db, spent>>

Form == page.state \notin {Pending, Failed} /\ ~ page.saving
Editing == Form /\ Spend("edits") /\ UNCHANGED <<db, calls>>

(* recalculate_orders: those not deleted are numbered from 1. *)
Renumbered(ports) ==
    [i \in DOMAIN ports |->
        IF ports[i].deleted THEN ports[i]
        ELSE [ports[i] EXCEPT !.order = PlaceOf(ports, i)]]
SetPorts(ports) == page' = [page EXCEPT !.ports = Renumbered(ports)]

AddPort ==
    /\ Editing /\ Len(page.ports) < MaxPorts
    /\ LET rest == IF page.ports = <<>> THEN DefaultRest ELSE page.ports[Len(page.ports)].rest
       IN  SetPorts(Append(page.ports, [id |-> NewPort, order |-> 0, rest |-> rest, deleted |-> FALSE]))

Without(ports, i) == SubSeq(ports, 1, i - 1) \o SubSeq(ports, i + 1, Len(ports))

(* A fault: a stored port is forgotten, not marked. *)
Forgotten(i) == Without(page.ports, i)

(* Msg::MarkDeleted: a new port goes, a stored one is deleted on saving. *)
WithoutPort(i) ==
    IF page.ports[i].id = NewPort THEN Without(page.ports, i)
    ELSE [page.ports EXCEPT ![i].deleted = TRUE]
MarkDeleted(i) == Editing /\ ~ page.ports[i].deleted /\ SetPorts(WithoutPort(i))

(* UpdateLabel, UpdateType, UpdateNetboxId *)
UpdateRest(i, rest) ==
    /\ Editing /\ ~ page.ports[i].deleted /\ rest # page.ports[i].rest
    /\ page' = [page EXCEPT !.ports[i].rest = rest]

(* MoveUp, MoveDown: two neighbours that are not deleted change places. *)
Swap(i, j) ==
    /\ Editing /\ i < j /\ ~ page.ports[i].deleted /\ ~ page.ports[j].deleted
    /\ PlaceOf(page.ports, j) = PlaceOf(page.ports, i) + 1
    /\ SetPorts([page.ports EXCEPT ![i] = page.ports[j], ![j] = page.ports[i]])

Save ==
    /\ Form /\ page.ports # page.state
    /\ page' = [page EXCEPT !.saving = TRUE]
    /\ Send(Request("store", [changes |-> Visible(page.ports),
                              deletes |-> {page.ports[i].id :
                                  i \in {j \in DOMAIN page.ports : page.ports[j].deleted}}]))
    /\ UNCHANGED <<db, spent>>

(* Msg::Saved, Msg::SaveFailed *)
Saved(c) ==
    /\ c.kind = "store" /\ c.answer # Unanswered
    /\ IF c.answer = Failed
       THEN page' = [page EXCEPT !.saving = FALSE] /\ Arrived(c)
       ELSE /\ page' = [page EXCEPT !.saving = FALSE, !.state = Pending]
            /\ Exchange({c}, {Request("fetch", [panel |-> page.route])})
    /\ UNCHANGED <<db, spent>>

-----------------------------------------------------------------------------
(* The backend *)

InOrder(rows) ==
    [i \in 1 .. Cardinality(StoredIds(rows)) |->
        CHOOSE p \in StoredIds(rows) :
            Cardinality({q \in StoredIds(rows) : rows[q].order <= rows[p].order}) = i]

ServeFetch(c) ==
    /\ Waiting(c, "fetch")
    /\ Reply(c, [i \in DOMAIN InOrder(db) |->
                    LET p == InOrder(db)[i]
                    IN  [id |-> p, order |-> db[p].order, rest |-> db[p].rest, deleted |-> FALSE]])
    /\ UNCHANGED <<db, page, spent>>

(* Writing one port; the constraint panel_port_unique is checked at once.  *)
Written(rows, change) ==
    LET p == IF change.id = NewPort THEN CHOOSE q \in Port : rows[q] = NoPort ELSE change.id
        taken == \E q \in StoredIds(rows) \ {p} : rows[q].order = change.order
        used == rows[p] # NoPort /\ rows[p].used
    IN  IF taken THEN Failed
        ELSE IF change.id # NewPort /\ rows[p] = NoPort THEN rows
        ELSE [rows EXCEPT ![p] = [order |-> change.order, rest |-> change.rest, used |-> used]]

(* The ports once the first n changes are made, one after the other. *)
AfterChanges(rows, changes) ==
    LET after[n \in 0 .. Len(changes)] ==
            IF n = 0 THEN rows
            ELSE LET before == after[n - 1]
                 IN  IF before = Failed THEN Failed ELSE Written(before, changes[n])
    IN  after[Len(changes)]

(* update_panel_ports: deletions first; a port with fibers can't go. *)
ServeStore(c) ==
    /\ Waiting(c, "store")
    /\ LET deleted == [p \in Port |-> IF p \in c.what.deletes THEN NoPort ELSE db[p]]
           after == IF \E p \in c.what.deletes : db[p] # NoPort /\ db[p].used THEN Failed
                    ELSE AfterChanges(deleted, c.what.changes)
       IN  IF after = Failed THEN Reply(c, Failed) /\ UNCHANGED db
                             ELSE Reply(c, TRUE) /\ db' = after
    /\ UNCHANGED <<page, spent>>

Next ==
    \/ Open \/ AddPort \/ Save
    \/ \E i, j \in DOMAIN page.ports : Swap(i, j)
    \/ \E i \in DOMAIN page.ports : MarkDeleted(i) \/ \E r \in Rest : UpdateRest(i, r)
    \/ \E c \in calls : PortsFetched(c) \/ Saved(c) \/ ServeFetch(c) \/ ServeStore(c)
    \/ Refuse

Spec == Init /\ [][Next]_vars
=============================================================================
