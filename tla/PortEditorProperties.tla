------------------------ MODULE PortEditorProperties ------------------------
(* What must hold of the page of a panel's ports. *)
EXTENDS PortEditor

TypeOK ==
    /\ PageTypeOK
    /\ \A p \in Port : db[p] = NoPort \/ (db[p].order \in Nat /\ db[p].rest \in Rest)
    /\ DOMAIN page = DOMAIN Empty
    /\ \A i \in DOMAIN page.ports : page.ports[i].id \in Port \union {NewPort}

Data(ports) == [i \in DOMAIN ports |-> <<ports[i].order, ports[i].rest>>]

(***************************************************************************)
(* What was stored is the list the page showed, in its order: ports of     *)
(* before are gone if they were removed there, and no number is left out.  *)
(***************************************************************************)
StoredAsShown ==
    \A c \in calls : (c.kind = "store" /\ c.answer = TRUE) =>
        LET ports == InOrder(db)
        IN  Data(c.what.changes) = [i \in DOMAIN ports |-> <<i, db[ports[i]].rest>>]
=============================================================================
