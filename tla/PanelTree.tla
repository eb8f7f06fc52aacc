------------------------------ MODULE PanelTree ------------------------------
(***************************************************************************)
(* The page of the panels of a manhole (EditCabinet), a forest the user    *)
(* rearranges.  It is sent as the panels that are new or differ, each with *)
(* its parent and its place among the parent's children.                   *)
(*                                                                         *)
(* Left out: which panels are open, the devices Netbox offers.             *)
(***************************************************************************)
EXTENDS Page, SequencesExt

CONSTANTS
    Panel, New,          \* ids, and those of panels not stored yet
    Root, NoPanel,       \* the parent of the panels on top
    Cabinet,             \* the manholes
    Name, EmptyName, Device, NoDevice,
    StoredPanels,        \* what may be stored at first
    WithPorts            \* the panels that have ports, which other pages store

Key == Panel \union New

Empty == [route |-> Closed, state |-> Pending, tree |-> <<>>, saving |-> FALSE]

Init == db \in StoredPanels /\ page = Empty /\ calls = {} /\ spent = NothingSpent

(* A tree: the children of each panel and of Root, and what a panel is.    *)
Nothing == [kids |-> (Root :> <<>>), panel |-> <<>>]
Keys(tree) == DOMAIN tree.panel
PlaceIn(kids, k) == CHOOSE i \in DOMAIN kids : kids[i] = k

(* flatten_loaded, flatten_current: the panels reached from the root, each *)
(* before those below it.                                                  *)
Below(tree) ==
    LET below[n \in 0 .. Cardinality(Keys(tree))] ==
            IF n = 0 THEN [k \in DOMAIN tree.kids |-> <<>>]
            ELSE LET before == below[n - 1]
                 IN  [k \in DOMAIN tree.kids |->
                         FlattenSeq([i \in DOMAIN tree.kids[k] |->
                             <<tree.kids[k][i]>> \o before[tree.kids[k][i]]])]
    IN  below[Cardinality(Keys(tree))][Root]
ParentIn(tree, k) == CHOOSE p \in DOMAIN tree.kids : Contains(tree.kids[p], k)
Node(tree, k) ==
    LET parent == ParentIn(tree, k)
    IN  [id |-> k, parent |-> parent, order |-> PlaceIn(tree.kids[parent], k), panel |-> tree.panel[k]]
Nodes(tree) == {Node(tree, k) : k \in ToSet(Below(tree))}

-----------------------------------------------------------------------------
(* Loading *)

(* The panels of a manhole: those on top there and all below them.  Panels *)
(* in a cycle are not among them.                                          *)
PanelsOf(rows, z) ==
    LET reached[n \in 0 .. Cardinality(Panel)] ==
            IF n = 0 THEN {k \in Panel : rows[k] # NoPanel /\ rows[k].parent = Root /\ rows[k].cabinet = z}
            ELSE LET before == reached[n - 1]
                 IN  before \union {k \in Panel : rows[k] # NoPanel /\ rows[k].parent \in before}
    IN  reached[Cardinality(Panel)]

(* PanelTreeEntry::fetch: the children in their order; the panels on top   *)
(* come from a hash map, in any order.                                     *)
Trees(rows, z) ==
    LET panels == PanelsOf(rows, z)
        ChildrenOf(p) == {k \in panels : rows[k].parent = p}
        Rank(p, k) == Cardinality({j \in ChildrenOf(p) : rows[j].order <= rows[k].order})
        Ordered(p) == [i \in 1 .. Cardinality(ChildrenOf(p)) |->
                          CHOOSE k \in ChildrenOf(p) : Rank(p, k) = i]
    IN  {[kids |-> [p \in panels \union {Root} |-> IF p = Root THEN top ELSE Ordered(p)],
          panel |-> [k \in panels |-> rows[k].panel]] : top \in SetToSeqs(ChildrenOf(Root))}

(* rendered, changed: the tree of the manhole before stays for a while. *)
Open(z) ==
    /\ Spend("opens") /\ page.route # z
    /\ page.route = Closed => calls = {}
    /\ page' = [page EXCEPT !.route = z, !.state = Pending,
                            !.tree = IF page.route = Closed THEN Nothing ELSE @]
    /\ Send(Request("fetch", [cabinet |-> z])) /\ UNCHANGED db

(* PanelsFetched, Error *)
PanelsFetched(c) ==
    /\ c.kind = "fetch" /\ c.answer # Unanswered
    /\ page' = IF c.answer = Failed THEN [page EXCEPT !.state = Failed]
               ELSE [page EXCEPT !.state = c.answer, !.tree = c.answer]
    /\ Arrived(c) /\ UNCHANGED <<db, spent>>

-----------------------------------------------------------------------------
(* Input *)

Form == page.state \notin {Pending, Failed} /\ ~ page.saving
Editing == Form /\ Spend("edits") /\ UNCHANGED <<db, calls>>
Kids == page.tree.kids
SetKids(kids) == page' = [page EXCEPT !.tree.kids = kids]

(* Msg::CreatePanel *)
CreatePanel ==
    /\ Editing /\ New \ Keys(page.tree) # {}
    /\ Cardinality(New \intersect Keys(page.tree)) < Cardinality({p \in Panel : db[p] = NoPanel})
    /\ LET k == CHOOSE n \in New \ Keys(page.tree) : TRUE
       IN  page' = [page EXCEPT
               !.tree = [kids |-> [Kids EXCEPT ![Root] = Append(@, k)] @@ (k :> <<>>),
                         panel |-> @.panel @@ (k :> [name |-> EmptyName, device |-> NoDevice])]]

(* Of a panel without children. *)
RemovePanel(k) ==
    /\ Editing /\ Kids[k] = <<>>
    /\ page' = [page EXCEPT
           !.tree = [kids |-> [p \in DOMAIN Kids \ {k} |-> SelectSeq(Kids[p], LAMBDA j : j # k)],
                     panel |-> [j \in Keys(page.tree) \ {k} |-> @.panel[j]]]]

(* A panel, its parent, and the sibling before it; <<>> if it is the first. *)
ParentOf(k) == ParentIn(page.tree, k)
Before(k) ==
    LET siblings == Kids[ParentOf(k)]
        i == PlaceIn(siblings, k)
    IN  IF i = 1 THEN <<>> ELSE <<siblings[i - 1]>>

ExchangeSiblings(k) ==
    /\ Editing /\ Before(k) # <<>>
    /\ LET parent == ParentOf(k)
           i == PlaceIn(Kids[parent], k)
       IN  SetKids([Kids EXCEPT ![parent][i] = Before(k)[1], ![parent][i - 1] = k])

(* A fault: the panel stays among those on top. *)
AddedTo(k, parent) ==
    [p \in DOMAIN Kids |->
        LET others == IF p = Root THEN Kids[p] ELSE SelectSeq(Kids[p], LAMBDA j : j # k)
        IN  IF p = parent THEN Append(others, k) ELSE others]

(* new_parent: k becomes the last child of another panel. *)
MovedTo(k, parent) ==
    [p \in DOMAIN Kids |->
        LET others == SelectSeq(Kids[p], LAMBDA j : j # k)
        IN  IF p = parent THEN Append(others, k) ELSE others]
NewParent(k) == Editing /\ Before(k) # <<>> /\ SetKids(MovedTo(k, Before(k)[1]))
MoveUp(k) ==
    /\ Editing /\ ParentOf(k) # Root
    /\ SetKids(MovedTo(k, ParentOf(ParentOf(k))))

SetName(k, n) ==
    /\ Editing /\ n # page.tree.panel[k].name
    /\ page' = [page EXCEPT !.tree.panel[k].name = n]
SetNetboxId(k, d) ==
    /\ Editing /\ d # page.tree.panel[k].device
    /\ page' = [page EXCEPT !.tree.panel[k].device = d]

-----------------------------------------------------------------------------
(* Storing *)

IsNew(node) == node.id \in New
Differs(node) == ~ IsNew(node) /\ node.id \in Keys(page.state) /\ node # Node(page.state, node.id)

NodesInOrder ==
    LET keys == Below(page.tree)
    IN  [i \in DOMAIN keys |-> Node(page.tree, keys[i])]

(* A fault: what is stored already comes first. *)
StoredFirst ==
    LET nodes == NodesInOrder
    IN  SelectSeq(nodes, Differs) \o SelectSeq(nodes, IsNew)

(* New panels first, then those that differ. *)
Changes ==
    LET nodes == NodesInOrder
    IN  SelectSeq(nodes, IsNew) \o SelectSeq(nodes, Differs)

Save ==
    /\ Form /\ Nodes(page.tree) # Nodes(page.state)
    /\ page' = [page EXCEPT !.saving = TRUE]
    /\ Send(Request("store", [cabinet |-> page.route, changes |-> Changes,
                              deletes |-> Keys(page.state) \ ToSet(Below(page.tree))]))
    /\ UNCHANGED <<db, spent>>

(* Saved, SaveFailed *)
Saved(c) ==
    /\ c.kind = "store" /\ c.answer # Unanswered
    /\ IF c.answer # TRUE
       THEN page' = [page EXCEPT !.saving = FALSE] /\ Arrived(c)
       ELSE /\ page' = [page EXCEPT !.saving = FALSE, !.state = Pending]
            /\ Exchange({c}, {Request("fetch", [cabinet |-> page.route])})
    /\ UNCHANGED <<db, spent>>

-----------------------------------------------------------------------------
(* The backend *)

ServeFetch(c) ==
    /\ Waiting(c, "fetch")
    /\ \E tree \in Trees(db, c.what.cabinet) : Reply(c, tree)
    /\ UNCHANGED <<db, page, spent>>

(* Writing one panel: ids is what the new panels before it got.  A new     *)
(* panel gets no Netbox device, one that is stored keeps its manhole.      *)
(* panel_unique_parent_order is checked at once; it does not bind the      *)
(* panels on top.                                                          *)
Written(at, node, z) ==
    LET rows == at.rows
        k == IF IsNew(node) THEN CHOOSE p \in Panel : rows[p] = NoPanel ELSE node.id
        parent == IF node.parent \in New THEN at.ids[node.parent] ELSE node.parent
        taken == parent # Root /\ \E p \in Panel \ {k} :
                     rows[p] # NoPanel /\ rows[p].parent = parent /\ rows[p].order = node.order
        missing == parent # Root /\ rows[parent] = NoPanel
        row == [cabinet |-> IF IsNew(node) THEN z ELSE rows[k].cabinet,
                parent |-> parent, order |-> node.order,
                panel |-> IF IsNew(node) THEN [node.panel EXCEPT !.device = NoDevice] ELSE node.panel]
    IN  IF ~ IsNew(node) /\ rows[k] = NoPanel THEN at
        ELSE IF taken \/ missing THEN Failed
        ELSE [rows |-> [rows EXCEPT ![k] = row],
              ids |-> IF IsNew(node) THEN at.ids @@ (node.id :> k) ELSE at.ids]

(* The panels once all changes are made, one after the other; a parent is  *)
(* stored or was created before.                                           *)
AfterChanges(rows, changes, z) ==
    LET after[n \in 0 .. Len(changes)] ==
            IF n = 0 THEN [rows |-> rows, ids |-> <<>>]
            ELSE LET before == after[n - 1]
                 IN  IF before = Failed THEN Failed
                     ELSE IF changes[n].parent \in New \ DOMAIN before.ids THEN Failed
                     ELSE Written(before, changes[n], z)
    IN  IF after[Len(changes)] = Failed THEN Failed ELSE after[Len(changes)].rows

(* update_cabinet_panels: deletions first, of panels nothing refers to.    *)
ServeStore(c) ==
    /\ Waiting(c, "store")
    /\ LET w == c.what
           deleted == [k \in Panel |-> IF k \in w.deletes THEN NoPanel ELSE db[k]]
           referred == \/ w.deletes \intersect WithPorts # {}
                       \/ \E k \in Panel : deleted[k] # NoPanel /\ deleted[k].parent \in w.deletes
           after == IF referred THEN Failed ELSE AfterChanges(deleted, w.changes, w.cabinet)
       IN  IF after = Failed THEN Reply(c, Failed) /\ UNCHANGED db
                             ELSE Reply(c, TRUE) /\ db' = after
    /\ UNCHANGED <<page, spent>>

Next ==
    \/ \E z \in Cabinet : Open(z)
    \/ CreatePanel \/ Save
    \/ Form /\ \E k \in Keys(page.tree) :
          \/ RemovePanel(k) \/ ExchangeSiblings(k) \/ NewParent(k) \/ MoveUp(k)
          \/ \E n \in Name : SetName(k, n)
          \/ \E d \in Device \union {NoDevice} : SetNetboxId(k, d)
    \/ \E c \in calls : PanelsFetched(c) \/ Saved(c) \/ ServeFetch(c) \/ ServeStore(c)
    \/ Refuse

Spec == Init /\ [][Next]_vars
=============================================================================
