----------------------------- MODULE FiberEditor -----------------------------
(***************************************************************************)
(* The page that attaches fibers to splices and connectors (AttachFiber).  *)
(* page.held is what each side of a port is to hold, page.reset the ports  *)
(* whose changes in the plan are to be undone.                             *)
(***************************************************************************)
EXTENDS PanelFibers

(* edited and dropped are history: the sides changed by the user, and      *)
(* those of them whose change the user discarded.                          *)
Empty ==
    [route |-> Closed, state |-> Pending, held |-> <<>>, reset |-> {}, saving |-> FALSE,
     edited |-> {}, dropped |-> {}]

Init == db \in Usages /\ page = Empty /\ calls = {} /\ spent = NothingSpent

HasChanges == page.reset # {} \/ (Loaded /\ page.held # page.state.usage)

Open(p) ==
    /\ Spend("opens") /\ page.route = Closed /\ calls = {}
    /\ page' = [page EXCEPT !.route = p]
    /\ Send(Fetch(p)) /\ UNCHANGED db

(* The breadcrumb's plan: the same component, which fetches nothing.  The  *)
(* user is asked if there are changes, and discards them.                  *)
SwitchPlan(p) ==
    /\ Spend("opens") /\ page.route \notin {Closed, p}
    /\ page' = [page EXCEPT !.route = p, !.edited = {},
                            !.dropped = IF HasChanges /\ ~ page.saving THEN @ \union page.edited ELSE @]
    /\ UNCHANGED <<db, calls>>

(* Msg::DataFetched *)
DataFetched(c) ==
    /\ Arrival(c, "fetch") /\ c.answer # Failed
    /\ page' = [page EXCEPT !.state = c.answer, !.held = c.answer.usage, !.reset = {},
                            !.edited = {}, !.dropped = {}]

-----------------------------------------------------------------------------
(* Input *)

Editable(s) == s \in PanelSlots /\ PortType[s[1]] # "Loop"
SetHeld(s, f) ==
    page' = [page EXCEPT !.held[s] = f, !.reset = @ \ {s[1]},
                         !.edited = @ \union {s}, !.dropped = @ \ {s}]

(* A fault: only what the page holds counts as used. *)
UnheldFibers ==
    {f \in Fiber : f.cable \in CablesHere /\ InRange(Kabels, f)
                   /\ \A s \in PanelSlots : page.held[s] # f}

(* get_free_fibers: used neither in the plan nor on the page. *)
FreeFibers ==
    {f \in Fiber : f.cable \in CablesHere /\ InRange(Kabels, f)
                   /\ f \notin page.state.used /\ \A s \in PanelSlots : page.held[s] # f}

(* StartEdit, SelectCableBundle, SelectFiber *)
AttachFiber(s) ==
    /\ Editing /\ Editable(s) /\ page.held[s] = Removed
    /\ \E f \in FreeFibers : SetHeld(s, f)

(* Msg::ClearSlot *)
ClearSlot(s) == Editing /\ Editable(s) /\ page.held[s] # Removed /\ SetHeld(s, Removed)

Sides(port) == {port} \X Side

(* Msg::ResetPort: of a port the plan changes; back to what it holds. *)
ResetPort(port) ==
    /\ Editing /\ port \notin page.reset /\ PortType[port] # "Loop"
    /\ \E s \in Sides(port) : s \in page.state.modified
    /\ page' = [page EXCEPT !.reset = @ \union {port},
                            !.held = [s \in PanelSlots |->
                                         IF s \in Sides(port) THEN page.state.usage[s] ELSE @[s]],
                            !.edited = @ \union Sides(port), !.dropped = @ \ Sides(port)]

-----------------------------------------------------------------------------
(* Storing *)

(* validate: a splice is whole or empty, a connector with a front has a    *)
(* back.                                                                   *)
Valid ==
    \A s \in PanelSlots :
        LET front == page.held[<<s[1], "Front">>]
            back == page.held[<<s[1], "Back">>]
        IN  /\ PortType[s[1]] = "Splice" => (front = Removed) = (back = Removed)
            /\ PortType[s[1]] = "Connector" => (front # Removed => back # Removed)

(* A fault: sides that are cleared are forgotten. *)
AttachedOnly ==
    [s \in {t \in PanelSlots : page.held[t] \notin {page.state.usage[t], Removed}} |-> page.held[s]]

(* Of a port that is reset the front is, else each side that differs. *)
Changes ==
    LET reset == {s \in PanelSlots : s[1] \in page.reset /\ s[2] = "Front"}
        differ == {s \in PanelSlots : /\ Editable(s) /\ s[1] \notin page.reset
                                      /\ page.held[s] # page.state.usage[s]}
    IN  [s \in reset \union differ |-> IF s \in reset THEN NoRow ELSE page.held[s]]

Save ==
    /\ Form /\ HasChanges /\ Valid
    /\ IF Changes = <<>> THEN SaveUnchanged
       ELSE /\ page' = [page EXCEPT !.saving = TRUE]
            /\ Send(Request("store", [plan |-> page.route, changes |-> Changes,
                                      seen |-> page.state.plan, held |-> page.held,
                                      reset |-> page.reset, dropped |-> page.dropped]))
    /\ UNCHANGED <<db, spent>>

Next ==
    \/ \E p \in Plan : Open(p) \/ SwitchPlan(p)
    \/ \E s \in PanelSlots : AttachFiber(s) \/ ClearSlot(s)
    \/ \E port \in ToSet(PanelPorts) : ResetPort(port)
    \/ Save
    \/ \E c \in calls : DataFetched(c) \/ FetchFailed(c) \/ Saved(c) \/ ServeFetch(c) \/ ServeStore(c)
    \/ Refuse

Spec == Init /\ [][Next]_vars
=============================================================================
