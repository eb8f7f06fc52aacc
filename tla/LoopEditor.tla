----------------------------- MODULE LoopEditor -----------------------------
(***************************************************************************)
(* The page that loops the fibers of one cable to those of another         *)
(* (LoopPortEditor): each loop is a port with the fiber of cable a on its  *)
(* front and the one with the same number of cable b on its back.          *)
(***************************************************************************)
EXTENDS PanelFibers

(* fibers is the status of each number, once both cables are chosen. *)
Empty ==
    [route |-> Closed, state |-> Pending, a |-> NoCable, b |-> NoCable, fibers |-> <<>>,
     saving |-> FALSE]

Init == db \in Usages /\ page = Empty /\ calls = {} /\ spent = NothingSpent

Numbers(c) == (1 .. Kabels[c].buendel_anz) \X (1 .. Kabels[c].faser_anz)

(* A panel has each port once; every fiber of a cable can be named.        *)
LoopsKnown ==
    /\ Known
    /\ PanelPorts \in Seq(Port) /\ {"Front", "Back"} \subseteq Side
    /\ \A i, j \in DOMAIN PanelPorts : PanelPorts[i] = PanelPorts[j] => i = j
    /\ \A c \in Cable : /\ Kabels[c].buendel_anz \in Nat /\ Kabels[c].faser_anz \in Nat
                       /\ Numbers(c) \subseteq BundleNo \X FiberNo
FiberOf(c, n) == [cable |-> c, bundle |-> n[1], fiber |-> n[2]]
SameSize(c, d) == Numbers(c) = Numbers(d)

(* calculate_current_states: looped if both fibers are used in this panel, *)
(* free if neither is used in the manhole.                                 *)
States(situation, a, b) ==
    IF NoCable \in {a, b} THEN <<>>
    ELSE LET OnPanel(f) == \E s \in PanelSlots : situation.usage[s] = f
             Status(n) ==
                 LET both == {FiberOf(c, n) : c \in {k \in {a, b} : n \in Numbers(k)}}
                 IN  [status |-> IF Cardinality(both) = 2 /\ \A f \in both : OnPanel(f) THEN "Looped"
                                 ELSE IF Cardinality(both) = 2 /\ both \intersect situation.used = {}
                                 THEN "Free" ELSE "UsedElsewhere",
                      modified |-> both \intersect situation.planned # {}, reset |-> FALSE]
         IN  [n \in Numbers(a) \union Numbers(b) |-> Status(n)]

Open(p) ==
    /\ Spend("opens") /\ page.route # p
    /\ page.route = Closed => calls = {}
    /\ page' = [page EXCEPT !.route = p]
    /\ IF page.route = Closed THEN Send(Fetch(p)) ELSE UNCHANGED calls
    /\ UNCHANGED db

(* Msg::DataFetched: the cables are those on the first loop ports in use;  *)
(* without a second one the states stay as they were.                      *)
Attached(situation, side) ==
    LET on == SelectSeq(PanelPorts, LAMBDA port :
                  PortType[port] = "Loop" /\ situation.usage[<<port, side>>] # Removed)
        first == situation.usage[<<on[1], side>>].cable
    IN  IF on = <<>> \/ first \notin CablesHere THEN NoCable ELSE first
DataFetched(c) ==
    /\ Arrival(c, "fetch") /\ c.answer # Failed
    /\ LET a == Attached(c.answer, "Front")
           b == Attached(c.answer, "Back")
       IN  page' = [page EXCEPT !.state = c.answer, !.a = a, !.b = b,
                                !.fibers = IF b = NoCable THEN @ ELSE States(c.answer, a, b)]

-----------------------------------------------------------------------------
(* Input: the cables are chosen until there are two, then fibers. *)

Choosing == Editing /\ NoCable \in {page.a, page.b}

(* Msg::SelectCableA, with the only other cable of its size. *)
SelectCableA(c) ==
    /\ Choosing /\ c # page.a
    /\ LET others == {d \in CablesHere \ {c} : SameSize(c, d)}
       IN  IF Cardinality(others) = 1
           THEN \E d \in others :
                   page' = [page EXCEPT !.a = c, !.b = d, !.fibers = States(page.state, c, d)]
           ELSE page' = [page EXCEPT !.a = c]
SelectCableB(c) ==
    /\ Choosing /\ page.a # NoCable /\ c # page.a /\ SameSize(c, page.a)
    /\ page' = [page EXCEPT !.b = c, !.fibers = States(page.state, page.a, c)]

Pair == Editing /\ NoCable \notin {page.a, page.b}

(* What can be done to a fiber: nothing if it is used elsewhere. *)
Usable(n) == n \in DOMAIN page.fibers /\ page.fibers[n].status # "UsedElsewhere"

(* Msg::ToggleFiber *)
ToggleFiber(n) ==
    /\ Pair /\ Usable(n)
    /\ page' = [page EXCEPT !.fibers[n] =
                   [status |-> IF @.status = "Free" THEN "Looped" ELSE "Free",
                    modified |-> TRUE, reset |-> FALSE]]

(* Msg::ResetFiber: back to the current state. *)
ResetFiber(n) ==
    /\ Pair /\ Usable(n)
    /\ page.fibers[n].modified /\ ~ page.fibers[n].reset
    /\ LET was == \E s \in PanelSlots :
                      /\ page.state.current[s] # Removed
                      /\ <<page.state.current[s].bundle, page.state.current[s].fiber>> = n
       IN  page' = [page EXCEPT !.fibers[n].status = IF was THEN "Looped" ELSE "Free",
                                !.fibers[n].reset = TRUE]

-----------------------------------------------------------------------------
(* Storing *)

(* The fibers of a cable are numbered by bundle, then by fiber. *)
UpTo(numbers, n) == {m \in numbers : m[1] < n[1] \/ (m[1] = n[1] /\ m[2] <= n[2])}
InOrder(numbers) ==
    [i \in 1 .. Cardinality(numbers) |-> CHOOSE n \in numbers : Cardinality(UpTo(numbers, n)) = i]

(* A fault: loops the user did not touch are not sent. *)
LoopedAnew ==
    InOrder({n \in DOMAIN page.fibers : page.fibers[n].status = "Looped" /\ page.fibers[n].modified})

Looped == InOrder({n \in DOMAIN page.fibers : page.fibers[n].status = "Looped"})
PortNo(port) == CHOOSE i \in DOMAIN PanelPorts : PanelPorts[i] = port

(* The fiber side s is to hold: the loops are put on the ports in order.   *)
(* Loops without a port are left out.                                      *)
Wanted(s) ==
    IF PortNo(s[1]) > Len(Looped) THEN Removed
    ELSE FiberOf(IF s[2] = "Front" THEN page.a ELSE page.b, Looped[PortNo(s[1])])

(* A fault: of a port without a loop only the front is freed. *)
FreesFronts ==
    LET differ == {s \in PanelSlots :
                      IF Wanted(s) = Removed THEN s \in page.state.rows /\ s[2] = "Front"
                      ELSE page.state.usage[s] # Wanted(s)}
    IN  [s \in differ |-> Wanted(s)]

Changes ==
    LET differ == {s \in PanelSlots : IF Wanted(s) = Removed THEN s \in page.state.rows
                                      ELSE page.state.usage[s] # Wanted(s)}
    IN  [s \in differ |-> Wanted(s)]

Save ==
    /\ Form /\ NoCable \notin {page.a, page.b}
    /\ page.fibers # States(page.state, page.a, page.b)
    /\ IF Changes = <<>> THEN SaveUnchanged
       ELSE /\ page' = [page EXCEPT !.saving = TRUE]
            /\ Send(Request("store", [plan |-> page.route, changes |-> Changes,
                                      seen |-> page.state.plan, a |-> page.a, b |-> page.b,
                                      looped |-> {n \in DOMAIN page.fibers : page.fibers[n].status = "Looped"}]))
    /\ UNCHANGED <<db, spent>>

Next ==
    \/ \E p \in Plan : Open(p)
    \/ \E c \in CablesHere : SelectCableA(c) \/ SelectCableB(c)
    \/ \E n \in BundleNo \X FiberNo : ToggleFiber(n) \/ ResetFiber(n)
    \/ Save
    \/ \E c \in calls : DataFetched(c) \/ FetchFailed(c) \/ Saved(c) \/ ServeFetch(c) \/ ServeStore(c)
    \/ Refuse

Spec == Init /\ [][Next]_vars
=============================================================================
