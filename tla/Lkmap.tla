-------------------------------- MODULE Lkmap --------------------------------
(***************************************************************************)
(* The delivery of the network to the Leitungskataster: which manholes and *)
(* ducts go into the transfer files, the log of the deliveries, the page   *)
(* that tells where the delivery stands, and the changes of the network,   *)
(* its owners and types, that meanwhile others make; triggers date them.   *)
(*                                                                         *)
(* A checksum stands for the objects in both files; the perimeter follows  *)
(* from them.  Each transaction has a time of its own (now()).             *)
(*                                                                         *)
(* Left out: roles, the configuration, the format of the files and the     *)
(* limits of numbers and texts, the map, owners and types that come or go. *)
(***************************************************************************)
EXTENDS Page, FiniteSetsExt

CONSTANTS
    Owner, Typ, Schacht, Duct,        \* numbers of rows
    NoTyp, NoDuct, NoPosition,
    Name, NoName, Objektart, Position, Course, Lagebestimmung, Unbekannt,
    DayLength, QuarterLength, MaxTime,
    StoredNetwork                     \* what may be stored at first

Never == 0

(* What the page shows of an export: where the delivery stands, and which  *)
(* of the deliveries are marked.                                           *)
Empty == [route |-> Closed, state |-> Pending, marked |-> <<>>]

(* What a row of a manhole, and of a duct, may be. *)
Schaechte ==
    [position : Position \union {NoPosition}, typ : Typ \union {NoTyp}, owner : Owner, changed : Int]
Trassen ==
    [a : Schacht, z : Schacht, course : Course \union {NoPosition}, lagebestimmung : Lagebestimmung,
     owner : Owner, leitungskataster : BOOLEAN, changed : Int]

(* What is stored at first is no newer than the time the model begins at.  *)
Known ==
    /\ DayLength \in Nat \ {0}
    /\ \A network \in StoredNetwork :
          /\ DOMAIN network.owner = Owner /\ DOMAIN network.typ = Typ
          /\ DOMAIN network.schacht = Schacht /\ DOMAIN network.duct = Duct
          /\ \A s \in Schacht : network.schacht[s] \in Schaechte /\ network.schacht[s].changed <= 1
          /\ \A t \in Duct : network.duct[t] # NoDuct =>
                network.duct[t] \in Trassen /\ network.duct[t].changed <= 1

(* db is the network, the deliveries logged so far, and the time.          *)
Init ==
    /\ \E network \in StoredNetwork :
          db = [owner |-> network.owner, typ |-> network.typ, schacht |-> network.schacht,
                duct |-> network.duct, deliveries |-> <<>>, now |-> 1]
    /\ page = Empty /\ calls = {} /\ spent = NothingSpent

Ducts(d) == {t \in Duct : d.duct[t] # NoDuct}
EndsOf(duct) == {duct.a, duct.z}
Day(time) == time \div DayLength
QuarterStart(time) == time - (time % QuarterLength)

-----------------------------------------------------------------------------
(* The export *)

(* coalesce(e.lk_name, e.name) *)
Eigentuemer(d, o) == IF d.owner[o].lkName = NoName THEN d.owner[o].name ELSE d.owner[o].lkName

(* SCHAECHTE: those where a delivered duct ends. *)
Ending(d) == {s \in Schacht : \E t \in Ducts(d) : d.duct[t].leitungskataster /\ s \in EndsOf(d.duct[t])}
Located(d, s) == d.schacht[s].position # NoPosition
DeliveredSchaechte(d) == {s \in Ending(d) : Located(d, s)}
(* DUCTS, those with a line *)
DeliveredDucts(d) ==
    {t \in Ducts(d) : d.duct[t].leitungskataster /\ \A s \in EndsOf(d.duct[t]) : Located(d, s)}

(* LkPunkt (its position stands for the accuracy too), LkLinie *)
LkPunkt(d, s) ==
    LET row == d.schacht[s]
    IN  [id |-> s, changed |-> Day(row.changed), owner |-> Eigentuemer(d, row.owner), at |-> row.position,
         objektart |-> IF row.typ = NoTyp THEN Unbekannt ELSE d.typ[row.typ]]
LkLinie(d, t) ==
    LET row == d.duct[t]
    IN  [id |-> t, changed |-> Day(row.changed), owner |-> Eigentuemer(d, row.owner),
         lagebestimmung |-> IF row.course = NoPosition THEN Unbekannt ELSE row.lagebestimmung,
         line |-> <<d.schacht[row.a].position, row.course, d.schacht[row.z].position>>]

(* The files of the export, which stand for their checksum too. *)
Files(d) ==
    [schaechte |-> {LkPunkt(d, s) : s \in DeliveredSchaechte(d)},
     ducts |-> {LkLinie(d, t) : t \in DeliveredDucts(d)}]
NoFiles == [schaechte |-> {}, ducts |-> {}]

-----------------------------------------------------------------------------
(* The log of the deliveries: a row's number is its place, and rows are    *)
(* logged in the order of their downloads.                                 *)

Marked(deliveries) == {i \in DOMAIN deliveries : deliveries[i].delivered # Never}
(* The one delivered last, by the download. *)
LastOf(deliveries) == deliveries[Max(Marked(deliveries))]

(* first_change_since_delivery *)
FirstChange(d) ==
    IF Marked(d.deliveries) = {} THEN Never
    ELSE LET changes == {d.duct[t].changed : t \in DeliveredDucts(d)}
                        \union {d.schacht[s].changed : s \in DeliveredSchaechte(d)}
             later == {c \in changes : c > LastOf(d.deliveries).created}
         IN  IF later = {} THEN Never ELSE Min(later)

Export(d) == [files |-> Files(d), deliveries |-> d.deliveries, firstChange |-> FirstChange(d)]

(* download_lkmap: logs the delivery, or reuses a row not yet marked. *)
Unmarked(deliveries, files) ==
    {i \in DOMAIN deliveries : deliveries[i].files = files /\ deliveries[i].delivered = Never}
Downloaded(d) ==
    IF Unmarked(d.deliveries, Files(d)) # {} THEN d
    ELSE [d EXCEPT !.deliveries = Append(@, [created |-> d.now + 1, files |-> Files(d), delivered |-> Never]),
                   !.now = @ + 1]

(* set_lkmap_delivered *)
Mark(d, i, delivered) ==
    LET marked == IF delivered THEN d.now + 1 ELSE Never
    IN  IF delivered /\ d.deliveries[i].delivered # Never THEN d
        ELSE [d EXCEPT !.deliveries[i].delivered = marked, !.now = @ + 1]

-----------------------------------------------------------------------------
(* Changes of the network, each a transaction *)

(* The rows of a table, some of them changed at this time. *)
Touched(rows, some, time) ==
    [i \in DOMAIN rows |-> IF i \in some THEN [rows[i] EXCEPT !.changed = time] ELSE rows[i]]

(* Trigger geaendert_am_setzen: only a row that differs is changed. *)
Dated(old, new, time) == IF old = new THEN old ELSE [new EXCEPT !.changed = time]

(* A fault: the ducts do not count as changed. *)
DuctsStay(d, s, time) == d.duct
(* Trigger schacht_verschoben: the ducts of manhole s changed. *)
Verschoben(d, s, time) == Touched(d.duct, {t \in Ducts(d) : s \in EndsOf(d.duct[t])}, time)

Network(d) ==
    /\ db.now < MaxTime /\ Spend("edits")
    /\ db' = [d EXCEPT !.now = @ + 1] /\ UNCHANGED <<page, calls>>

(* update_schacht *)
UpdateSchacht(s, row) ==
    LET time == db.now + 1
        old == db.schacht[s]
    IN  Network([db EXCEPT
            !.schacht[s] = Dated(old, [row EXCEPT !.changed = old.changed], time),
            !.duct = IF row.position # old.position THEN Verschoben(db, s, time) ELSE @])

(* create_duct, update_duct, delete_duct *)
CreateDuct(row) ==
    LET free == {t \in Duct : db.duct[t] = NoDuct}
    IN  free # {} /\ Network([db EXCEPT !.duct[Min(free)] = [row EXCEPT !.changed = db.now + 1]])
UpdateDuct(t, row) ==
    /\ t \in Ducts(db)
    /\ Network([db EXCEPT !.duct[t] = Dated(@, [row EXCEPT !.changed = db.duct[t].changed], db.now + 1)])
DeleteDuct(t) ==
    t \in Ducts(db) /\ Network([db EXCEPT !.duct[t] = NoDuct])

(* update_owner, with trigger eigentuemer_geaendert *)
UpdateOwner(o, row) ==
    LET changed(rows) == IF row # db.owner[o] THEN rows ELSE {}
    IN  Network([db EXCEPT
            !.owner[o] = row,
            !.schacht = Touched(@, changed({s \in Schacht : db.schacht[s].owner = o}), db.now + 1),
            !.duct = Touched(@, changed({t \in Ducts(db) : db.duct[t].owner = o}), db.now + 1)])

(* update_schacht_typ, with trigger schacht_typ_geaendert *)
UpdateTyp(k, objektart) ==
    LET changed == {s \in Schacht : db.schacht[s].typ = k /\ objektart # db.typ[k]}
    IN  Network([db EXCEPT !.typ[k] = objektart, !.schacht = Touched(@, changed, db.now + 1)])

(* The next day begins. *)
Tomorrow ==
    /\ db.now < MaxTime
    /\ db' = [db EXCEPT !.now = (Day(@) + 1) * DayLength] /\ UNCHANGED <<page, calls, spent>>

-----------------------------------------------------------------------------
(* The page *)

(* LkmapExport::state *)
State(e, now) ==
    IF e.files = NoFiles THEN [kind |-> "NothingToDeliver"]
    ELSE IF Marked(e.deliveries) = {} THEN [kind |-> "NeverDelivered"]
    ELSE IF LastOf(e.deliveries).files # e.files THEN [kind |-> "Changed", since |-> e.firstChange]
    ELSE IF \E i \in Marked(e.deliveries) : e.deliveries[i].delivered >= QuarterStart(now)
    THEN [kind |-> "UpToDate"] ELSE [kind |-> "QuarterDue"]

(* create: the page loads. *)
Open ==
    /\ Spend("opens") /\ page.route = Closed /\ calls = {}
    /\ page' = [Empty EXCEPT !.route = "lkmap"]
    /\ Send(Request("fetch", [export |-> TRUE])) /\ UNCHANGED db
Leave ==
    /\ page.route # Closed
    /\ page' = Empty /\ UNCHANGED <<db, calls, spent>>

(* Msg::Loaded *)
Loaded(c) ==
    /\ Answered(c, "fetch") /\ Arrived(c)
    /\ page' = IF c.answer = Failed THEN [page EXCEPT !.state = Failed, !.marked = <<>>]
               ELSE [page EXCEPT !.state = State(c.answer, db.now),
                                 !.marked = [i \in DOMAIN c.answer.deliveries |->
                                                c.answer.deliveries[i].delivered # Never]]
    /\ UNCHANGED <<db, spent>>

HasFiles == page.state \notin {Pending, Failed} /\ page.state.kind # "NothingToDeliver"

(* Msg::Action *)
Download ==
    /\ HasFiles
    /\ Send(Request("download", [export |-> TRUE])) /\ UNCHANGED <<db, page, spent>>
SetDelivered(i) ==
    /\ Send(Request("mark", [id |-> i, delivered |-> ~ page.marked[i]]))
    /\ UNCHANGED <<db, page, spent>>

(* Msg::Changed: loads again; a failure is only told. *)
Changed(c) ==
    /\ Answered(c, "download") \/ Answered(c, "mark")
    /\ IF c.answer = Failed THEN Arrived(c)
       ELSE Exchange({c}, {Request("fetch", [export |-> TRUE])})
    /\ UNCHANGED <<db, page, spent>>

(* lkmap_export, download_lkmap, set_lkmap_delivered *)
ServeFetch(c) ==
    /\ Waiting(c, "fetch")
    /\ Reply(c, Export(db)) /\ UNCHANGED <<db, page, spent>>
ServeDownload(c) ==
    /\ Waiting(c, "download") /\ db.now < MaxTime
    /\ IF Files(db) = NoFiles THEN Reply(c, Failed) /\ UNCHANGED db
       ELSE Reply(c, TRUE) /\ db' = Downloaded(db)
    /\ UNCHANGED <<page, spent>>
ServeMark(c) ==
    /\ Waiting(c, "mark") /\ db.now < MaxTime
    /\ Reply(c, TRUE) /\ db' = Mark(db, c.what.id, c.what.delivered) /\ UNCHANGED <<page, spent>>

-----------------------------------------------------------------------------
SchachtRows ==
    [position : Position \union {NoPosition}, typ : Typ \union {NoTyp}, owner : Owner, changed : {0}]
DuctRows ==
    {row \in [a : Schacht, z : Schacht, course : Course \union {NoPosition}, lagebestimmung : Lagebestimmung,
              owner : Owner, leitungskataster : BOOLEAN, changed : {0}] : row.a < row.z}

ChangeNetwork ==
    \/ \E s \in Schacht : \E row \in SchachtRows : UpdateSchacht(s, row)
    \/ \E row \in DuctRows : CreateDuct(row) \/ \E t \in Duct : UpdateDuct(t, row)
    \/ \E t \in Duct : DeleteDuct(t)
    \/ \E o \in Owner : \E row \in [name : Name, lkName : Name \union {NoName}] : UpdateOwner(o, row)
    \/ \E k \in Typ : \E objektart \in Objektart : UpdateTyp(k, objektart)

Next ==
    \/ ChangeNetwork \/ Tomorrow
    \/ Open \/ Leave \/ Download
    \/ \E i \in DOMAIN page.marked : SetDelivered(i)
    \/ \E c \in calls :
          \/ page.route # Closed /\ (Loaded(c) \/ Changed(c))
          \/ ServeFetch(c) \/ ServeDownload(c) \/ ServeMark(c)
    \/ Refuse \/ Forget

Spec == Init /\ [][Next]_vars
=============================================================================
