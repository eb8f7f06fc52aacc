--------------------------- MODULE CabinetEditor ---------------------------
(***************************************************************************)
(* The page of a manhole's properties (CabinetProperties): its position    *)
(* and its other values (one value here: name, type, owner, accuracy).     *)
(* The position is typed into two fields (one text here) in one of two     *)
(* systems of coordinates, clicked or dragged on the map, or comes from    *)
(* the device.  The backend converts it, after a short delay if typed.     *)
(*                                                                         *)
(* Left out: roles, the map around it, the accuracy of the device, the     *)
(* warning about unsaved changes, the question before deleting.            *)
(***************************************************************************)
EXTENDS Page

CONSTANTS
    Cabinet, NewCabinet, NoCabinet,
    Point, Foreign,                 \* those outside of Switzerland
    NoPosition, Checking, Proposal, Invalid,
    Rest, Incomplete,               \* a missing name or owner
    StoredCabinets                  \* what may be stored at first

System == {"LV95", "WGS84"}

(* A text: a point in a system, its two values perhaps exchanged (as LV03, *)
(* a proposal is made for it).                                             *)
Text(system, p) == [system |-> system, point |-> p, turned |-> FALSE]
Texts == [system : System, point : Point, turned : BOOLEAN]
ShownText(system, p) == IF p = NoPosition THEN NoPosition ELSE Text(system, p)

(* The stored manholes. *)
Row == [rest : Rest, position : Point \union {NoPosition}, used : BOOLEAN]

(* The values that stand for something else are told apart. *)
Known ==
    /\ StoredCabinets \subseteq [Cabinet -> Row \union {NoCabinet}]
    /\ {NoPosition, Checking, Proposal, Invalid} \intersect Point = {}
    /\ NoPosition \notin Texts \union {Checking, Proposal, Invalid}
    /\ Checking \notin {Proposal, Invalid} /\ Proposal # Invalid /\ Closed \notin Cabinet \union {NewCabinet}

(* coordinates::check, and no text at all *)
Plausibility(text, system) ==
    IF text = NoPosition THEN NoPosition
    ELSE IF text.system # system \/ (text.point \in Foreign /\ ~ text.turned) THEN Invalid
    ELSE IF text.turned THEN Proposal ELSE Checking

(* The component, before it has anything.  overtaken is for the properties: *)
(* stored values were shown while typed ones were being converted.          *)
Empty ==
    [route |-> Closed, loaded |-> Pending, rest |-> Incomplete, system |-> "LV95", text |-> NoPosition,
     position |-> NoPosition, delay |-> FALSE, locating |-> FALSE, saving |-> FALSE, overtaken |-> FALSE]

Init ==
    /\ db \in StoredCabinets
    /\ page = Empty /\ calls = {} /\ spent = NothingSpent

-----------------------------------------------------------------------------
(* The position *)

(* Conversions are numbered; only whether one is the last counts.          *)
Outdated(cs) == {IF c.kind = "convert" THEN [c EXCEPT !.what.last = FALSE] ELSE c : c \in cs}
ConvertsLast(cs) == {c \in cs : c.kind = "convert" /\ c.what.last}

(* A fault: the delay goes on if one runs already, and was cancelled.      *)
DelayUnlessChecking(p) == Plausibility(p.text, p.system) = Checking /\ p.position # Checking
(* Only plausible values are converted, after the delay.                   *)
Delayed(p) == Plausibility(p.text, p.system) = Checking

(* check_fields: of page p; done has arrived. *)
CheckFields(p, done) ==
    /\ page' = [p EXCEPT !.position = Plausibility(p.text, p.system), !.delay = Delayed(p),
                         !.overtaken = FALSE]
    /\ calls' = Outdated(calls \ done)

(* convert: fill if the position did not come from the fields. *)
Convert(p, fill, done) ==
    Exchange(calls, Outdated(calls \ done)
                        \union {Request("convert", [point |-> p, fill |-> fill, last |-> TRUE])})

(* Msg::Convert: the delay is over. *)
DelayOver ==
    /\ page.delay
    /\ page' = [page EXCEPT !.delay = FALSE]
    /\ IF page.text = NoPosition THEN UNCHANGED calls ELSE Convert(page.text.point, FALSE, {})
    /\ UNCHANGED <<db, spent>>

(* A fault: every answer counts. *)
AnyAnswer(c) == TRUE
IsLast(c) == c.what.last

(* Msg::Converted *)
Converted(c) ==
    /\ Answered(c, "convert") /\ Arrived(c)
    /\ page' = IF ~ IsLast(c) THEN page
               ELSE IF c.answer = Failed THEN [page EXCEPT !.position = Invalid]
               ELSE [page EXCEPT !.position = c.answer,
                                 !.overtaken = @ /\ ~ c.what.fill,
                                 !.text = IF c.what.fill THEN Text(page.system, c.answer) ELSE @]
    /\ UNCHANGED <<db, spent>>

(* take_stored: row's values are shown in page p. *)
WithStored(p, row) ==
    [p EXCEPT !.rest = row.rest, !.position = row.position,
              !.text = ShownText(p.system, row.position),
              !.overtaken = ConvertsLast(calls) # {}]

-----------------------------------------------------------------------------
(* Loading *)

(* create, changed *)
Open(route) ==
    /\ Spend("opens") /\ route # page.route
    /\ page.route = Closed => calls = {}
    /\ page' = [page EXCEPT !.route = route, !.loaded = Pending]
    /\ Send(Request("fetch", [id |-> route])) /\ UNCHANGED db

(* Msg::Loaded, Msg::LoadError *)
Loaded(c) ==
    /\ Answered(c, "fetch") /\ Arrived(c)
    /\ page' = IF c.answer = Failed THEN [page EXCEPT !.loaded = Failed]
               ELSE IF c.answer = NoCabinet
               THEN [WithStored(page, [rest |-> Incomplete, position |-> NoPosition]) EXCEPT !.loaded = NoCabinet]
               ELSE [WithStored(page, c.answer) EXCEPT !.loaded = c.answer]
    /\ UNCHANGED <<db, spent>>

-----------------------------------------------------------------------------
(* Input; the map takes clicks whatever is loaded. *)

HasRow == page.loaded \notin {Pending, Failed, NoCabinet}
Form == HasRow \/ (page.loaded = NoCabinet /\ page.route = NewCabinet)
Editing == Form /\ Spend("edits") /\ UNCHANGED db

(* SetName, SetType, SetOwner, SetLagebestimmung *)
SetRest(r) ==
    /\ Editing /\ r # page.rest
    /\ page' = [page EXCEPT !.rest = r] /\ UNCHANGED calls
(* SetFirst, SetSecond, ClearPosition *)
SetText(text) ==
    /\ Editing /\ text # page.text
    /\ CheckFields([page EXCEPT !.text = text], {})
ApplyProposal ==
    /\ Form /\ page.position = Proposal
    /\ CheckFields([page EXCEPT !.text.turned = FALSE], {})
    /\ UNCHANGED <<db, spent>>
SetSystem(system) ==
    /\ Editing /\ system # page.system
    /\ IF page.position \in Point
       THEN /\ page' = [page EXCEPT !.system = system, !.text = Text(system, page.position),
                                    !.overtaken = ConvertsLast(calls) # {}]
            /\ UNCHANGED calls
       ELSE CheckFields([page EXCEPT !.system = system], {})

(* Picked: the delay of typed values goes on. *)
PickedAt(p, done) ==
    /\ page' = [page EXCEPT !.position = Checking, !.locating = FALSE]
    /\ Convert(p, TRUE, done)
Click(p) ==
    /\ page.route # Closed /\ Spend("edits")
    /\ PickedAt(p, {}) /\ UNCHANGED db

Locate ==
    /\ Form /\ ~ page.locating
    /\ page' = [page EXCEPT !.locating = TRUE]
    /\ Send(Request("locate", [device |-> TRUE])) /\ UNCHANGED <<db, spent>>
(* Picked, LocateFailed *)
Located(c) ==
    /\ Answered(c, "locate")
    /\ IF c.answer = Failed
       THEN page' = [page EXCEPT !.locating = FALSE] /\ Arrived(c)
       ELSE PickedAt(c.answer, {c})
    /\ UNCHANGED <<db, spent>>

-----------------------------------------------------------------------------
(* Storing *)

HasChanges ==
    HasRow => page.position # page.loaded.position \/ page.rest # page.loaded.rest

Save ==
    /\ Form /\ ~ page.saving /\ page.rest # Incomplete /\ HasChanges
    /\ page.position \in Point \union {NoPosition}
    /\ Send(Request("store", [id |-> page.route, rest |-> page.rest, position |-> page.position]))
    /\ page' = [page EXCEPT !.saving = TRUE] /\ UNCHANGED <<db, spent>>

(* Msg::Saved, Msg::Created: a new manhole is opened on a page of its own. *)
Saved(c) ==
    /\ Answered(c, "store") /\ Arrived(c)
    /\ page' = IF c.answer = Failed THEN [page EXCEPT !.saving = FALSE]
               ELSE IF c.what.id = NewCabinet THEN Empty
               ELSE [WithStored(page, c.answer) EXCEPT
                        !.saving = FALSE, !.loaded = IF page.loaded \in {Pending, Failed} THEN @ ELSE c.answer]
    /\ UNCHANGED <<db, spent>>

(* Delete, once that is confirmed; DeleteFailed *)
Delete ==
    /\ Form /\ ~ page.saving /\ page.route # NewCabinet
    /\ Send(Request("delete", [id |-> page.route])) /\ UNCHANGED <<db, page, spent>>
Deleted(c) ==
    /\ Answered(c, "delete") /\ Arrived(c)
    /\ page' = IF c.answer = Failed THEN page ELSE Empty
    /\ UNCHANGED <<db, spent>>

-----------------------------------------------------------------------------
(* The backend, and the device *)

ServeFetch(c) ==
    /\ Waiting(c, "fetch")
    /\ Reply(c, IF c.what.id = NewCabinet THEN NoCabinet ELSE db[c.what.id])
    /\ UNCHANGED <<db, page, spent>>

(* convert_point: only within Switzerland. *)
ServeConvert(c) ==
    /\ Waiting(c, "convert")
    /\ Reply(c, IF c.what.point \in Foreign THEN Failed ELSE c.what.point)
    /\ UNCHANGED <<db, page, spent>>

(* create_schacht, update_schacht *)
ServeStore(c) ==
    /\ Waiting(c, "store")
    /\ LET row == [rest |-> c.what.rest, position |-> c.what.position, used |-> FALSE]
       IN  IF c.what.id = NewCabinet
           THEN \E k \in Cabinet :
                   /\ db[k] = NoCabinet
                   /\ db' = [db EXCEPT ![k] = row] /\ Reply(c, row)
           ELSE IF db[c.what.id] = NoCabinet THEN Reply(c, Failed) /\ UNCHANGED db
           ELSE LET updated == [row EXCEPT !.used = db[c.what.id].used]
                IN  db' = [db EXCEPT ![c.what.id] = updated] /\ Reply(c, updated)
    /\ UNCHANGED <<page, spent>>

(* delete_schacht: only one without panels and ducts. *)
ServeDelete(c) ==
    /\ Waiting(c, "delete")
    /\ IF db[c.what.id] # NoCabinet /\ db[c.what.id].used
       THEN Reply(c, Failed) /\ UNCHANGED db
       ELSE Reply(c, TRUE) /\ db' = [db EXCEPT ![c.what.id] = NoCabinet]
    /\ UNCHANGED <<page, spent>>

(* getCurrentPosition, which may be denied or late *)
ServeLocate(c) ==
    /\ Waiting(c, "locate")
    /\ \E p \in Point \union {Failed} : Reply(c, p)
    /\ UNCHANGED <<db, page, spent>>

Typing ==
    \/ \E r \in Rest : SetRest(r)
    \/ \E text \in Texts \union {NoPosition} : SetText(text)
    \/ \E system \in System : SetSystem(system)
    \/ \E p \in Point : Click(p)
    \/ ApplyProposal \/ Locate
Arrival(c) ==
    /\ page.route # Closed
    /\ Converted(c) \/ Loaded(c) \/ Located(c) \/ Saved(c) \/ Deleted(c)
Serve(c) == ServeFetch(c) \/ ServeConvert(c) \/ ServeStore(c) \/ ServeDelete(c) \/ ServeLocate(c)

Next ==
    \/ \E route \in Cabinet \union {NewCabinet} : Open(route)
    \/ Typing \/ DelayOver \/ Save \/ Delete
    \/ \E c \in calls : Arrival(c) \/ Serve(c)
    \/ Refuse \/ Forget

Spec == Init /\ [][Next]_vars
=============================================================================
