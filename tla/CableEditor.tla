---------------------------- MODULE CableEditor ----------------------------
(***************************************************************************)
(* The page of a cable (EditCable): it loads the cable, takes what the     *)
(* user types and clicks, stores it and shows what was stored.  The same   *)
(* component stays when the user opens another cable or a new one.         *)
(*                                                                         *)
(* Left out: the checks of port usages (PlanUsage), which refuse deleting  *)
(* a cable attached to ports, roles, the parsing of the numbers, the map's *)
(* drawing.                                                                *)
(***************************************************************************)
EXTENDS Page, DuctPath

CONSTANTS
    Cable, New,          \* ids, and the route of a new cable
    Name, EmptyName,
    Count, NewBundleCount, NewFiberCount,  \* of bundles and fibers; of a new cable
    NoCable, NoDialog,
    Cables,              \* what may be stored when the page opens
    MaxLength            \* of a path

(* The stored cables, and one that is new. *)
Ducts == UNION {[1 .. n -> Duct] : n \in 1 .. MaxLength}
Row == [name : Name, bundle_count : Count, fiber_count : Count, ducts : Ducts]
Known ==
    /\ DuctEnds \in [Duct -> Schacht \X Schacht]
    /\ Cables \subseteq [Cable -> Row \union {NoCable}]
    /\ NewBundleCount \in Count /\ NewFiberCount \in Count

Blank ==
    [id |-> New, name |-> EmptyName, bundle_count |-> NewBundleCount, fiber_count |-> NewFiberCount,
     path |-> NoPath]

(* The component, before it has anything.  typed is what the user changed  *)
(* since the data came.                                                    *)
Empty ==
    [route |-> Closed, state |-> Pending, name |-> EmptyName,
     bundle_count |-> NewBundleCount, fiber_count |-> NewFiberCount, path |-> NoPath,
     saving |-> FALSE, dialog |-> NoDialog, typed |-> {}]

TypeOK ==
    /\ PageTypeOK
    /\ db \in [Cable -> Row \union {NoCable}]
    /\ DOMAIN page = DOMAIN Empty
    /\ page.route \in Cable \union {New, Closed}
    /\ page.state \in {Pending, Failed} \/ page.state.id \in Cable \union {New}
    /\ page.name \in Name \union {EmptyName}
    /\ page.bundle_count \in Count /\ page.fiber_count \in Count
    /\ page.path = NoPath \/ (page.path.near \in Schacht /\ Len(page.path.segments) \in 1 .. MaxLength)
    /\ page.saving \in BOOLEAN /\ page.typed \subseteq {"name", "bundle_count", "fiber_count", "path"}

-----------------------------------------------------------------------------
(* Data *)

(* Msg::Data *)
Show(data) ==
    page' = [page EXCEPT !.name = data.name, !.bundle_count = data.bundle_count,
                         !.fiber_count = data.fiber_count, !.path = data.path,
                         !.state = data, !.saving = FALSE, !.typed = {}]

Init ==
    /\ db \in Cables
    /\ \A c \in Cable : db[c] # NoCable => Alignable(db[c].ducts)
    /\ page = Empty /\ calls = {} /\ spent = NothingSpent

(* The page opens (rendered), or stays and shows another cable (changed):  *)
(* fetch_data.                                                             *)
OpenCable(c) ==
    /\ Spend("opens") /\ c # page.route
    /\ page.route = Closed => calls = {}
    /\ page' = [page EXCEPT !.route = c]
    /\ Send(Request("fetch", [id |-> c])) /\ UNCHANGED db

(* A new cable starts with one bundle of 12 fibers and no path. *)
OpenNew ==
    /\ Spend("opens") /\ page.route # New
    /\ page.route = Closed => calls = {}
    /\ page' = [page EXCEPT !.route = New, !.state = Blank, !.name = Blank.name,
                            !.bundle_count = Blank.bundle_count, !.fiber_count = Blank.fiber_count,
                            !.path = Blank.path, !.saving = FALSE, !.typed = {}]
    /\ UNCHANGED <<db, calls>>

(* Msg::Data, Msg::Saved *)
DataArrives(c) ==
    /\ Answered(c, "fetch") \/ Answered(c, "update")
    /\ c.answer \notin {Failed, NotFound} /\ Show(c.answer)
    /\ Arrived(c) /\ UNCHANGED <<db, spent>>

(* Msg::Error *)
ErrorArrives(c) ==
    /\ \/ Answered(c, "fetch") /\ c.answer \in {Failed, NotFound}
       \/ Answered(c, "update") /\ c.answer = NotFound
    /\ page' = [page EXCEPT !.state = Failed]
    /\ Arrived(c) /\ UNCHANGED <<db, spent>>

(* Msg::SaveFailed *)
SaveFailed(c) ==
    /\ Answered(c, "update") \/ Answered(c, "create")
    /\ c.answer = Failed
    /\ page' = [page EXCEPT !.saving = FALSE]
    /\ Arrived(c) /\ UNCHANGED <<db, spent>>

(* Msg::Created: on to the page of the cable, which the same component     *)
(* loads.                                                                  *)
Created(c) ==
    /\ Answered(c, "create") /\ c.answer # Failed
    /\ page' = [page EXCEPT !.route = c.answer.id]
    /\ IF page.route = c.answer.id THEN Arrived(c)
                                   ELSE Exchange({c}, {Request("fetch", [id |-> c.answer.id])})
    /\ UNCHANGED <<db, spent>>

-----------------------------------------------------------------------------
(* Input, while the page is loaded and no dialog covers it *)

Loaded == page.state \notin {Pending, Failed}
Editing == Loaded /\ page.dialog = NoDialog /\ Spend("edits") /\ UNCHANGED db

SetName ==
    /\ Editing /\ UNCHANGED calls
    /\ \E n \in (Name \union {EmptyName}) \ {page.name} :
          page' = [page EXCEPT !.name = n, !.typed = @ \union {"name"}]

SetBundleCount ==
    /\ Editing /\ UNCHANGED calls
    /\ \E n \in Count \ {page.bundle_count} :
          page' = [page EXCEPT !.bundle_count = n, !.typed = @ \union {"bundle_count"}]
SetFiberCount ==
    /\ Editing /\ UNCHANGED calls
    /\ \E n \in Count \ {page.fiber_count} :
          page' = [page EXCEPT !.fiber_count = n, !.typed = @ \union {"fiber_count"}]

SetPath(path) ==
    page' = [page EXCEPT !.path = path, !.typed = @ \union {"path"}, !.dialog = NoDialog]

(* Msg::AppendSegment, from the map or the dialog. *)
Appended(end, d, other) ==
    LET path == page.path
    IN  IF end = "Front"
        THEN [near |-> other, segments |-> <<[duct |-> d, far |-> path.near]>> \o path.segments]
        ELSE [path EXCEPT !.segments = Append(@, [duct |-> d, far |-> other])]

(* A fault: at the tail every segment can go. *)
ShortenedFreely(end) ==
    LET path == page.path
        n == Len(path.segments)
    IN  IF end = "Front"
        THEN IF n = 1 THEN NoPath
             ELSE [near |-> path.segments[1].far, segments |-> SubSeq(path.segments, 2, n)]
        ELSE [path EXCEPT !.segments = SubSeq(@, 1, n - 1)]

(* Msg::RemoveSegment: at the tail the last segment stays. *)
Shortened(end) ==
    LET path == page.path
        n == Len(path.segments)
    IN  IF end = "Front"
        THEN IF n = 1 THEN NoPath
             ELSE [near |-> path.segments[1].far, segments |-> SubSeq(path.segments, 2, n)]
        ELSE IF n = 1 THEN path ELSE [path EXCEPT !.segments = SubSeq(@, 1, n - 1)]

(* Msg::InitFirstSegment, from the map (from a to z) or the dialog. *)
StartPath(d) ==
    /\ Editing /\ page.path = NoPath /\ UNCHANGED calls
    /\ SetPath([near |-> A(d), segments |-> <<[duct |-> d, far |-> Z(d)]>>])

(* clickable: a duct not in the path is added at the end it touches, first *)
(* at the tail.                                                            *)
ClickDuct(d) ==
    /\ Editing /\ page.path # NoPath /\ UNCHANGED calls
    /\ Len(page.path.segments) < MaxLength
    /\ \A i \in DOMAIN page.path.segments : page.path.segments[i].duct # d
    /\ LET tail == FarEnd(page.path)
           front == page.path.near
       IN  \/ tail \in EndsOf(d) /\ SetPath(Appended("Tail", d, OtherEnd(d, tail)))
           \/ /\ tail \notin EndsOf(d) /\ front \in EndsOf(d)
              /\ SetPath(Appended("Front", d, OtherEnd(d, front)))

RemoveSegment(end) ==
    /\ Editing /\ page.path # NoPath /\ UNCHANGED calls
    /\ SetPath(Shortened(end))

(* Extending by the table: the ducts at the end are requested; the dialog  *)
(* that offers them replaces one that is open.                             *)
AskDucts(end) ==
    /\ Editing /\ page.path # NoPath /\ UNCHANGED page
    /\ Send(Request("ducts", [end |-> end,
                              at |-> IF end = "Front" THEN page.path.near ELSE FarEnd(page.path)]))
OfferDucts(c) ==
    /\ Answered(c, "ducts") /\ Arrived(c)
    /\ page' = IF c.answer = Failed THEN page ELSE [page EXCEPT !.dialog = c.answer]
    /\ UNCHANGED <<db, spent>>
Offers == page.dialog # NoDialog /\ "at" \in DOMAIN page.dialog
ChooseDuct(d) ==
    /\ Offers /\ page.dialog.at \in EndsOf(d)
    /\ IF page.path = NoPath THEN page' = [page EXCEPT !.dialog = NoDialog]
       ELSE /\ Len(page.path.segments) < MaxLength
            /\ SetPath(Appended(page.dialog.end, d, OtherEnd(d, page.dialog.at)))
    /\ UNCHANGED <<db, calls, spent>>

-----------------------------------------------------------------------------
(* Storing *)

PathChanged == DuctSequence(page.path) # DuctSequence(page.state.path)
StructureChanged ==
    page.bundle_count # page.state.bundle_count \/ page.fiber_count # page.state.fiber_count
HasChanges == page.name # page.state.name \/ StructureChanged \/ PathChanged
HasError == page.name = EmptyName \/ page.path = NoPath
Ready == Loaded /\ page.dialog = NoDialog /\ ~ page.saving

(* A fault: everything is sent, changed or not. *)
Everything == {"name", "fibers", "path"}

(* update_cable: what differs from the data loaded; the two counts are one *)
(* argument, the structure.                                                *)
Changed ==
    {f \in {"name", "fibers", "path"} :
        \/ f = "name" /\ page.name # page.state.name
        \/ f = "fibers" /\ StructureChanged
        \/ f = "path" /\ PathChanged}

(* typed and loaded are kept for what is said of the request. *)
Sent(kind) ==
    Send(Request(kind, [id |-> page.state.id, fields |-> Changed, typed |-> page.typed,
                        loaded |-> [bundle_count |-> page.state.bundle_count,
                                    fiber_count |-> page.state.fiber_count],
                        name |-> page.name, bundle_count |-> page.bundle_count,
                        fiber_count |-> page.fiber_count, ducts |-> DuctSequence(page.path)]))
CreateCable == page.route = New /\ Sent("create")
UpdateCable == page.route # New /\ HasChanges /\ Sent("update")
Save ==
    /\ Ready /\ ~ HasError /\ (CreateCable \/ UpdateCable)
    /\ page' = [page EXCEPT !.saving = TRUE]
    /\ UNCHANGED <<db, spent>>

(* The question names the cable; the cable deleted is the one whose data   *)
(* the page holds when the user confirms.                                  *)
AskDelete ==
    /\ Ready /\ page.route # New /\ ~ HasChanges
    /\ page' = [page EXCEPT !.dialog = [delete |-> page.state.id]]
    /\ UNCHANGED <<db, calls, spent>>
RemoveEntry ==
    /\ page.dialog # NoDialog /\ "delete" \in DOMAIN page.dialog
    /\ page' = [page EXCEPT !.dialog = NoDialog]
    /\ IF Loaded THEN Send(Request("delete", [id |-> page.state.id]))
                 ELSE UNCHANGED calls
    /\ UNCHANGED <<db, spent>>
Cancel ==
    /\ page.dialog # NoDialog
    /\ page' = [page EXCEPT !.dialog = NoDialog]
    /\ UNCHANGED <<db, calls, spent>>

(* Back to the list. *)
Deleted(c) ==
    /\ Answered(c, "delete") /\ Arrived(c)
    /\ page' = IF c.answer = Failed THEN page ELSE Empty
    /\ UNCHANGED <<db, spent>>

-----------------------------------------------------------------------------
(* The backend *)

(* The answer: the path is rebuilt from the ducts. *)
Details(c, row) ==
    [id |-> c, name |-> row.name, bundle_count |-> row.bundle_count, fiber_count |-> row.fiber_count,
     path |-> PathFromDucts(row.ducts)]

(* Any ducts are written (set_path), but none is refused at once and the   *)
(* answer selects the path: without one the request is rolled back.        *)
Accepted(ducts) == Len(ducts) > 0 /\ Alignable(ducts)

ServeFetch(c) ==
    /\ Waiting(c, "fetch")
    /\ LET row == db[c.what.id]
       IN  Reply(c, IF row = NoCable THEN NotFound
                    ELSE IF Alignable(row.ducts) THEN Details(c.what.id, row) ELSE Failed)
    /\ UNCHANGED <<db, page, spent>>

(* update_cable; a cable that is gone can't be given ducts. *)
ServeUpdate(c) ==
    /\ Waiting(c, "update")
    /\ LET w == c.what
           row == IF w.id = New THEN NoCable ELSE db[w.id]
           updated == [name |-> IF "name" \in w.fields THEN w.name ELSE row.name,
                       bundle_count |-> IF "fibers" \in w.fields THEN w.bundle_count ELSE row.bundle_count,
                       fiber_count |-> IF "fibers" \in w.fields THEN w.fiber_count ELSE row.fiber_count,
                       ducts |-> IF "path" \in w.fields THEN w.ducts ELSE row.ducts]
       IN  IF row = NoCable
           THEN Reply(c, IF "path" \in w.fields THEN Failed ELSE NotFound) /\ UNCHANGED db
           ELSE IF ~ Accepted(updated.ducts) THEN Reply(c, Failed) /\ UNCHANGED db
           ELSE Reply(c, Details(w.id, updated)) /\ db' = [db EXCEPT ![w.id] = updated]
    /\ UNCHANGED <<page, spent>>

(* create_cable *)
ServeCreate(c) ==
    /\ Waiting(c, "create")
    /\ LET row == [name |-> c.what.name, bundle_count |-> c.what.bundle_count,
                   fiber_count |-> c.what.fiber_count, ducts |-> c.what.ducts]
       IN  IF Accepted(row.ducts)
           THEN \E id \in Cable :
                   /\ db[id] = NoCable /\ db' = [db EXCEPT ![id] = row]
                   /\ Reply(c, Details(id, row))
           ELSE Reply(c, Failed) /\ UNCHANGED db
    /\ UNCHANGED <<page, spent>>

ServeDucts(c) ==
    /\ Waiting(c, "ducts") /\ Reply(c, c.what) /\ UNCHANGED <<db, page, spent>>

(* delete_cable *)
ServeDelete(c) ==
    /\ Waiting(c, "delete")
    /\ db' = [id \in Cable |-> IF id = c.what.id THEN NoCable ELSE db[id]]
    /\ Reply(c, TRUE) /\ UNCHANGED <<page, spent>>

Typing ==
    \/ SetName \/ SetBundleCount \/ SetFiberCount
    \/ \E d \in Duct : StartPath(d) \/ ClickDuct(d)
    \/ \E end \in {"Front", "Tail"} : RemoveSegment(end) \/ AskDucts(end)
Answering == (\E d \in Duct : ChooseDuct(d)) \/ AskDelete \/ RemoveEntry \/ Cancel
Arrival(c) ==
    /\ page.route # Closed
    /\ \/ DataArrives(c) \/ ErrorArrives(c) \/ SaveFailed(c) \/ Created(c)
       \/ OfferDucts(c) \/ Deleted(c)
Serve(c) == ServeFetch(c) \/ ServeUpdate(c) \/ ServeCreate(c) \/ ServeDucts(c) \/ ServeDelete(c)

Next ==
    \/ (\E c \in Cable : OpenCable(c)) \/ OpenNew
    \/ Typing \/ Answering \/ Save
    \/ \E c \in calls : Arrival(c) \/ Serve(c)
    \/ Refuse \/ Forget

Spec == Init /\ [][Next]_vars
=============================================================================
