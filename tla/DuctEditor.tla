----------------------------- MODULE DuctEditor -----------------------------
(***************************************************************************)
(* The page of a duct's properties (EditDuctProperties): its manholes, its *)
(* other values (one value here: description, owner, delivery, width) and  *)
(* its course, from a file the user chooses.  The backend checks the       *)
(* course for a preview; it is stored on its own, or with a new duct.      *)
(*                                                                         *)
(* Left out: roles, the reading of files, the map, invalid widths.         *)
(***************************************************************************)
EXTENDS Page, DuctLine

CONSTANTS
    Duct, Schacht, NewDuct, NoDuct,
    Position,            \* of each manhole
    Rest, DefaultRest,
    Lines,               \* those in files
    NoSchacht, NoFile, NoCheck, Checking, NoDialog,
    StoredDucts          \* what may be stored at first

(* The stored ducts. *)
Row == [a : Schacht, z : Schacht, rest : Rest, line : Seq(Int), cables : BOOLEAN]

Known ==
    /\ StoredDucts \subseteq [Duct -> Row \union {NoDuct}]
    /\ Position \in [Schacht -> Int] /\ Lines \subseteq Seq(Int) /\ DefaultRest \in Rest

FitAt(line, a, z) == Fit(line, Position[a], Position[z])

(* The component, before it has anything. *)
Empty ==
    [route |-> Closed, loaded |-> Pending, a |-> NoSchacht, z |-> NoSchacht, rest |-> DefaultRest,
     file |-> NoFile, check |-> NoCheck, confirmed |-> FALSE, saving |-> FALSE, touched |-> FALSE,
     dialog |-> NoDialog]

Init ==
    /\ db \in StoredDucts
    /\ page = Empty /\ calls = {} /\ spent = NothingSpent

(* What is loaded: a duct (its id and row), or none for a new one.         *)
HasLoaded == page.loaded \notin {Pending, Failed}
StoredRow(p) == IF p.loaded \in {Pending, Failed, NoDuct} THEN NoDuct ELSE p.loaded.row
HasCables == StoredRow(page) # NoDuct /\ StoredRow(page).cables

(* The manholes the course is checked against: those stored, or those      *)
(* chosen for a new duct.                                                  *)
Ends(p) ==
    IF p.route = NewDuct THEN [a |-> p.a, z |-> p.z]
    ELSE IF StoredRow(p) = NoDuct THEN [a |-> NoSchacht, z |-> NoSchacht]
    ELSE [a |-> StoredRow(p).a, z |-> StoredRow(p).z]

-----------------------------------------------------------------------------
(* The check of the course *)

(* Checks are numbered; only whether one is the last counts.               *)
Outdated(cs) == {IF c.kind = "check" THEN [c EXCEPT !.what.last = FALSE] ELSE c : c \in cs}

(* A fault: every answer counts. *)
AnyAnswer(c) == TRUE
IsLast(c) == c.what.last

(* check: the page becomes p, whose line is checked anew; done has arrived. *)
Recheck(p, done) ==
    LET ends == Ends(p)
        none == p.file = NoFile \/ NoSchacht \in {ends.a, ends.z}
        sent == IF none \/ ends.a = ends.z THEN {}
                ELSE {Request("check", [a |-> ends.a, z |-> ends.z, line |-> p.file, last |-> TRUE])}
    IN  /\ page' = [p EXCEPT !.confirmed = FALSE,
                             !.check = IF none THEN NoCheck
                                       ELSE IF sent = {} THEN Failed ELSE Checking]
        /\ Cardinality(Outdated(calls \ done) \union sent) <= MaxCalls
        /\ calls' = Outdated(calls \ done) \union sent

(* Msg::Checked *)
CheckedArrives(c) ==
    /\ Answered(c, "check") /\ Arrived(c)
    /\ page' = IF IsLast(c) THEN [page EXCEPT !.check = c.answer] ELSE page
    /\ UNCHANGED <<db, spent>>

HasChecked == page.check \notin {NoCheck, Checking, Failed}
LineReady == HasChecked /\ (page.check.far => page.confirmed)

-----------------------------------------------------------------------------
(* Loading *)

(* create, changed *)
Open(route) ==
    /\ Spend("opens") /\ route # page.route
    /\ page.route = Closed => calls = {}
    /\ page' = [page EXCEPT !.route = route, !.loaded = Pending, !.file = NoFile, !.check = NoCheck]
    /\ Send(Request("fetch", [id |-> route])) /\ UNCHANGED db

(* Msg::Loaded, Msg::LoadError *)
Loaded(c) ==
    /\ Answered(c, "fetch")
    /\ IF c.answer = Failed THEN page' = [page EXCEPT !.loaded = Failed] /\ Arrived(c)
       ELSE Recheck(IF c.answer = NoDuct
                    THEN [page EXCEPT !.loaded = NoDuct, !.a = NoSchacht, !.z = NoSchacht, !.rest = DefaultRest]
                    ELSE [page EXCEPT !.loaded = c.answer, !.a = c.answer.row.a, !.z = c.answer.row.z,
                                      !.rest = c.answer.row.rest], {c})
    /\ UNCHANGED <<db, spent>>

-----------------------------------------------------------------------------
(* Input, while the form is shown and no dialog covers it *)

Form == HasLoaded /\ page.dialog = NoDialog /\ (StoredRow(page) = NoDuct => page.route = NewDuct)
Editing == Form /\ Spend("edits") /\ UNCHANGED db

(* SetSchachtA, SetSchachtZ: of a duct without cables. *)
SetSchacht(s) ==
    /\ Editing /\ ~ HasCables
    /\ \/ s # page.a /\ Recheck([page EXCEPT !.a = s, !.touched = TRUE], {})
       \/ s # page.z /\ Recheck([page EXCEPT !.z = s, !.touched = TRUE], {})

(* SetDescription, SetOwner, SetLeitungskataster, SetLagebestimmung, SetWidth *)
SetRest(r) ==
    /\ Editing /\ r # page.rest /\ UNCHANGED calls
    /\ page' = [page EXCEPT !.rest = r, !.touched = TRUE]

(* FileRead; another line of the file or system of coordinates (SelectLine, *)
(* SetSystem) is another line too.                                         *)
ChooseLine(line) ==
    /\ Editing /\ line # page.file
    /\ Recheck([page EXCEPT !.file = line, !.touched = TRUE], {})
DiscardFile ==
    /\ Editing /\ page.file # NoFile
    /\ Recheck([page EXCEPT !.file = NoFile], {})

SetConfirmed ==
    /\ Form /\ page.file # NoFile /\ HasChecked /\ page.check.far
    /\ page' = [page EXCEPT !.confirmed = ~ @]
    /\ UNCHANGED <<db, calls, spent>>

-----------------------------------------------------------------------------
(* Storing *)

HasChanges ==
    LET row == StoredRow(page)
    IN  row # NoDuct => page.a # row.a \/ page.z # row.z \/ page.rest # row.rest

(* The id of the data shown. *)
Shown == IF page.loaded = NoDuct THEN NoDuct ELSE page.loaded.id

Save ==
    /\ Form /\ ~ page.saving /\ HasChanges /\ NoSchacht \notin {page.a, page.z}
    /\ LET input == [id |-> page.route, a |-> page.a, z |-> page.z, rest |-> page.rest]
           course == [line |-> page.file, preview |-> page.check, confirmed |-> page.confirmed,
                      ends |-> Ends(page)]
           none == [course EXCEPT !.line = NoFile]
       IN  Send(IF page.route # NewDuct THEN Request("update", input)
                ELSE Request("create", [input |-> input, course |-> IF LineReady THEN course ELSE none]))
    /\ page' = [page EXCEPT !.saving = TRUE] /\ UNCHANGED <<db, spent>>

(* SaveLine, StraightLine *)
SaveLine ==
    /\ Form /\ ~ page.saving /\ page.route # NewDuct
    /\ \/ page.file # NoFile /\ LineReady
       \/ page.file = NoFile /\ StoredRow(page).line # <<>>
    /\ Send(Request("line", [id |-> page.route, line |-> page.file, preview |-> page.check,
                             confirmed |-> page.confirmed, ends |-> Ends(page)]))
    /\ page' = [page EXCEPT !.saving = TRUE] /\ UNCHANGED <<db, spent>>

(* Msg::Saved: on to the duct's overview. *)
Saved(c) ==
    /\ Answered(c, "update") \/ Answered(c, "create")
    /\ page' = IF c.answer = Failed THEN [page EXCEPT !.saving = FALSE] ELSE Empty
    /\ Arrived(c) /\ UNCHANGED <<db, spent>>

(* Msg::LineSaved: what is stored is loaded again. *)
LineSaved(c) ==
    /\ Answered(c, "line")
    /\ IF c.answer = Failed
       THEN page' = [page EXCEPT !.saving = FALSE] /\ Arrived(c)
       ELSE /\ page' = [page EXCEPT !.saving = FALSE, !.file = NoFile, !.check = NoCheck]
            /\ Exchange({c}, {Request("fetch", [id |-> page.route])})
    /\ UNCHANGED <<db, spent>>

(* The question names the duct shown, deleted is the one of the route. *)
AskDelete ==
    /\ Form /\ ~ page.saving /\ page.route # NewDuct /\ ~ HasCables
    /\ page' = [page EXCEPT !.dialog = Shown] /\ UNCHANGED <<db, calls, spent>>
Delete ==
    /\ page.dialog # NoDialog
    /\ IF page.route = NewDuct THEN UNCHANGED calls
       ELSE Send(Request("delete", [id |-> page.route]))
    /\ page' = [page EXCEPT !.dialog = NoDialog] /\ UNCHANGED <<db, spent>>
Cancel ==
    /\ page.dialog # NoDialog
    /\ page' = [page EXCEPT !.dialog = NoDialog] /\ UNCHANGED <<db, calls, spent>>
Deleted(c) ==
    /\ Answered(c, "delete") /\ Arrived(c)
    /\ page' = IF c.answer = Failed THEN page ELSE Empty
    /\ UNCHANGED <<db, spent>>

-----------------------------------------------------------------------------
(* The backend *)

(* checked_line: a line far from a manhole only if that was confirmed.     *)
Refused(line, a, z, confirmed) ==
    line # NoFile /\ LET fitted == FitAt(line, a, z)
                     IN  fitted = NoFit \/ (fitted.far /\ ~ confirmed)
Course(line, a, z) == IF line = NoFile THEN <<>> ELSE Stored(FitAt(line, a, z))

ServeFetch(c) ==
    /\ Waiting(c, "fetch")
    /\ Reply(c, IF c.what.id = NewDuct \/ db[c.what.id] = NoDuct THEN NoDuct
                ELSE [id |-> c.what.id, row |-> db[c.what.id]])
    /\ UNCHANGED <<db, page, spent>>

(* check_duct_line *)
ServeCheck(c) ==
    /\ Waiting(c, "check")
    /\ LET fitted == FitAt(c.what.line, c.what.a, c.what.z)
       IN  Reply(c, IF fitted = NoFit THEN Failed ELSE fitted)
    /\ UNCHANGED <<db, page, spent>>

(* create_duct *)
ServeCreate(c) ==
    /\ Waiting(c, "create")
    /\ LET i == c.what.input
           course == c.what.course
       IN  IF i.a = i.z \/ Refused(course.line, i.a, i.z, course.confirmed)
           THEN Reply(c, Failed) /\ UNCHANGED db
           ELSE \E d \in Duct :
                   /\ db[d] = NoDuct
                   /\ db' = [db EXCEPT ![d] = [a |-> i.a, z |-> i.z, rest |-> i.rest, cables |-> FALSE,
                                               line |-> Course(course.line, i.a, i.z)]]
                   /\ Reply(c, TRUE)
    /\ UNCHANGED <<page, spent>>

(* update_duct: a course is fitted to new manholes. *)
ServeUpdate(c) ==
    /\ Waiting(c, "update")
    /\ LET i == c.what
           row == db[i.id]
           moved == <<row.a, row.z>> # <<i.a, i.z>>
           refit == moved /\ row.line # <<>>
       IN  IF \/ row = NoDuct \/ i.a = i.z
              \/ moved /\ row.cables
              \/ refit /\ FitAt(row.line, i.a, i.z) = NoFit
           THEN Reply(c, Failed) /\ UNCHANGED db
           ELSE /\ db' = [db EXCEPT ![i.id] =
                       [row EXCEPT !.a = i.a, !.z = i.z, !.rest = i.rest,
                                   !.line = IF refit THEN Stored(FitAt(@, i.a, i.z)) ELSE @]]
                /\ Reply(c, TRUE)
    /\ UNCHANGED <<page, spent>>

(* set_duct_line *)
ServeLine(c) ==
    /\ Waiting(c, "line")
    /\ LET w == c.what
           row == db[w.id]
       IN  IF row = NoDuct \/ Refused(w.line, row.a, row.z, w.confirmed)
           THEN Reply(c, Failed) /\ UNCHANGED db
           ELSE /\ db' = [db EXCEPT ![w.id].line = Course(w.line, row.a, row.z)]
                /\ Reply(c, TRUE)
    /\ UNCHANGED <<page, spent>>

(* delete_duct: only one without cables. *)
ServeDelete(c) ==
    /\ Waiting(c, "delete")
    /\ IF db[c.what.id] # NoDuct /\ db[c.what.id].cables
       THEN Reply(c, Failed) /\ UNCHANGED db
       ELSE Reply(c, TRUE) /\ db' = [db EXCEPT ![c.what.id] = NoDuct]
    /\ UNCHANGED <<page, spent>>

(* Somebody puts a cable into a duct. *)
LayCable(d) ==
    /\ Spend("edits") /\ db[d] # NoDuct /\ ~ db[d].cables
    /\ db' = [db EXCEPT ![d].cables = TRUE]
    /\ UNCHANGED <<page, calls>>

Typing ==
    \/ \E s \in Schacht : SetSchacht(s)
    \/ \E r \in Rest : SetRest(r)
    \/ \E line \in Lines : ChooseLine(line)
    \/ DiscardFile \/ SetConfirmed
Arrival(c) ==
    /\ page.route # Closed
    /\ \/ CheckedArrives(c) \/ Loaded(c)
       \/ Saved(c) \/ LineSaved(c) \/ Deleted(c)
Serve(c) ==
    \/ ServeFetch(c) \/ ServeCheck(c) \/ ServeCreate(c) \/ ServeUpdate(c)
    \/ ServeLine(c) \/ ServeDelete(c)

Next ==
    \/ \E route \in Duct \union {NewDuct} : Open(route)
    \/ Typing \/ Save \/ SaveLine \/ AskDelete \/ Delete \/ Cancel
    \/ \E c \in calls : Arrival(c) \/ Serve(c)
    \/ Refuse \/ Forget
    \/ \E d \in Duct : LayCable(d)

Spec == Init /\ [][Next]_vars
=============================================================================
