-------------------------- MODULE ObjectPageProofs --------------------------
(***************************************************************************)
(* Theorems about the pages of a cable, a duct and a manhole, for any      *)
(* objects, lines of files and bounds.                                     *)
(***************************************************************************)
EXTENDS Pages, Integers, FiniteSets, Sequences, SequenceTheorems, FiniteSetTheorems,
        NaturalsInduction, WellFoundedInduction, TLAPS

-----------------------------------------------------------------------------
(* The page of a cable *)

(* Only rows whose ducts join are stored. *)
CableRowsJoin ==
    \A k \in World.cable.Cable : db[k] # NoCable => CablePage!Alignable(db[k].ducts)
(* What differs from the data loaded was typed.                            *)
TypedSince(p) ==
    p.state \notin {Pending, Failed} =>
        /\ p.name = p.state.name \/ "name" \in p.typed
        /\ p.bundle_count = p.state.bundle_count \/ "bundle_count" \in p.typed
        /\ p.fiber_count = p.state.fiber_count \/ "fiber_count" \in p.typed
        /\ p.path = p.state.path \/ "path" \in p.typed
(* An update sends nothing but what was typed, and of the two counts one   *)
(* that was not only beside the other, as loaded.                          *)
Counts == {"bundle_count", "fiber_count"}
SendsTyped(w) ==
    /\ w.fields \ {"fibers"} \subseteq w.typed
    /\ "fibers" \in w.fields => w.typed \intersect Counts # {}
    /\ \A n \in Counts \ w.typed : w[n] = w.loaded[n]
CableCallOK(c) ==
    /\ DOMAIN c = {"kind", "what", "answer"}
    /\ c.kind = "update" => SendsTyped(c.what)
CableInv ==
    /\ DOMAIN db = World.cable.Cable /\ CableRowsJoin
    /\ DOMAIN page = {"route", "state", "name", "bundle_count", "fiber_count", "path", "saving", "dialog", "typed"}
    /\ TypedSince(page)
    /\ \A c \in calls : CableCallOK(c)

LEMMA CableInit == ASSUME CablePage!Init PROVE CableInv
<1>1. DOMAIN db = World.cable.Cable /\ CableRowsJoin
    BY CableKnown DEF CablePage!Init, CablePage!Known, CableRowsJoin
<1> QED BY <1>1 DEF CablePage!Init, CablePage!Empty, CableInv, TypedSince

(* The page goes on: with the same data, and what is changed is typed.     *)
LEMMA CableGoesOn ==
    ASSUME CableInv, NEW p, page' = p, UNCHANGED db,
           DOMAIN p = {"route", "state", "name", "bundle_count", "fiber_count", "path", "saving", "dialog", "typed"},
           TypedSince(p), \A c \in calls' : c \in calls \/ CableCallOK(c)
    PROVE  CableInv'
BY DEF CableInv, CableRowsJoin, TypedSince

LEMMA CableSends ==
    ASSUME NEW k, NEW w, CablePage!Send(CablePage!Request(k, w)), k = "update" => SendsTyped(w)
    PROVE  \A c \in calls' : c \in calls \/ CableCallOK(c)
<1> DEFINE r == [kind |-> k, what |-> w, answer |-> Unanswered]
<1>1. calls' = calls \union {r}
    BY DEF CablePage!Send, CablePage!Exchange, CablePage!Request
<1>2. CableCallOK(r)
    BY DEF CableCallOK
<1> HIDE DEF r
<1> QED BY <1>1, <1>2

LEMMA CableArrives ==
    ASSUME NEW c, CablePage!Arrived(c)
    PROVE  \A d \in calls' : d \in calls
BY DEF CablePage!Arrived, CablePage!Exchange

(* A call is answered, and stays what it was.                              *)
LEMMA CableReplies ==
    ASSUME CableInv, NEW c \in calls, NEW answer, CablePage!Reply(c, answer), UNCHANGED page,
           DOMAIN db' = World.cable.Cable, CableRowsJoin'
    PROVE  CableInv'
<1> DEFINE r == [c EXCEPT !.answer = answer]
<1>1. calls' = (calls \ {c}) \union {r}
    BY DEF CablePage!Reply, CablePage!Exchange
<1>2. CableCallOK(c)
    BY DEF CableInv
<1>3. CableCallOK(r)
    BY <1>2 DEF CableCallOK
<1> HIDE DEF r
<1> QED BY <1>1, <1>3 DEF CableInv, TypedSince

LEMMA CableOpen ==
    ASSUME CableInv, NEW k, CablePage!OpenCable(k)
    PROVE  CableInv'
<1>1. /\ page' = [page EXCEPT !.route = k] /\ UNCHANGED db
      /\ CablePage!Send(CablePage!Request("fetch", [id |-> k]))
    BY DEF CablePage!OpenCable
<1>2. \A c \in calls' : c \in calls \/ CableCallOK(c)
    BY <1>1, CableSends
<1> DEFINE p == [page EXCEPT !.route = k]
<1>3. /\ DOMAIN p = DOMAIN page /\ p.state = page.state /\ p.name = page.name
        /\ p.bundle_count = page.bundle_count /\ p.fiber_count = page.fiber_count
      /\ p.path = page.path /\ p.typed = page.typed
    BY DEF CableInv
<1>4. page' = p
    BY <1>1
<1> HIDE DEF p
<1>5. TypedSince(p)
    BY <1>3 DEF CableInv, TypedSince
<1> QED BY <1>1, <1>2, <1>3, <1>4, <1>5, CableGoesOn DEF CableInv

LEMMA CableOpenNew ==
    ASSUME CableInv, CablePage!OpenNew
    PROVE  CableInv'
<1> DEFINE b == CablePage!Blank
<1> DEFINE p == [page EXCEPT !.route = NewCable, !.state = b, !.name = b.name,
                             !.bundle_count = b.bundle_count, !.fiber_count = b.fiber_count,
                             !.path = b.path, !.saving = FALSE, !.typed = {}]
<1>1. page' = p /\ UNCHANGED <<db, calls>>
    BY DEF CablePage!OpenNew
<1> HIDE DEF b
<1>2. /\ DOMAIN p = DOMAIN page /\ p.state = b /\ p.name = b.name /\ p.path = b.path
      /\ p.bundle_count = b.bundle_count /\ p.fiber_count = b.fiber_count
    BY DEF CableInv
<1> HIDE DEF p
<1>3. TypedSince(p)
    BY <1>2 DEF TypedSince
<1> QED BY <1>1, <1>2, <1>3, CableGoesOn DEF CableInv

LEMMA CableArrival ==
    ASSUME CableInv, NEW c \in calls, CablePage!Arrival(c)
    PROVE  CableInv'
<1>0. /\ DOMAIN page = {"route", "state", "name", "bundle_count", "fiber_count", "path", "saving", "dialog", "typed"}
      /\ TypedSince(page)
    BY DEF CableInv
<1>1. CASE CablePage!DataArrives(c)
  <2> DEFINE data == c.answer
  <2> DEFINE p == [page EXCEPT !.name = data.name, !.bundle_count = data.bundle_count,
                               !.fiber_count = data.fiber_count, !.path = data.path,
                               !.state = data, !.saving = FALSE, !.typed = {}]
  <2>1. page' = p /\ UNCHANGED db /\ \A d \in calls' : d \in calls
      BY <1>1, CableArrives DEF CablePage!DataArrives, CablePage!Show
  <2>2. /\ DOMAIN p = DOMAIN page /\ p.state = data /\ p.name = data.name /\ p.path = data.path
        /\ p.bundle_count = data.bundle_count /\ p.fiber_count = data.fiber_count
      BY <1>0
  <2> HIDE DEF p, data
  <2>3. TypedSince(p)
      BY <2>2 DEF TypedSince
  <2> QED BY <1>0, <2>1, <2>2, <2>3, CableGoesOn
<1>2. CASE CablePage!ErrorArrives(c)
  <2> DEFINE p == [page EXCEPT !.state = Failed]
  <2>1. page' = p /\ UNCHANGED db /\ \A d \in calls' : d \in calls
      BY <1>2, CableArrives DEF CablePage!ErrorArrives
  <2>2. DOMAIN p = DOMAIN page /\ p.state = Failed
      BY <1>0
  <2> HIDE DEF p
  <2>3. TypedSince(p)
      BY <2>2 DEF TypedSince
  <2> QED BY <1>0, <2>1, <2>2, <2>3, CableGoesOn
<1>3. ASSUME NEW p, page' = p, UNCHANGED db, \A d \in calls' : d \in calls \/ CableCallOK(d),
             DOMAIN p = DOMAIN page, p.state = page.state, p.name = page.name,
             p.bundle_count = page.bundle_count, p.fiber_count = page.fiber_count,
             p.path = page.path, p.typed = page.typed
      PROVE  CableInv'
  <2>1. TypedSince(p)
      BY <1>0, <1>3 DEF TypedSince
  <2> QED BY <1>0, <1>3, <2>1, CableGoesOn
<1>4. CASE CablePage!SaveFailed(c)
  <2> DEFINE p == [page EXCEPT !.saving = FALSE]
  <2>1. page' = p /\ UNCHANGED db /\ \A d \in calls' : d \in calls
      BY <1>4, CableArrives DEF CablePage!SaveFailed
  <2>2. /\ DOMAIN p = DOMAIN page /\ p.state = page.state /\ p.name = page.name
        /\ p.bundle_count = page.bundle_count /\ p.fiber_count = page.fiber_count
        /\ p.path = page.path /\ p.typed = page.typed
      BY <1>0
  <2> HIDE DEF p
  <2> QED BY <1>3, <2>1, <2>2
<1>5. CASE CablePage!Created(c)
  <2> DEFINE p == [page EXCEPT !.route = c.answer.id]
  <2> DEFINE r == [kind |-> "fetch", what |-> [id |-> c.answer.id], answer |-> Unanswered]
  <2>1. page' = p /\ UNCHANGED db /\ calls' \subseteq calls \union {r}
      BY <1>5 DEF CablePage!Created, CablePage!Arrived, CablePage!Exchange, CablePage!Request
  <2>2. /\ DOMAIN p = DOMAIN page /\ p.state = page.state /\ p.name = page.name
        /\ p.bundle_count = page.bundle_count /\ p.fiber_count = page.fiber_count
        /\ p.path = page.path /\ p.typed = page.typed
      BY <1>0
  <2>3. CableCallOK(r)
      BY DEF CableCallOK
  <2> HIDE DEF p, r
  <2> QED BY <1>3, <2>1, <2>2, <2>3
<1>6. CASE CablePage!OfferDucts(c)
  <2> DEFINE p == [page EXCEPT !.dialog = c.answer]
  <2>1. (page' = page \/ page' = p) /\ UNCHANGED db /\ \A d \in calls' : d \in calls
      BY <1>6, CableArrives DEF CablePage!OfferDucts
  <2>2. /\ DOMAIN p = DOMAIN page /\ p.state = page.state /\ p.name = page.name
        /\ p.bundle_count = page.bundle_count /\ p.fiber_count = page.fiber_count
        /\ p.path = page.path /\ p.typed = page.typed
      BY <1>0
  <2> HIDE DEF p
  <2> QED BY <1>3, <2>1, <2>2
<1>7. CASE CablePage!Deleted(c)
  <2>1. (page' = page \/ page' = CablePage!Empty) /\ UNCHANGED db /\ \A d \in calls' : d \in calls
      BY <1>7, CableArrives DEF CablePage!Deleted
  <2>2. DOMAIN CablePage!Empty = DOMAIN page /\ TypedSince(CablePage!Empty)
      BY <1>0 DEF CablePage!Empty, TypedSince
  <2>3. \A d \in calls' : d \in calls \/ CableCallOK(d)
      BY <2>1
  <2> QED BY <1>0, <2>1, <2>2, <2>3, CableGoesOn
<1> QED BY <1>1, <1>2, <1>4, <1>5, <1>6, <1>7 DEF CablePage!Arrival

LEMMA CableInput ==
    ASSUME CableInv, CablePage!Typing \/ CablePage!Answering
    PROVE  CableInv'
<1>0. /\ DOMAIN page = {"route", "state", "name", "bundle_count", "fiber_count", "path", "saving", "dialog", "typed"}
      /\ TypedSince(page)
    BY DEF CableInv
<1>1. ASSUME CablePage!SetName PROVE CableInv'
  <2>1. PICK n : page' = [page EXCEPT !.name = n, !.typed = page.typed \union {"name"}] /\ UNCHANGED <<db, calls>>
      BY <1>1 DEF CablePage!SetName, CablePage!Editing
  <2> DEFINE p == [page EXCEPT !.name = n, !.typed = page.typed \union {"name"}]
  <2>2. /\ DOMAIN p = DOMAIN page /\ p.state = page.state
        /\ p.bundle_count = page.bundle_count /\ p.fiber_count = page.fiber_count
        /\ p.path = page.path /\ p.typed = page.typed \union {"name"}
      BY <1>0
  <2>3. page' = p
      BY <2>1
  <2> HIDE DEF p
  <2>4. TypedSince(p)
      BY <1>0, <2>2 DEF TypedSince
  <2> QED BY <1>0, <2>1, <2>2, <2>3, <2>4, CableGoesOn
<1>2. ASSUME CablePage!SetBundleCount PROVE CableInv'
  <2>1. PICK n : /\ page' = [page EXCEPT !.bundle_count = n, !.typed = page.typed \union {"bundle_count"}]
                  /\ UNCHANGED <<db, calls>>
      BY <1>2 DEF CablePage!SetBundleCount, CablePage!Editing
  <2> DEFINE p == [page EXCEPT !.bundle_count = n, !.typed = page.typed \union {"bundle_count"}]
  <2>2. /\ DOMAIN p = DOMAIN page /\ p.state = page.state /\ p.name = page.name
        /\ p.fiber_count = page.fiber_count /\ p.path = page.path /\ p.typed = page.typed \union {"bundle_count"}
      BY <1>0
  <2>3. page' = p
      BY <2>1
  <2> HIDE DEF p
  <2>4. TypedSince(p)
      BY <1>0, <2>2 DEF TypedSince
  <2> QED BY <1>0, <2>1, <2>2, <2>3, <2>4, CableGoesOn
<1>11. ASSUME CablePage!SetFiberCount PROVE CableInv'
  <2>1. PICK n : /\ page' = [page EXCEPT !.fiber_count = n, !.typed = page.typed \union {"fiber_count"}]
                  /\ UNCHANGED <<db, calls>>
      BY <1>11 DEF CablePage!SetFiberCount, CablePage!Editing
  <2> DEFINE p == [page EXCEPT !.fiber_count = n, !.typed = page.typed \union {"fiber_count"}]
  <2>2. /\ DOMAIN p = DOMAIN page /\ p.state = page.state /\ p.name = page.name
        /\ p.bundle_count = page.bundle_count /\ p.path = page.path /\ p.typed = page.typed \union {"fiber_count"}
      BY <1>0
  <2>3. page' = p
      BY <2>1
  <2> HIDE DEF p
  <2>4. TypedSince(p)
      BY <1>0, <2>2 DEF TypedSince
  <2> QED BY <1>0, <2>1, <2>2, <2>3, <2>4, CableGoesOn
<1>3. ASSUME NEW path, CablePage!SetPath(path), UNCHANGED <<db, calls>> PROVE CableInv'
  <2> DEFINE p == [page EXCEPT !.path = path, !.typed = page.typed \union {"path"}, !.dialog = NoDialog]
  <2>1. page' = p
      BY <1>3 DEF CablePage!SetPath
  <2>2. /\ DOMAIN p = DOMAIN page /\ p.state = page.state /\ p.name = page.name
        /\ p.bundle_count = page.bundle_count /\ p.fiber_count = page.fiber_count /\ p.typed = page.typed \union {"path"}
      BY <1>0
  <2> HIDE DEF p
  <2>3. TypedSince(p)
      BY <1>0, <2>2 DEF TypedSince
  <2> QED BY <1>0, <1>3, <2>1, <2>2, <2>3, CableGoesOn
<1>4. ASSUME NEW d, page' = [page EXCEPT !.dialog = d] \/ page' = page, UNCHANGED db,
             \A c \in calls' : c \in calls \/ CableCallOK(c)
      PROVE  CableInv'
  <2> DEFINE p == [page EXCEPT !.dialog = d]
  <2>1. /\ DOMAIN p = DOMAIN page /\ p.state = page.state /\ p.name = page.name
        /\ p.bundle_count = page.bundle_count /\ p.fiber_count = page.fiber_count
        /\ p.path = page.path /\ p.typed = page.typed
      BY <1>0
  <2>2. page' = p \/ page' = page
      BY <1>4
  <2> HIDE DEF p
  <2>3. TypedSince(p)
      BY <1>0, <2>1 DEF TypedSince
  <2> QED BY <1>0, <1>4, <2>1, <2>2, <2>3, CableGoesOn
<1>5. ASSUME NEW end, CablePage!AskDucts(end) PROVE CableInv'
  <2>1. UNCHANGED <<db, page>> /\ \E w : CablePage!Send(CablePage!Request("ducts", w))
      BY <1>5 DEF CablePage!AskDucts, CablePage!Editing
  <2>2. \A c \in calls' : c \in calls \/ CableCallOK(c)
      BY <2>1, CableSends
  <2> QED BY <1>4, <2>1, <2>2
<1>6. ASSUME NEW d, CablePage!ChooseDuct(d) PROVE CableInv'
    BY <1>3, <1>4, <1>6 DEF CablePage!ChooseDuct
<1>7. CASE CablePage!RemoveEntry
  <2>1. /\ page' = [page EXCEPT !.dialog = NoDialog] /\ UNCHANGED db
        /\ UNCHANGED calls \/ \E w : CablePage!Send(CablePage!Request("delete", w))
      BY <1>7 DEF CablePage!RemoveEntry
  <2>2. \A c \in calls' : c \in calls \/ CableCallOK(c)
      BY <2>1, CableSends
  <2> QED BY <1>4, <2>1, <2>2
<1>8. CASE CablePage!AskDelete \/ CablePage!Cancel
    BY <1>4, <1>8 DEF CablePage!AskDelete, CablePage!Cancel
<1>9. ASSUME NEW d, CablePage!StartPath(d) \/ CablePage!ClickDuct(d) PROVE CableInv'
    BY <1>3, <1>9 DEF CablePage!StartPath, CablePage!ClickDuct, CablePage!Editing
<1>10. ASSUME NEW end, CablePage!RemoveSegment(end) PROVE CableInv'
    BY <1>3, <1>10 DEF CablePage!RemoveSegment, CablePage!Editing
<1> QED BY <1>1, <1>2, <1>5, <1>6, <1>7, <1>8, <1>9, <1>10, <1>11 DEF CablePage!Typing, CablePage!Answering

(* What is sent as changed was typed. *)
LEMMA CableSave ==
    ASSUME CableInv, CablePage!Save
    PROVE  CableInv'
<1>0. /\ DOMAIN page = {"route", "state", "name", "bundle_count", "fiber_count", "path", "saving", "dialog", "typed"}
      /\ TypedSince(page)
    BY DEF CableInv
<1>1. /\ CablePage!Changed \ {"fibers"} \subseteq page.typed
      /\ "fibers" \in CablePage!Changed => page.typed \intersect Counts # {}
      /\ "bundle_count" \in page.typed \/ page.bundle_count = page.state.bundle_count
      /\ "fiber_count" \in page.typed \/ page.fiber_count = page.state.fiber_count
    BY <1>0 DEF TypedSince, Counts, CablePage!Changed, CablePage!PathChanged, CablePage!StructureChanged,
                CablePage!Save, CablePage!Ready, CablePage!Loaded
<1> DEFINE w == [id |-> page.state.id, fields |-> CablePage!Changed, typed |-> page.typed,
                 loaded |-> [bundle_count |-> page.state.bundle_count, fiber_count |-> page.state.fiber_count],
                 name |-> page.name, bundle_count |-> page.bundle_count, fiber_count |-> page.fiber_count,
                 ducts |-> CablePage!DuctSequence(page.path)]
<1>2. \E k : CablePage!Send(CablePage!Request(k, w))
    BY DEF CablePage!Save, CablePage!CreateCable, CablePage!UpdateCable, CablePage!Sent
<1>3. SendsTyped(w)
    BY <1>1 DEF SendsTyped, Counts
<1> HIDE DEF w
<1>4. \A c \in calls' : c \in calls \/ CableCallOK(c)
    BY <1>2, <1>3, CableSends
<1> DEFINE p == [page EXCEPT !.saving = TRUE]
<1>5. page' = p /\ UNCHANGED db
    BY DEF CablePage!Save
<1>6. /\ DOMAIN p = DOMAIN page /\ p.state = page.state /\ p.name = page.name
        /\ p.bundle_count = page.bundle_count /\ p.fiber_count = page.fiber_count
      /\ p.path = page.path /\ p.typed = page.typed
    BY <1>0
<1> HIDE DEF p
<1>7. TypedSince(p)
    BY <1>0, <1>6 DEF TypedSince
<1> QED BY <1>0, <1>4, <1>5, <1>6, <1>7, CableGoesOn

LEMMA CableServe ==
    ASSUME CableInv, NEW c \in calls, CablePage!Serve(c)
    PROVE  CableInv'
<1>1. DOMAIN db = World.cable.Cable /\ CableRowsJoin
    BY DEF CableInv
<1>2. ASSUME NEW answer, CablePage!Reply(c, answer), UNCHANGED page,
             \/ UNCHANGED db
             \/ \E k, row : db' = [db EXCEPT ![k] = row] /\ CablePage!Alignable(row.ducts)
      PROVE  CableInv'
  <2>1. DOMAIN db' = World.cable.Cable /\ CableRowsJoin'
      BY <1>1, <1>2 DEF CableRowsJoin
  <2> QED BY <1>2, <2>1, CableReplies
<1>3. CASE CablePage!ServeFetch(c)
    BY <1>2, <1>3 DEF CablePage!ServeFetch
<1>4. CASE CablePage!ServeDucts(c)
    BY <1>2, <1>4 DEF CablePage!ServeDucts
<1>5. CASE CablePage!ServeUpdate(c)
  <2>1. UNCHANGED page
      BY <1>5 DEF CablePage!ServeUpdate
  <2>2. \/ \E answer : CablePage!Reply(c, answer) /\ UNCHANGED db
        \/ \E answer, k, row : /\ CablePage!Reply(c, answer) /\ db' = [db EXCEPT ![k] = row]
                               /\ CablePage!Accepted(row.ducts)
      BY <1>5 DEF CablePage!ServeUpdate
  <2> QED BY <1>2, <2>1, <2>2 DEF CablePage!Accepted
<1>6. CASE CablePage!ServeCreate(c)
  <2>1. UNCHANGED page
      BY <1>6 DEF CablePage!ServeCreate
  <2> DEFINE row == [name |-> c.what.name, bundle_count |-> c.what.bundle_count, fiber_count |-> c.what.fiber_count,
                 ducts |-> c.what.ducts]
  <2>2. \/ \E answer : CablePage!Reply(c, answer) /\ UNCHANGED db
        \/ \E answer, k : /\ CablePage!Reply(c, answer) /\ db' = [db EXCEPT ![k] = row]
                          /\ CablePage!Accepted(row.ducts)
      BY <1>6 DEF CablePage!ServeCreate
  <2> HIDE DEF row
  <2> QED BY <1>2, <2>1, <2>2 DEF CablePage!Accepted
<1>7. CASE CablePage!ServeDelete(c)
  <2>1. /\ db' = [id \in World.cable.Cable |-> IF id = c.what.id THEN NoCable ELSE db[id]]
        /\ CablePage!Reply(c, TRUE) /\ UNCHANGED page
      BY <1>7 DEF CablePage!ServeDelete
  <2>2. DOMAIN db' = World.cable.Cable /\ CableRowsJoin'
      BY <1>1, <2>1 DEF CableRowsJoin
  <2> QED BY <2>1, <2>2, CableReplies
<1> QED BY <1>3, <1>4, <1>5, <1>6, <1>7 DEF CablePage!Serve

LEMMA CableStep ==
    ASSUME CableInv, [CablePage!Next]_<<db, page, calls, spent>>
    PROVE  CableInv'
<1>1. CASE UNCHANGED <<db, page, calls, spent>>
    BY <1>1 DEF CableInv, CableRowsJoin, TypedSince
<1>2. CASE CablePage!Refuse
  <2>1. PICK c \in calls : CablePage!Reply(c, Failed) /\ UNCHANGED <<db, page>>
      BY <1>2 DEF CablePage!Refuse
  <2>2. DOMAIN db' = World.cable.Cable /\ CableRowsJoin'
      BY <2>1 DEF CableInv, CableRowsJoin
  <2> QED BY <2>1, <2>2, CableReplies
<1>3. CASE CablePage!Forget
  <2>1. (\A c \in calls' : c \in calls) /\ UNCHANGED <<db, page>>
      BY <1>3, CableArrives DEF CablePage!Forget
  <2> QED BY <2>1 DEF CableInv, CableRowsJoin, TypedSince
<1> QED BY <1>1, <1>2, <1>3, CableOpen, CableOpenNew, CableInput, CableSave, CableArrival, CableServe
    DEF CablePage!Next

-----------------------------------------------------------------------------
(* The page of a cable, among the others. *)
CableKept == kind = "cable" => CableInv

LEMMA CableAlways == Spec => []CableKept
<1>1. Init => CableKept
    BY CableInit DEF Init, CableKept
<1>2. CableKept /\ [Next]_vars => CableKept'
  <2> SUFFICES ASSUME CableKept, [Next]_vars, kind = "cable" PROVE CableInv'
      BY DEF CableKept, Next, vars
  <2>1. [CablePage!Next]_<<db, page, calls, spent>>
      BY DEF Next, vars
  <2> QED BY <2>1, CableStep DEF CableKept
<1> QED BY <1>1, <1>2, PTL DEF Spec

(* An update sends only a name or a path the user typed since the data     *)
(* shown were loaded, and the counts only if one of them was typed, the    *)
(* other as loaded, also if data of another cable came in between          *)
(* (TypedSince).                                                           *)
THEOREM ChangesWereTyped == Spec => []OnlyTypedIsSent
<1>1. CableKept => OnlyTypedIsSent
    BY DEF CableKept, CableInv, CableCallOK, SendsTyped, Counts, OnlyTypedIsSent, CablePage!OnlyTypedIsSent
<1> QED BY <1>1, CableAlways, PTL

-----------------------------------------------------------------------------
(* The path of a cable *)

(* A step of the walk along ducts (Passed). *)
Walked(ducts, before, n) ==
    IF Len(before) = n /\ before[n] \in CablePage!EndsOf(ducts[n])
    THEN Append(before, CablePage!OtherEnd(ducts[n], before[n])) ELSE before
IsWalk(at, ducts, start, m) ==
    at = [n \in 0 .. m |-> IF n = 0 THEN <<start>> ELSE Walked(ducts, at[n - 1], n)]

LEMMA PassedIsWalk ==
    ASSUME NEW ducts, \E at : IsWalk(at, ducts, CablePage!Near(ducts), Len(ducts))
    PROVE  \E at : IsWalk(at, ducts, CablePage!Near(ducts), Len(ducts))
                   /\ CablePage!Passed(ducts) = at[Len(ducts)]
<1> DEFINE P(at) == at = [n \in 0 .. Len(ducts) |->
                 IF n = 0 THEN <<CablePage!Near(ducts)>>
                 ELSE IF Len(at[n - 1]) = n /\ at[n - 1][n] \in CablePage!EndsOf(ducts[n])
                      THEN Append(at[n - 1], CablePage!OtherEnd(ducts[n], at[n - 1][n])) ELSE at[n - 1]]
<1>1. \A at : IsWalk(at, ducts, CablePage!Near(ducts), Len(ducts)) <=> P(at)
    BY DEF IsWalk, Walked
<1>2. CablePage!Passed(ducts) = (CHOOSE at : P(at))[Len(ducts)]
    BY DEF CablePage!Passed
<1> HIDE DEF P
<1>3. P(CHOOSE at : P(at))
    BY <1>1
<1> QED BY <1>1, <1>2, <1>3

LEMMA LeastNumber ==
    ASSUME NEW S \in SUBSET Nat, S # {}
    PROVE  \E m \in S : \A n \in S : m <= n
<1> DEFINE Less == {ss \in Nat \X Nat : ss[1] < ss[2]}
<1>1. IsWellFoundedOn(Less, Nat)
    BY NatLessThanWellFounded DEF OpToRel
<1> HIDE DEF Less
<1>2. PICK m \in S : \A n \in S : ~ (<<n, m>> \in Less)
    BY <1>1, WFMin
<1>3. \A n \in S : ~ (n < m)
    BY <1>2 DEF Less
<1> QED BY <1>3

(* Along any ducts there is a walk.                                        *)
LEMMA WalkExists ==
    ASSUME NEW ducts, NEW start, NEW m \in Nat
    PROVE  \E at : IsWalk(at, ducts, start, m)
<1> DEFINE Without == {k \in Nat : ~ \E at : IsWalk(at, ducts, start, k)}
<1> SUFFICES ASSUME Without # {} PROVE FALSE
    OBVIOUS
<1>1. PICK k \in Without : \A l \in Without : k <= l
    BY LeastNumber
<1>2. k # 0
  <2>1. IsWalk([n \in 0 .. 0 |-> <<start>>], ducts, start, 0)
      BY DEF IsWalk
  <2> QED BY <2>1
<1>3. k - 1 \in Nat /\ k - 1 \notin Without
    BY <1>1, <1>2
<1>4. PICK f : IsWalk(f, ducts, start, k - 1)
    BY <1>3
<1> DEFINE g == [n \in 0 .. k |-> IF n = k THEN Walked(ducts, f[k - 1], k) ELSE f[n]]
<1>5. \A n \in 0 .. k - 1 : f[n] = IF n = 0 THEN <<start>> ELSE Walked(ducts, f[n - 1], n)
    BY <1>4 DEF IsWalk
<1>6. \A n \in 0 .. k : g[n] = IF n = 0 THEN <<start>> ELSE Walked(ducts, g[n - 1], n)
    BY <1>2, <1>3, <1>5
<1>7. IsWalk(g, ducts, start, k)
    BY <1>6 DEF IsWalk
<1> QED BY <1>7

(* Its manholes are those of the ducts.                                    *)
LEMMA WalkedTyped ==
    ASSUME NEW S, NEW before \in Seq(S), NEW ducts, NEW n, CablePage!OtherEnd(ducts[n], before[n]) \in S
    PROVE  Walked(ducts, before, n) \in Seq(S)
BY DEF Walked

LEMMA WalkTyped ==
    ASSUME NEW S, NEW ducts, NEW m \in Nat, NEW start \in S, NEW at, IsWalk(at, ducts, start, m),
           \A n \in 1 .. m : \A s \in S : CablePage!OtherEnd(ducts[n], s) \in S
    PROVE  \A n \in 0 .. m : at[n] \in Seq(S)
<1> DEFINE Other == {n \in 0 .. m : at[n] \notin Seq(S)}
<1> SUFFICES ASSUME Other # {} PROVE FALSE
    OBVIOUS
<1>0. Other \in SUBSET Nat
    OBVIOUS
<1>1. PICK k \in Other : \A l \in Other : k <= l
    BY <1>0, LeastNumber
<1>2. \A n \in 0 .. m : at[n] = IF n = 0 THEN <<start>> ELSE Walked(ducts, at[n - 1], n)
    BY DEF IsWalk
<1>3. k # 0
  <2>1. at[0] = <<start>> /\ <<start>> \in Seq(S)
      BY <1>2
  <2> QED BY <2>1
<1>4. k \in 1 .. m /\ k - 1 \in 0 .. m /\ k - 1 \notin Other
    BY <1>0, <1>1, <1>3
<1>5. at[k - 1] \in Seq(S) /\ at[k] = Walked(ducts, at[k - 1], k)
    BY <1>2, <1>4
<1>6. CASE Len(at[k - 1]) = k
  <2>1. at[k - 1][k] \in S
      BY <1>4, <1>5, <1>6
  <2> QED BY <1>1, <1>4, <1>5, <2>1, WalkedTyped
<1>7. CASE Len(at[k - 1]) # k
    BY <1>1, <1>5, <1>7 DEF Walked
<1> QED BY <1>6, <1>7

-----------------------------------------------------------------------------
(* The path the user sees *)

(* A path of at least one segment. *)
Segment == [duct : World.cable.Duct, far : World.cable.Schacht]
Path == {path \in [near : World.cable.Schacht, segments : Seq(Segment)] : Len(path.segments) > 0}
PathOK(path) == path = NoPath \/ path \in Path

(* The manholes it passes, the near one first. *)
Via(path, i) == IF i = 0 THEN path.near ELSE path.segments[i].far

LEMMA PathParts ==
    ASSUME NEW path \in Path
    PROVE  /\ Len(path.segments) \in Nat \ {0} /\ DOMAIN path.segments = 1 .. Len(path.segments)
           /\ path.near \in World.cable.Schacht
           /\ \A i \in 1 .. Len(path.segments) :
                 /\ path.segments[i] = [duct |-> path.segments[i].duct, far |-> path.segments[i].far]
                 /\ path.segments[i].duct \in World.cable.Duct
                 /\ path.segments[i].far \in World.cable.Schacht
           /\ path = [near |-> path.near, segments |-> path.segments]
           /\ path.segments = [i \in 1 .. Len(path.segments) |-> path.segments[i]]
<1>1. path \in [near : World.cable.Schacht, segments : Seq(Segment)] /\ Len(path.segments) > 0
    BY DEF Path
<1>2. PICK s \in Seq(Segment) : s = path.segments
    BY <1>1
<1>3. /\ Len(s) \in Nat /\ DOMAIN s = 1 .. Len(s) /\ s = [i \in 1 .. Len(s) |-> s[i]]
      /\ \A i \in 1 .. Len(s) : s[i] \in Segment
    OBVIOUS
<1> QED BY <1>1, <1>2, <1>3 DEF Segment

(* A manhole it does not pass twice.                                       *)
LEMMA ViaOnce ==
    ASSUME NEW path \in Path, CablePage!Simple(path)
    PROVE  \A i, j \in 0 .. Len(path.segments) : Via(path, i) = Via(path, j) => i = j
<1> DEFINE n == Len(path.segments)
           via == [i \in 0 .. n |-> Via(path, i)]
           all == {path.near} \union {path.segments[i].far : i \in DOMAIN path.segments}
<1>1. n \in Nat /\ DOMAIN path.segments = 1 .. n
    BY PathParts
<1>2. Cardinality(all) = n + 1
  <2>1. CablePage!Cardinality(all) = Cardinality(all)
      BY DEF CablePage!Cardinality, Cardinality
  <2>2. CablePage!Cardinality(all) = n + 1
      BY DEF CablePage!Simple
  <2> QED BY <2>1, <2>2
<1>3. IsFiniteSet(0 .. n) /\ Cardinality(0 .. n) = n + 1
    BY <1>1, FS_Interval
<1>4. via \in Surjection(0 .. n, all)
  <2>1. \A i \in 0 .. n : via[i] \in all
      BY <1>1 DEF Via
  <2>2. ASSUME NEW x \in all PROVE \E i \in 0 .. n : via[i] = x
    <3>1. CASE x = path.near
        BY <1>1, <3>1 DEF Via
    <3>2. CASE x # path.near
      <4>1. PICK i \in 1 .. n : x = path.segments[i].far
          BY <1>1, <3>2
      <4> QED BY <1>1, <4>1 DEF Via
    <3> QED BY <3>1, <3>2
  <2> HIDE DEF all
  <2>3. via \in [0 .. n -> all]
      BY <2>1
  <2> QED BY <2>2, <2>3 DEF Surjection
<1> HIDE DEF via, all
<1>5. via \in Injection(0 .. n, all)
    BY <1>2, <1>3, <1>4, FS_SurjSameCardinalityImpliesInj
<1>6. \A i, j \in 0 .. n : via[i] = via[j] => i = j
    BY <1>5 DEF Injection, IsInjective
<1>7. \A i \in 0 .. n : via[i] = Via(path, i)
    BY DEF via
<1> QED BY <1>6, <1>7

-----------------------------------------------------------------------------
(* Its ducts are walked as it was built *)

LEMMA OtherOfTwo ==
    ASSUME NEW d, NEW s, NEW t, CablePage!EndsOf(d) = {s, t}
    PROVE  CablePage!OtherEnd(d, s) = t
BY DEF CablePage!EndsOf, CablePage!OtherEnd, CablePage!A, CablePage!Z

(* The manholes along via, and ducts between them. *)
Between(ducts, via, m) == \A n \in 1 .. m : CablePage!EndsOf(ducts[n]) = {via[n - 1], via[n]}
Along(via, k) == [i \in 1 .. k + 1 |-> via[i - 1]]

LEMMA AlongParts ==
    ASSUME NEW via, NEW k \in Nat \ {0}
    PROVE  /\ Len(Along(via, k - 1)) = k /\ Along(via, k - 1)[k] = via[k - 1]
           /\ Append(Along(via, k - 1), via[k]) = Along(via, k)
<1> DEFINE s == [i \in 1 .. k |-> via[i - 1]]
<1>1. Along(via, k - 1) = s
    BY DEF Along
<1>2. Len(s) = k /\ s[k] = via[k - 1]
    OBVIOUS
<1>3. Append(s, via[k]) = Along(via, k)
    BY <1>2 DEF Along
<1> QED BY <1>1, <1>2, <1>3

LEMMA WalkAlong ==
    ASSUME NEW ducts, NEW m \in Nat, NEW via, NEW at, IsWalk(at, ducts, via[0], m), Between(ducts, via, m)
    PROVE  at[m] = Along(via, m)
<1> DEFINE Other == {n \in 0 .. m : at[n] # Along(via, n)}
<1> SUFFICES ASSUME Other # {} PROVE FALSE
    OBVIOUS
<1>0. Other \in SUBSET Nat
    OBVIOUS
<1>1. PICK k \in Other : \A l \in Other : k <= l
    BY <1>0, LeastNumber
<1>2. \A n \in 0 .. m : at[n] = IF n = 0 THEN <<via[0]>> ELSE Walked(ducts, at[n - 1], n)
    BY DEF IsWalk
<1>3. k # 0
  <2>1. at[0] = <<via[0]>> /\ <<via[0]>> = Along(via, 0)
      BY <1>2 DEF Along
  <2> QED BY <2>1
<1>4. k \in Nat \ {0} /\ k \in 1 .. m /\ k - 1 \in 0 .. m /\ k - 1 \notin Other
    BY <1>0, <1>1, <1>3
<1>5. at[k - 1] = Along(via, k - 1) /\ at[k] = Walked(ducts, at[k - 1], k)
    BY <1>2, <1>4
<1>6. CablePage!EndsOf(ducts[k]) = {via[k - 1], via[k]}
    BY <1>4 DEF Between
<1>7. CablePage!OtherEnd(ducts[k], via[k - 1]) = via[k]
    BY <1>6, OtherOfTwo
<1>8. at[k] = Along(via, k)
  <2>1. PICK before : before = Along(via, k - 1)
      OBVIOUS
  <2>2. Len(before) = k /\ before[k] = via[k - 1] /\ Append(before, via[k]) = Along(via, k)
      BY <1>4, <2>1, AlongParts
  <2>3. at[k] = Walked(ducts, before, k)
      BY <1>5, <2>1
  <2>4. before[k] \in CablePage!EndsOf(ducts[k]) /\ CablePage!OtherEnd(ducts[k], before[k]) = via[k]
      BY <1>6, <1>7, <2>2
  <2> QED BY <2>2, <2>3, <2>4 DEF Walked
<1> QED BY <1>1, <1>8

LEMMA DuctsOfPath ==
    ASSUME NEW path \in Path
    PROVE  LET ducts == CablePage!DuctSequence(path)
           IN  /\ path # NoPath => /\ Len(ducts) = Len(path.segments) /\ ducts \in Seq(World.cable.Duct)
                                   /\ \A i \in 1 .. Len(path.segments) : ducts[i] = path.segments[i].duct
<1> SUFFICES ASSUME path # NoPath
             PROVE  LET ducts == CablePage!DuctSequence(path)
                    IN  /\ Len(ducts) = Len(path.segments) /\ ducts \in Seq(World.cable.Duct)
                        /\ \A i \in 1 .. Len(path.segments) : ducts[i] = path.segments[i].duct
    OBVIOUS
<1>1. PICK n : n = Len(path.segments)
    OBVIOUS
<1>2. n \in Nat /\ \A i \in 1 .. n : path.segments[i].duct \in World.cable.Duct
    BY <1>1, PathParts
<1>3. CablePage!DuctSequence(path) = [i \in 1 .. n |-> path.segments[i].duct]
    BY <1>1, PathParts DEF CablePage!DuctSequence
<1>4. \A f \in [1 .. n -> World.cable.Duct] : f \in Seq(World.cable.Duct) /\ Len(f) = n
    BY <1>2, SeqDef
<1> QED BY <1>1, <1>2, <1>3, <1>4

(* A walk along the path passes all of its ducts. *)
LEMMA PassedAlong ==
    ASSUME NEW ducts, NEW D, ducts \in Seq(D), NEW via, CablePage!Near(ducts) = via[0],
           Between(ducts, via, Len(ducts))
    PROVE  CablePage!Passed(ducts) = Along(via, Len(ducts))
<1>1. PICK m \in Nat : m = Len(ducts)
    OBVIOUS
<1>2. PICK at : IsWalk(at, ducts, via[0], m) /\ CablePage!Passed(ducts) = at[m]
    BY <1>1, WalkExists, PassedIsWalk
<1>3. Between(ducts, via, m)
    BY <1>1
<1>4. at[m] = Along(via, m)
    BY <1>2, <1>3, WalkAlong
<1> QED BY <1>1, <1>2, <1>4

(* The path the backend rebuilds of them. *)
Rebuilt(ducts, via) ==
    /\ CablePage!Alignable(ducts)
    /\ CablePage!PathFromDucts(ducts)
         = [near |-> via[0], segments |-> [i \in 1 .. Len(ducts) |-> [duct |-> ducts[i], far |-> via[i]]]]

LEMMA RebuiltAlong ==
    ASSUME NEW D, NEW ducts, ducts \in Seq(D), Len(ducts) > 0, NEW via, CablePage!Near(ducts) = via[0],
           Between(ducts, via, Len(ducts))
    PROVE  Rebuilt(ducts, via)
<1>1. PICK n \in Nat \ {0} : n = Len(ducts)
    OBVIOUS
<1>2. CablePage!Passed(ducts) = Along(via, n)
    BY <1>1, PassedAlong
<1>3. Len(Along(via, n)) = n + 1 /\ \A i \in 1 .. n : Along(via, n)[i + 1] = via[i]
    BY DEF Along
<1>4. CablePage!Alignable(ducts)
    BY <1>1, <1>2, <1>3 DEF CablePage!Alignable
<1>5. PICK passed : passed = CablePage!Passed(ducts)
    OBVIOUS
<1>6. Len(passed) - 1 = n /\ \A i \in 1 .. n : passed[i + 1] = via[i]
    BY <1>2, <1>3, <1>5
<1>7. CablePage!PathFromDucts(ducts)
          = [near |-> via[0], segments |-> [i \in 1 .. Len(passed) - 1 |-> [duct |-> ducts[i], far |-> passed[i + 1]]]]
    BY <1>1, <1>5 DEF CablePage!PathFromDucts
<1> QED BY <1>1, <1>4, <1>6, <1>7 DEF Rebuilt

(* Where the walk begins: at the near manhole, and with one duct perhaps   *)
(* at the other.                                                           *)
Different(via, n) == \A i, j \in 0 .. n : via[i] = via[j] => i = j

LEMMA NearIsNear ==
    ASSUME NEW ducts, NEW via, NEW n \in Nat, n = Len(ducts), n >= 2,
           Between(ducts, via, n), Different(via, n)
    PROVE  CablePage!Near(ducts) = via[0]
<1>1. via[0] # via[1] /\ via[0] # via[2]
    BY DEF Different
<1>2. CablePage!EndsOf(ducts[1]) = {via[0], via[1]} /\ CablePage!EndsOf(ducts[2]) = {via[1], via[2]}
  <2>1. \A i \in 1 .. n : CablePage!EndsOf(ducts[i]) = {via[i - 1], via[i]}
      BY DEF Between
  <2>2. 1 \in 1 .. n /\ 2 \in 1 .. n /\ 1 - 1 = 0 /\ 2 - 1 = 1
      OBVIOUS
  <2> QED BY <2>1, <2>2
<1>3. /\ {CablePage!A(ducts[1]), CablePage!Z(ducts[1])} = {via[0], via[1]}
      /\ CablePage!A(ducts[1]) \in CablePage!EndsOf(ducts[2]) <=> CablePage!A(ducts[1]) \in {via[1], via[2]}
    BY <1>2 DEF CablePage!EndsOf, CablePage!A, CablePage!Z
<1>4. CablePage!Near(ducts) = IF CablePage!A(ducts[1]) \in {via[1], via[2]} THEN CablePage!Z(ducts[1])
                                                                        ELSE CablePage!A(ducts[1])
    BY <1>3 DEF CablePage!Near
<1>5. CASE CablePage!A(ducts[1]) = via[0]
    BY <1>1, <1>4, <1>5
<1>6. CASE CablePage!A(ducts[1]) = via[1] /\ CablePage!Z(ducts[1]) = via[0]
    BY <1>4, <1>6
<1> QED BY <1>1, <1>3, <1>5, <1>6

LEMMA BuiltAligns ==
    ASSUME NEW path \in Path, path # NoPath, CablePage!Joined(path), CablePage!Simple(path),
           NEW ducts, ducts = CablePage!DuctSequence(path)
    PROVE  /\ CablePage!Alignable(ducts)
           /\ \/ CablePage!PathFromDucts(ducts) = path
              \/ Len(ducts) = 1 /\ CablePage!PathFromDucts(ducts) = CablePage!Reverse(path)
<1>1. PICK n \in Nat \ {0} : n = Len(path.segments)
    BY PathParts
<1>2. ducts \in Seq(World.cable.Duct) /\ Len(ducts) = n /\ \A i \in 1 .. n : ducts[i] = path.segments[i].duct
    BY <1>1, DuctsOfPath
<1>3. /\ path.segments = [i \in 1 .. n |-> [duct |-> path.segments[i].duct, far |-> path.segments[i].far]]
      /\ path = [near |-> path.near, segments |-> path.segments] /\ DOMAIN path.segments = 1 .. n
    BY <1>1, PathParts
<1> DEFINE via == [i \in 0 .. n |-> Via(path, i)]
<1>4. via[0] = path.near /\ \A i \in 1 .. n : via[i] = path.segments[i].far
    BY DEF Via
<1>5. Different(via, n)
    BY <1>1, ViaOnce DEF Different
<1> HIDE DEF via
<1>6. ASSUME NEW i \in 1 .. n PROVE CablePage!EndsOf(ducts[i]) = {via[i - 1], via[i]}
  <2>1. CablePage!EndsOf(path.segments[i].duct)
          = {IF i = 1 THEN path.near ELSE path.segments[i - 1].far, path.segments[i].far}
      BY <1>3 DEF CablePage!Joined
  <2>2. CASE i = 1
      BY <1>2, <1>4, <2>1, <2>2
  <2>3. CASE i # 1
    <3>1. via[i - 1] = path.segments[i - 1].far /\ via[i] = path.segments[i].far
        BY <1>4, <2>3
    <3> QED BY <1>2, <2>1, <2>3, <3>1
  <2> QED BY <2>2, <2>3
<1>7. Between(ducts, via, n)
    BY <1>6 DEF Between
<1>8. path = [near |-> via[0], segments |-> [i \in 1 .. n |-> [duct |-> ducts[i], far |-> via[i]]]]
  <2>1. \A i \in 1 .. n : path.segments[i].duct = ducts[i] /\ path.segments[i].far = via[i]
      BY <1>2, <1>4
  <2>2. path.segments = [i \in 1 .. n |-> [duct |-> ducts[i], far |-> via[i]]]
      BY ONLY <1>3, <2>1
  <2> QED BY <1>3, <1>4, <2>2
<1>9. CASE CablePage!Near(ducts) = via[0]
  <2>1. Len(ducts) > 0 /\ Between(ducts, via, Len(ducts))
      BY <1>2, <1>7
  <2>2. Rebuilt(ducts, via)
      BY <1>2, <1>9, <2>1, RebuiltAlong
  <2>3. CablePage!PathFromDucts(ducts) = path
      BY <1>2, <1>8, <2>2 DEF Rebuilt
  <2> QED BY <2>2, <2>3 DEF Rebuilt
<1>10. CASE CablePage!Near(ducts) # via[0]
  <2>1. n = 1
      BY <1>2, <1>5, <1>10, <1>7, NearIsNear
  <2>2. CablePage!EndsOf(ducts[1]) = {via[0], via[1]}
      BY <1>6, <2>1
  <2>3. CablePage!Near(ducts) = via[1]
      BY <1>2, <1>10, <2>1, <2>2 DEF CablePage!Near, CablePage!EndsOf, CablePage!A
  <2> DEFINE back == [i \in 0 .. 1 |-> via[1 - i]]
  <2>4. back[0] = via[1] /\ back[1] = via[0]
      OBVIOUS
  <2> HIDE DEF back
  <2>5. Between(ducts, back, Len(ducts))
    <3>1. \A i \in 1 .. 1 : CablePage!EndsOf(ducts[i]) = {back[i - 1], back[i]}
        BY <2>2, <2>4
    <3> QED BY <1>2, <2>1, <3>1 DEF Between
  <2>6. Rebuilt(ducts, back)
    <3>1. Len(ducts) > 0 /\ CablePage!Near(ducts) = back[0]
        BY <1>2, <2>3, <2>4
    <3> QED BY <1>2, <2>5, <3>1, RebuiltAlong
  <2>7. CablePage!Reverse(path)
          = [near |-> path.segments[n].far,
             segments |-> [i \in 1 .. n |->
                 [duct |-> path.segments[n + 1 - i].duct,
                  far |-> IF i = n THEN path.near ELSE path.segments[n - i].far]]]
      BY <1>1 DEF CablePage!Reverse, CablePage!FarEnd
  <2>8. CablePage!Reverse(path)
          = [near |-> back[0], segments |-> [i \in 1 .. Len(ducts) |-> [duct |-> ducts[i], far |-> back[i]]]]
    <3>1. path.segments[n].far = back[0] /\ path.near = back[1] /\ Len(ducts) = n
        BY <1>2, <1>4, <2>1, <2>4
    <3>2. [i \in 1 .. n |-> [duct |-> path.segments[n + 1 - i].duct,
                             far |-> IF i = n THEN path.near ELSE path.segments[n - i].far]]
            = [i \in 1 .. n |-> [duct |-> ducts[i], far |-> back[i]]]
      <4>1. \A i \in 1 .. n : i = 1 /\ n + 1 - i = 1 /\ i = n /\ path.segments[1].duct = ducts[1]
          BY <1>2, <2>1
      <4> QED BY <2>1, <3>1, <4>1
    <3> QED BY <2>7, <3>1, <3>2
  <2> QED BY <1>2, <2>1, <2>6, <2>8 DEF Rebuilt
<1> QED BY <1>9, <1>10

-----------------------------------------------------------------------------
(* Every path the page holds is a path *)

(* The data of a cable. *)
Shown(data) == data.id \in World.cable.Cable /\ PathOK(data.path)
(* What is sent and what comes back. *)
AboutPath(c) ==
    /\ c.kind = "fetch" => c.what.id \in World.cable.Cable
    /\ c.kind = "update" => c.what.id \in World.cable.Cable \union {NewCable}
    /\ c.kind \in {"update", "create"} => c.what.ducts \in Seq(World.cable.Duct)
    /\ c.kind \in {"fetch", "update"} => c.answer \in {Unanswered, Failed, NotFound} \/ Shown(c.answer)
    /\ c.kind = "create" => c.answer \in {Unanswered, Failed} \/ c.answer.id \in World.cable.Cable
RowsOK ==
    \A k \in World.cable.Cable : db[k] # NoCable => db[k].ducts \in Seq(World.cable.Duct)
StateOK(state) == state \in {Pending, Failed} \/ state.id \in World.cable.Cable \union {NewCable}
PathInv ==
    /\ RowsOK /\ StateOK(page.state) /\ PathOK(page.path)
    /\ \A c \in calls : AboutPath(c)

LEMMA EndsTyped ==
    ASSUME NEW d \in World.cable.Duct
    PROVE  /\ CablePage!A(d) \in World.cable.Schacht /\ CablePage!Z(d) \in World.cable.Schacht
           /\ \A s : CablePage!OtherEnd(d, s) \in World.cable.Schacht
<1>1. World.cable.DuctEnds \in [World.cable.Duct -> World.cable.Schacht \X World.cable.Schacht]
    BY CableKnown DEF CablePage!Known
<1>2. World.cable.DuctEnds[d] \in World.cable.Schacht \X World.cable.Schacht
    BY <1>1
<1> QED BY <1>2 DEF CablePage!A, CablePage!Z, CablePage!OtherEnd

LEMMA PathMade ==
    ASSUME NEW near \in World.cable.Schacht, NEW segments \in Seq(Segment), Len(segments) > 0
    PROVE  PathOK([near |-> near, segments |-> segments])
BY DEF PathOK, Path

(* Segments of typed ducts and manholes. *)
LEMMA SegmentsMade ==
    ASSUME NEW n \in Nat, NEW ducts, NEW far, \A i \in 1 .. n : ducts[i] \in World.cable.Duct,
           \A i \in 1 .. n : far[i + 1] \in World.cable.Schacht
    PROVE  LET s == [i \in 1 .. n |-> [duct |-> ducts[i], far |-> far[i + 1]]]
           IN  s \in Seq(Segment) /\ Len(s) = n
<1> DEFINE s == [i \in 1 .. n |-> [duct |-> ducts[i], far |-> far[i + 1]]]
<1>1. s \in [1 .. n -> Segment]
    BY DEF Segment
<1>2. \A f \in [1 .. n -> Segment] : f \in Seq(Segment) /\ Len(f) = n
    BY SeqDef
<1> QED BY <1>1, <1>2

(* The backend shows a path. *)
LEMMA PassedTyped ==
    ASSUME NEW ducts, ducts \in Seq(World.cable.Duct), Len(ducts) > 0
    PROVE  CablePage!Near(ducts) \in World.cable.Schacht /\ CablePage!Passed(ducts) \in Seq(World.cable.Schacht)
<1>1. PICK m \in Nat \ {0} : m = Len(ducts)
    OBVIOUS
<1>2. \A n \in 1 .. m : ducts[n] \in World.cable.Duct
    BY <1>1
<1>3. CablePage!Near(ducts) \in World.cable.Schacht
    BY <1>1, <1>2, EndsTyped DEF CablePage!Near
<1>4. PICK start : start = CablePage!Near(ducts)
    OBVIOUS
<1>5. PICK at : IsWalk(at, ducts, start, m) /\ CablePage!Passed(ducts) = at[m]
    BY <1>1, <1>4, WalkExists, PassedIsWalk
<1>6. \A n \in 1 .. m : \A s \in World.cable.Schacht : CablePage!OtherEnd(ducts[n], s) \in World.cable.Schacht
    BY <1>2, EndsTyped
<1>7. \A n \in 0 .. m : at[n] \in Seq(World.cable.Schacht)
    BY <1>3, <1>4, <1>5, <1>6, WalkTyped
<1> QED BY <1>1, <1>3, <1>5, <1>7

LEMMA RebuiltTyped ==
    ASSUME NEW ducts, ducts \in Seq(World.cable.Duct), CablePage!Alignable(ducts)
    PROVE  PathOK(CablePage!PathFromDucts(ducts))
<1>1. CASE Len(ducts) = 0
    BY <1>1 DEF CablePage!PathFromDucts, PathOK
<1>2. CASE Len(ducts) # 0
  <2>1. PICK n \in Nat \ {0} : n = Len(ducts)
      BY <1>2
  <2>2. PICK passed \in Seq(World.cable.Schacht) : passed = CablePage!Passed(ducts)
      BY <2>1, PassedTyped
  <2>3. Len(passed) = n + 1
      BY <2>1, <2>2 DEF CablePage!Alignable
  <2>4. /\ \A i \in 1 .. n : ducts[i] \in World.cable.Duct
        /\ \A i \in 1 .. n : passed[i + 1] \in World.cable.Schacht
      BY <2>1, <2>2, <2>3
  <2> DEFINE s == [i \in 1 .. n |-> [duct |-> ducts[i], far |-> passed[i + 1]]]
  <2>5. s \in Seq(Segment) /\ Len(s) = n
      BY <2>4, SegmentsMade
  <2>6. PICK near \in World.cable.Schacht : near = CablePage!Near(ducts)
      BY <2>1, PassedTyped
  <2>7. Len(passed) - 1 = n
      BY <2>3
  <2>8. CablePage!PathFromDucts(ducts) = [near |-> near, segments |-> s]
      BY <2>1, <2>2, <2>6, <2>7 DEF CablePage!PathFromDucts
  <2> HIDE DEF s
  <2> QED BY <2>1, <2>5, <2>6, <2>8, PathMade
<1> QED BY <1>1, <1>2

LEMMA DuctsTyped ==
    ASSUME NEW path, PathOK(path)
    PROVE  CablePage!DuctSequence(path) \in Seq(World.cable.Duct)
<1>1. CASE path = NoPath
    BY <1>1 DEF CablePage!DuctSequence
<1>2. CASE path # NoPath
    BY <1>2, DuctsOfPath DEF PathOK
<1> QED BY <1>1, <1>2

-----------------------------------------------------------------------------
(* The user changes it *)

LEMMA OtherSegments ==
    ASSUME NEW near, NEW s, NEW u, NEW path, path = [near |-> near, segments |-> s]
    PROVE  path.near = near /\ path.segments = s /\ [path EXCEPT !.segments = u] = [near |-> near, segments |-> u]
OBVIOUS

LEMMA AppendedOK ==
    ASSUME page.path \in Path, NEW end, NEW d \in World.cable.Duct, NEW other \in World.cable.Schacht
    PROVE  PathOK(CablePage!Appended(end, d, other))
<1>1. PICK near \in World.cable.Schacht, s \in Seq(Segment) :
          page.path = [near |-> near, segments |-> s] /\ Len(s) > 0
    BY DEF Path
<1> DEFINE first == [duct |-> d, far |-> near]
           last == [duct |-> d, far |-> other]
<1>2. first \in Segment /\ last \in Segment
    BY DEF Segment
<1>0. /\ page.path.near = near /\ page.path.segments = s
      /\ \A u : [page.path EXCEPT !.segments = u] = [near |-> near, segments |-> u]
    BY <1>1, OtherSegments
<1>3. CASE end = "Front"
  <2>1. CablePage!Appended(end, d, other) = [near |-> other, segments |-> <<first>> \o s]
      BY <1>0, <1>3 DEF CablePage!Appended
  <2> HIDE DEF first
  <2>2. <<first>> \o s \in Seq(Segment) /\ Len(<<first>> \o s) > 0
      BY <1>1, <1>2
  <2> QED BY <2>1, <2>2, PathMade
<1>4. CASE end # "Front"
  <2>1. CablePage!Appended(end, d, other) = [near |-> near, segments |-> Append(s, last)]
      BY <1>0, <1>4 DEF CablePage!Appended
  <2> HIDE DEF last
  <2>2. Append(s, last) \in Seq(Segment) /\ Len(Append(s, last)) > 0
      BY <1>1, <1>2
  <2> QED BY <2>1, <2>2, PathMade
<1> QED BY <1>3, <1>4

LEMMA ShortenedOK ==
    ASSUME page.path \in Path, NEW end
    PROVE  PathOK(CablePage!Shortened(end))
<1>1. PICK near \in World.cable.Schacht, s \in Seq(Segment) :
          page.path = [near |-> near, segments |-> s] /\ Len(s) > 0
    BY DEF Path
<1>2. PICK n \in Nat \ {0} : n = Len(s)
    BY <1>1
<1>0. /\ page.path.near = near /\ page.path.segments = s
      /\ \A u : [page.path EXCEPT !.segments = u] = [near |-> near, segments |-> u]
    BY <1>1, OtherSegments
<1>3. s[1].far \in World.cable.Schacht
  <2>1. 1 \in 1 .. Len(s)
      BY <1>2
  <2>2. s[1] \in Segment
      BY <2>1
  <2> QED BY <2>2 DEF Segment
<1>4. CASE n = 1
  <2>1. CablePage!Shortened(end) \in {NoPath, page.path}
      BY <1>0, <1>2, <1>4 DEF CablePage!Shortened
  <2> QED BY <2>1 DEF PathOK
<1>5. CASE n > 1
  <2>1. /\ SubSeq(s, 2, n) \in Seq(Segment) /\ Len(SubSeq(s, 2, n)) > 0
        /\ SubSeq(s, 1, n - 1) \in Seq(Segment) /\ Len(SubSeq(s, 1, n - 1)) > 0
      BY <1>2, <1>5
  <2>2. \/ CablePage!Shortened(end) = [near |-> s[1].far, segments |-> SubSeq(s, 2, n)]
        \/ CablePage!Shortened(end) = [near |-> near, segments |-> SubSeq(s, 1, n - 1)]
    <3>1. PICK other : other = [page.path EXCEPT !.segments = SubSeq(s, 1, n - 1)]
        OBVIOUS
    <3>2. CablePage!Shortened(end) = IF end = "Front" THEN [near |-> s[1].far, segments |-> SubSeq(s, 2, n)] ELSE other
        BY <1>0, <1>2, <1>5, <3>1 DEF CablePage!Shortened
    <3> QED BY <1>0, <3>1, <3>2
  <2> QED BY <1>3, <2>1, <2>2, PathMade
<1> QED BY <1>4, <1>5

LEMMA StartedOK ==
    ASSUME NEW d \in World.cable.Duct
    PROVE  PathOK([near |-> CablePage!A(d), segments |-> <<[duct |-> d, far |-> CablePage!Z(d)]>>])
<1> DEFINE first == [duct |-> d, far |-> CablePage!Z(d)]
<1>1. CablePage!A(d) \in World.cable.Schacht /\ CablePage!Z(d) \in World.cable.Schacht
    BY EndsTyped
<1>2. first \in Segment
    BY <1>1 DEF Segment
<1> HIDE DEF first
<1>3. <<first>> \in Seq(Segment) /\ Len(<<first>>) > 0
    BY <1>2
<1>4. PathOK([near |-> CablePage!A(d), segments |-> <<first>>])
    BY <1>1, <1>3, PathMade
<1> QED BY <1>4 DEF first

-----------------------------------------------------------------------------
(* Steps *)

LEMMA PathInit == ASSUME CablePage!Init PROVE PathInv
<1>1. RowsOK
  <2> SUFFICES ASSUME NEW k \in World.cable.Cable, db[k] # NoCable PROVE db[k].ducts \in Seq(World.cable.Duct)
      BY DEF RowsOK
  <2>1. db \in [World.cable.Cable -> CablePage!Row \union {NoCable}]
      BY CableKnown DEF CablePage!Init, CablePage!Known
  <2>2. db[k].ducts \in CablePage!Ducts
      BY <2>1 DEF CablePage!Row
  <2> QED BY <2>2, SeqDef DEF CablePage!Ducts
<1> QED BY <1>1 DEF CablePage!Init, CablePage!Empty, PathInv, StateOK, PathOK

(* The page goes on. *)
LEMMA PathGoesOn ==
    ASSUME PathInv, UNCHANGED db, StateOK(page'.state), PathOK(page'.path),
           \A c \in calls' : c \in calls \/ AboutPath(c)
    PROVE  PathInv'
BY DEF PathInv, RowsOK, StateOK, PathOK, Path, Segment, AboutPath, Shown

(* What is asked names a cable and sends ducts. *)
Asked(k, w) ==
    /\ k = "fetch" => w.id \in World.cable.Cable
    /\ k = "update" => w.id \in World.cable.Cable \union {NewCable}
    /\ k \in {"update", "create"} => w.ducts \in Seq(World.cable.Duct)

LEMMA PathSends ==
    ASSUME NEW k, NEW w, CablePage!Send(CablePage!Request(k, w)), Asked(k, w)
    PROVE  \A c \in calls' : c \in calls \/ AboutPath(c)
<1> DEFINE r == [kind |-> k, what |-> w, answer |-> Unanswered]
<1>1. calls' = calls \union {r}
    BY DEF CablePage!Send, CablePage!Exchange, CablePage!Request
<1>2. AboutPath(r)
    BY DEF AboutPath, Asked
<1> HIDE DEF r
<1> QED BY <1>1, <1>2

(* A call is answered with a path. *)
AnswerOK(c, answer) ==
    \/ answer = Failed
    \/ c.kind \in {"fetch", "update"} /\ (answer = NotFound \/ Shown(answer))
    \/ c.kind = "create" /\ answer.id \in World.cable.Cable
    \/ c.kind \notin {"fetch", "update", "create"}

LEMMA PathReplies ==
    ASSUME PathInv, CableInv, NEW c \in calls, NEW answer, CablePage!Reply(c, answer), UNCHANGED page,
           AnswerOK(c, answer), RowsOK'
    PROVE  PathInv'
<1> DEFINE r == [c EXCEPT !.answer = answer]
<1>1. calls' = (calls \ {c}) \union {r}
    BY DEF CablePage!Reply, CablePage!Exchange
<1>2. DOMAIN c = {"kind", "what", "answer"} /\ AboutPath(c)
    BY DEF CableInv, CableCallOK, PathInv
<1>3. r.kind = c.kind /\ r.what = c.what /\ r.answer = answer
    BY <1>2
<1> HIDE DEF r
<1>4. AboutPath(r)
    BY <1>2, <1>3 DEF AboutPath, AnswerOK
<1>5. \A d \in calls' : d \in calls \/ AboutPath(d)
    BY <1>1, <1>4
<1>6. StateOK(page'.state) /\ PathOK(page'.path) /\ \A d \in calls : AboutPath(d)
    BY DEF PathInv
<1> QED BY <1>5, <1>6 DEF PathInv

(* The page changes nothing of the path. *)
LEMMA PathStays ==
    ASSUME PathInv, UNCHANGED db, page'.state = page.state, page'.path = page.path,
           \A c \in calls' : c \in calls \/ AboutPath(c)
    PROVE  PathInv'
<1>1. StateOK(page'.state) /\ PathOK(page'.path)
    BY DEF PathInv
<1> QED BY <1>1, PathGoesOn

LEMMA PathOpen ==
    ASSUME PathInv, CableInv, NEW k \in World.cable.Cable, CablePage!OpenCable(k)
    PROVE  PathInv'
<1>1. /\ page' = [page EXCEPT !.route = k] /\ UNCHANGED db
      /\ CablePage!Send(CablePage!Request("fetch", [id |-> k]))
    BY DEF CablePage!OpenCable
<1>2. Asked("fetch", [id |-> k])
    BY DEF Asked
<1>3. page'.state = page.state /\ page'.path = page.path
    BY <1>1 DEF CableInv
<1> QED BY <1>1, <1>2, <1>3, PathSends, PathStays

LEMMA PathOpenNew ==
    ASSUME PathInv, CableInv, CablePage!OpenNew
    PROVE  PathInv'
<1> DEFINE b == CablePage!Blank
<1> DEFINE p == [page EXCEPT !.route = NewCable, !.state = b, !.name = b.name,
                             !.bundle_count = b.bundle_count, !.fiber_count = b.fiber_count,
                             !.path = b.path, !.saving = FALSE, !.typed = {}]
<1>1. page' = p /\ UNCHANGED <<db, calls>>
    BY DEF CablePage!OpenNew
<1>2. b.id = NewCable /\ b.path = NoPath
    BY DEF CablePage!Blank
<1> HIDE DEF b
<1>3. p.state = b /\ p.path = b.path
    BY DEF CableInv
<1> HIDE DEF p
<1>4. StateOK(page'.state) /\ PathOK(page'.path)
    BY <1>1, <1>2, <1>3 DEF StateOK, PathOK
<1> QED BY <1>1, <1>4, PathGoesOn

LEMMA PathArrival ==
    ASSUME PathInv, CableInv, NEW c \in calls, CablePage!Arrival(c)
    PROVE  PathInv'
<1>0. /\ DOMAIN page = {"route", "state", "name", "bundle_count", "fiber_count", "path", "saving", "dialog", "typed"}
      /\ AboutPath(c)
    BY DEF CableInv, PathInv
<1>1. CASE CablePage!DataArrives(c)
  <2> DEFINE data == c.answer
  <2> DEFINE p == [page EXCEPT !.name = data.name, !.bundle_count = data.bundle_count,
                               !.fiber_count = data.fiber_count, !.path = data.path,
                               !.state = data, !.saving = FALSE, !.typed = {}]
  <2>1. page' = p /\ UNCHANGED db /\ \A d \in calls' : d \in calls
      BY <1>1, CableArrives DEF CablePage!DataArrives, CablePage!Show
  <2>2. p.state = data /\ p.path = data.path
      BY <1>0
  <2>3. Shown(data)
      BY <1>0, <1>1 DEF AboutPath, CablePage!DataArrives, CablePage!Answered
  <2> HIDE DEF p, data
  <2>4. StateOK(page'.state) /\ PathOK(page'.path)
      BY <2>1, <2>2, <2>3 DEF StateOK, Shown
  <2> QED BY <2>1, <2>4, PathGoesOn
<1>2. CASE CablePage!ErrorArrives(c)
  <2> DEFINE p == [page EXCEPT !.state = Failed]
  <2>1. page' = p /\ UNCHANGED db /\ \A d \in calls' : d \in calls
      BY <1>2, CableArrives DEF CablePage!ErrorArrives
  <2>2. p.state = Failed /\ p.path = page.path
      BY <1>0
  <2> HIDE DEF p
  <2>3. StateOK(page'.state) /\ PathOK(page'.path)
      BY <2>1, <2>2 DEF StateOK, PathInv
  <2> QED BY <2>1, <2>3, PathGoesOn
<1>3. CASE CablePage!SaveFailed(c)
  <2>1. page' = [page EXCEPT !.saving = FALSE] /\ UNCHANGED db /\ \A d \in calls' : d \in calls
      BY <1>3, CableArrives DEF CablePage!SaveFailed
  <2>2. page'.state = page.state /\ page'.path = page.path
      BY <1>0, <2>1
  <2> QED BY <2>1, <2>2, PathStays
<1>4. CASE CablePage!Created(c)
  <2>1. c.answer.id \in World.cable.Cable
      BY <1>0, <1>4 DEF CablePage!Created, CablePage!Answered, AboutPath
  <2> DEFINE r == [kind |-> "fetch", what |-> [id |-> c.answer.id], answer |-> Unanswered]
  <2>2. page' = [page EXCEPT !.route = c.answer.id] /\ UNCHANGED db /\ calls' \subseteq calls \union {r}
      BY <1>4 DEF CablePage!Created, CablePage!Arrived, CablePage!Exchange, CablePage!Request
  <2>3. AboutPath(r)
      BY <2>1 DEF AboutPath
  <2> HIDE DEF r
  <2>4. page'.state = page.state /\ page'.path = page.path
      BY <1>0, <2>2
  <2> QED BY <2>2, <2>3, <2>4, PathStays
<1>5. CASE CablePage!OfferDucts(c)
  <2>1. /\ page' = page \/ page' = [page EXCEPT !.dialog = c.answer]
        /\ UNCHANGED db /\ \A d \in calls' : d \in calls
      BY <1>5, CableArrives DEF CablePage!OfferDucts
  <2>2. page'.state = page.state /\ page'.path = page.path
      BY <1>0, <2>1
  <2> QED BY <2>1, <2>2, PathStays
<1>6. CASE CablePage!Deleted(c)
  <2>1. (page' = page \/ page' = CablePage!Empty) /\ UNCHANGED db /\ \A d \in calls' : d \in calls
      BY <1>6, CableArrives DEF CablePage!Deleted
  <2>2. StateOK(CablePage!Empty.state) /\ PathOK(CablePage!Empty.path)
      BY DEF CablePage!Empty, StateOK, PathOK
  <2>3. StateOK(page'.state) /\ PathOK(page'.path)
      BY <2>1, <2>2 DEF PathInv
  <2> QED BY <2>1, <2>3, PathGoesOn
<1> QED BY <1>1, <1>2, <1>3, <1>4, <1>5, <1>6 DEF CablePage!Arrival

LEMMA PathTyped ==
    ASSUME PathInv, CableInv, NEW path, CablePage!SetPath(path), UNCHANGED <<db, calls>>, PathOK(path)
    PROVE  PathInv'
<1>1. page' = [page EXCEPT !.path = path, !.typed = page.typed \union {"path"}, !.dialog = NoDialog]
    BY DEF CablePage!SetPath
<1>2. page'.state = page.state /\ page'.path = path
    BY <1>1 DEF CableInv
<1>3. StateOK(page'.state) /\ PathOK(page'.path)
    BY <1>2 DEF PathInv
<1> QED BY <1>3, PathGoesOn

LEMMA PathInput ==
    ASSUME PathInv, CableInv, CablePage!Typing \/ CablePage!Answering
    PROVE  PathInv'
<1>0. /\ DOMAIN page = {"route", "state", "name", "bundle_count", "fiber_count", "path", "saving", "dialog", "typed"}
      /\ PathOK(page.path) /\ StateOK(page.state)
    BY DEF CableInv, PathInv
<1>1. ASSUME UNCHANGED <<db, calls>>,
             \/ page' = page
             \/ \E d : page' = [page EXCEPT !.dialog = d]
             \/ \E n, u : page' = [page EXCEPT !.name = n, !.typed = u]
             \/ \E n, u : page' = [page EXCEPT !.bundle_count = n, !.typed = u]
             \/ \E n, u : page' = [page EXCEPT !.fiber_count = n, !.typed = u]
      PROVE  PathInv'
  <2>1. page'.state = page.state /\ page'.path = page.path
      BY <1>0, <1>1
  <2> QED BY <1>1, <2>1, PathStays
<1>2. CASE CablePage!SetName
    BY <1>1, <1>2 DEF CablePage!SetName, CablePage!Editing
<1>3. CASE CablePage!SetBundleCount \/ CablePage!SetFiberCount
    BY <1>1, <1>3 DEF CablePage!SetBundleCount, CablePage!SetFiberCount, CablePage!Editing
<1>4. ASSUME NEW d \in World.cable.Duct, CablePage!StartPath(d) PROVE PathInv'
    BY <1>4, StartedOK, PathTyped DEF CablePage!StartPath, CablePage!Editing
<1>5. ASSUME NEW d \in World.cable.Duct, CablePage!ClickDuct(d) PROVE PathInv'
  <2>1. page.path \in Path /\ UNCHANGED <<db, calls>>
      BY <1>0, <1>5 DEF CablePage!ClickDuct, CablePage!Editing, PathOK
  <2>2. \E end, s : CablePage!SetPath(CablePage!Appended(end, d, CablePage!OtherEnd(d, s)))
      BY <1>5 DEF CablePage!ClickDuct
  <2> QED BY <2>1, <2>2, EndsTyped, AppendedOK, PathTyped
<1>6. ASSUME NEW end, CablePage!RemoveSegment(end) PROVE PathInv'
  <2>1. page.path \in Path /\ UNCHANGED <<db, calls>> /\ CablePage!SetPath(CablePage!Shortened(end))
      BY <1>0, <1>6 DEF CablePage!RemoveSegment, CablePage!Editing, PathOK
  <2> QED BY <2>1, ShortenedOK, PathTyped
<1>7. ASSUME NEW end, CablePage!AskDucts(end) PROVE PathInv'
  <2>1. UNCHANGED <<db, page>> /\ \E w : CablePage!Send(CablePage!Request("ducts", w))
      BY <1>7 DEF CablePage!AskDucts, CablePage!Editing
  <2>2. \A w : Asked("ducts", w)
      BY DEF Asked
  <2> QED BY <2>1, <2>2, PathSends, PathStays
<1>8. ASSUME NEW d \in World.cable.Duct, CablePage!ChooseDuct(d) PROVE PathInv'
  <2>1. UNCHANGED <<db, calls>>
      BY <1>8 DEF CablePage!ChooseDuct
  <2>2. CASE page.path = NoPath
      BY <1>1, <1>8, <2>1, <2>2 DEF CablePage!ChooseDuct
  <2>3. CASE page.path # NoPath
    <3>1. page.path \in Path
        BY <1>0, <2>3 DEF PathOK
    <3>2. \E end, s : CablePage!SetPath(CablePage!Appended(end, d, CablePage!OtherEnd(d, s)))
        BY <1>8, <2>3 DEF CablePage!ChooseDuct
    <3> QED BY <2>1, <3>1, <3>2, EndsTyped, AppendedOK, PathTyped
  <2> QED BY <2>2, <2>3
<1>9. CASE CablePage!RemoveEntry
  <2>1. /\ page' = [page EXCEPT !.dialog = NoDialog] /\ UNCHANGED db
        /\ UNCHANGED calls \/ \E w : CablePage!Send(CablePage!Request("delete", w))
      BY <1>9 DEF CablePage!RemoveEntry
  <2>2. page'.state = page.state /\ page'.path = page.path
      BY <1>0, <2>1
  <2>3. \A w : Asked("delete", w)
      BY DEF Asked
  <2>4. \A c \in calls' : c \in calls \/ AboutPath(c)
      BY <2>1, <2>3, PathSends
  <2> QED BY <2>1, <2>2, <2>4, PathStays
<1>10. CASE CablePage!AskDelete \/ CablePage!Cancel
    BY <1>1, <1>10 DEF CablePage!AskDelete, CablePage!Cancel
<1> QED BY <1>2, <1>3, <1>4, <1>5, <1>6, <1>7, <1>8, <1>9, <1>10 DEF CablePage!Typing, CablePage!Answering

LEMMA PathSave ==
    ASSUME PathInv, CableInv, CablePage!Save
    PROVE  PathInv'
<1> DEFINE ducts == CablePage!DuctSequence(page.path)
<1> DEFINE w == [id |-> page.state.id, fields |-> CablePage!Changed, typed |-> page.typed,
                 loaded |-> [bundle_count |-> page.state.bundle_count, fiber_count |-> page.state.fiber_count],
                 name |-> page.name, bundle_count |-> page.bundle_count, fiber_count |-> page.fiber_count,
                 ducts |-> ducts]
<1>1. /\ page' = [page EXCEPT !.saving = TRUE] /\ UNCHANGED db
      /\ \E k \in {"create", "update"} : CablePage!Send(CablePage!Request(k, w))
    BY DEF CablePage!Save, CablePage!CreateCable, CablePage!UpdateCable, CablePage!Sent
<1>2. ducts \in Seq(World.cable.Duct)
    BY DuctsTyped DEF PathInv
<1> HIDE DEF ducts
<1>3. page.state.id \in World.cable.Cable \union {NewCable}
    BY DEF PathInv, StateOK, CablePage!Save, CablePage!Ready, CablePage!Loaded
<1>4. w.id \in World.cable.Cable \union {NewCable} /\ w.ducts \in Seq(World.cable.Duct)
    BY <1>2, <1>3
<1> HIDE DEF w
<1>5. \A c \in calls' : c \in calls \/ AboutPath(c)
  <2>1. \A k \in {"create", "update"} : Asked(k, w)
      BY <1>4 DEF Asked
  <2> QED BY <1>1, <2>1, PathSends
<1>6. page'.state = page.state /\ page'.path = page.path
    BY <1>1 DEF CableInv
<1> QED BY <1>1, <1>5, <1>6, PathStays

LEMMA PathServe ==
    ASSUME PathInv, CableInv, NEW c \in calls, CablePage!Serve(c)
    PROVE  PathInv'
<1>0. /\ AboutPath(c) /\ RowsOK /\ CableRowsJoin
      /\ DOMAIN db = World.cable.Cable
    BY DEF PathInv, CableInv
<1>1. ASSUME NEW k \in World.cable.Cable, NEW row, row.ducts \in Seq(World.cable.Duct), CablePage!Alignable(row.ducts)
      PROVE  Shown(CablePage!Details(k, row))
  <2>1. PathOK(CablePage!PathFromDucts(row.ducts))
      BY <1>1, RebuiltTyped
  <2>2. CablePage!Details(k, row).id = k /\ CablePage!Details(k, row).path = CablePage!PathFromDucts(row.ducts)
      BY DEF CablePage!Details
  <2> QED BY <2>1, <2>2 DEF Shown
<1>2. ASSUME NEW k, NEW row, row.ducts \in Seq(World.cable.Duct), db' = [db EXCEPT ![k] = row]
      PROVE  RowsOK'
    BY <1>0, <1>2 DEF RowsOK
<1>3. CASE CablePage!ServeFetch(c)
  <2>1. /\ c.kind = "fetch" /\ UNCHANGED <<db, page>>
        /\ CablePage!Reply(c, IF db[c.what.id] = NoCable THEN NotFound
                             ELSE IF CablePage!Alignable(db[c.what.id].ducts) THEN CablePage!Details(c.what.id, db[c.what.id])
                             ELSE Failed)
      BY <1>3 DEF CablePage!ServeFetch, CablePage!Waiting
  <2>2. PICK answer : /\ CablePage!Reply(c, answer)
                      /\ \/ answer \in {NotFound, Failed}
                         \/ /\ db[c.what.id] # NoCable /\ CablePage!Alignable(db[c.what.id].ducts)
                            /\ answer = CablePage!Details(c.what.id, db[c.what.id])
      BY <2>1
  <2>3. c.what.id \in World.cable.Cable
      BY <1>0, <2>1 DEF AboutPath
  <2>4. answer \in {NotFound, Failed} \/ Shown(answer)
      BY <1>0, <1>1, <2>2, <2>3 DEF RowsOK
  <2>5. AnswerOK(c, answer)
      BY <2>1, <2>4 DEF AnswerOK
  <2>6. RowsOK'
      BY <1>0, <2>1 DEF RowsOK
  <2> QED BY <2>1, <2>2, <2>5, <2>6, PathReplies
<1>4. CASE CablePage!ServeUpdate(c)
  <2> DEFINE w == c.what
             row == IF w.id = NewCable THEN NoCable ELSE db[w.id]
             name == IF "name" \in w.fields THEN w.name ELSE row.name
             bundles == IF "fibers" \in w.fields THEN w.bundle_count ELSE row.bundle_count
             fibers == IF "fibers" \in w.fields THEN w.fiber_count ELSE row.fiber_count
             ducts == IF "path" \in w.fields THEN w.ducts ELSE row.ducts
             updated == [name |-> name, bundle_count |-> bundles, fiber_count |-> fibers, ducts |-> ducts]
  <2>1. /\ c.kind = "update" /\ UNCHANGED page
        /\ \/ row = NoCable /\ CablePage!Reply(c, NotFound) /\ UNCHANGED db
           \/ CablePage!Reply(c, Failed) /\ UNCHANGED db
           \/ /\ row # NoCable /\ CablePage!Accepted(updated.ducts)
              /\ CablePage!Reply(c, CablePage!Details(w.id, updated)) /\ db' = [db EXCEPT ![w.id] = updated]
      BY <1>4 DEF CablePage!ServeUpdate, CablePage!Waiting
  <2>2. w.id \in World.cable.Cable \union {NewCable} /\ w.ducts \in Seq(World.cable.Duct)
      BY <1>0, <2>1 DEF AboutPath
  <2>3. row # NoCable => w.id \in World.cable.Cable /\ row = db[w.id]
      BY <2>2
  <2>4. row # NoCable => ducts \in Seq(World.cable.Duct)
      BY <1>0, <2>2, <2>3 DEF RowsOK
  <2>5. updated.ducts = ducts
      OBVIOUS
  <2> HIDE DEF row, updated, ducts
  <2>6. CASE UNCHANGED db
    <3>1. RowsOK'
        BY <1>0, <2>6 DEF RowsOK
    <3>2. ASSUME NEW answer, CablePage!Reply(c, answer), answer \in {NotFound, Failed} \/ Shown(answer) PROVE PathInv'
      <4>1. AnswerOK(c, answer)
          BY <2>1, <3>2 DEF AnswerOK
      <4> QED BY <2>1, <3>1, <3>2, <4>1, PathReplies
    <3>3. CASE CablePage!Reply(c, NotFound) \/ CablePage!Reply(c, Failed)
        BY <3>2, <3>3
    <3>4. CASE row # NoCable /\ CablePage!Accepted(updated.ducts) /\ CablePage!Reply(c, CablePage!Details(w.id, updated))
      <4>1. Shown(CablePage!Details(w.id, updated))
          BY <1>1, <2>3, <2>4, <2>5, <3>4 DEF CablePage!Accepted
      <4> QED BY <3>2, <3>4, <4>1
    <3> QED BY <2>1, <3>3, <3>4
  <2>7. CASE /\ row # NoCable /\ CablePage!Accepted(updated.ducts)
             /\ CablePage!Reply(c, CablePage!Details(w.id, updated)) /\ db' = [db EXCEPT ![w.id] = updated]
    <3>1. Shown(CablePage!Details(w.id, updated))
        BY <1>1, <2>3, <2>4, <2>5, <2>7 DEF CablePage!Accepted
    <3>2. RowsOK'
        BY <1>2, <2>4, <2>5, <2>7
    <3>3. AnswerOK(c, CablePage!Details(w.id, updated))
        BY <2>1, <3>1 DEF AnswerOK
    <3> QED BY <2>1, <2>7, <3>2, <3>3, PathReplies
  <2> QED BY <2>1, <2>6, <2>7
<1>5. CASE CablePage!ServeCreate(c)
  <2> DEFINE row == [name |-> c.what.name, bundle_count |-> c.what.bundle_count, fiber_count |-> c.what.fiber_count,
                 ducts |-> c.what.ducts]
  <2>1. /\ c.kind = "create" /\ UNCHANGED page
        /\ \/ CablePage!Reply(c, Failed) /\ UNCHANGED db
           \/ \E k \in World.cable.Cable :
                 CablePage!Reply(c, CablePage!Details(k, row)) /\ db' = [db EXCEPT ![k] = row]
      BY <1>5 DEF CablePage!ServeCreate, CablePage!Waiting
  <2>2. row.ducts \in Seq(World.cable.Duct)
      BY <1>0, <2>1 DEF AboutPath
  <2> HIDE DEF row
  <2>3. CASE CablePage!Reply(c, Failed) /\ UNCHANGED db
    <3>1. RowsOK' /\ AnswerOK(c, Failed)
        BY <1>0, <2>3 DEF RowsOK, AnswerOK
    <3> QED BY <2>1, <2>3, <3>1, PathReplies
  <2>4. ASSUME NEW k \in World.cable.Cable, CablePage!Reply(c, CablePage!Details(k, row)), db' = [db EXCEPT ![k] = row]
        PROVE  PathInv'
    <3>1. RowsOK'
        BY <1>2, <2>2, <2>4
    <3>2. CablePage!Details(k, row).id = k
        BY DEF CablePage!Details
    <3>3. AnswerOK(c, CablePage!Details(k, row))
        BY <2>1, <3>2 DEF AnswerOK
    <3> QED BY <2>1, <2>4, <3>1, <3>3, PathReplies
  <2> QED BY <2>1, <2>3, <2>4
<1>6. CASE CablePage!ServeDucts(c)
  <2>1. UNCHANGED <<db, page>> /\ CablePage!Reply(c, c.what) /\ c.kind = "ducts"
      BY <1>6 DEF CablePage!ServeDucts, CablePage!Waiting
  <2>2. RowsOK' /\ AnswerOK(c, c.what)
      BY <1>0, <2>1 DEF RowsOK, AnswerOK
  <2> QED BY <2>1, <2>2, PathReplies
<1>7. CASE CablePage!ServeDelete(c)
  <2>1. /\ db' = [id \in World.cable.Cable |-> IF id = c.what.id THEN NoCable ELSE db[id]]
        /\ CablePage!Reply(c, TRUE) /\ UNCHANGED page /\ c.kind = "delete"
      BY <1>7 DEF CablePage!ServeDelete, CablePage!Waiting
  <2>2. RowsOK' /\ AnswerOK(c, TRUE)
      BY <1>0, <2>1 DEF RowsOK, AnswerOK
  <2> QED BY <2>1, <2>2, PathReplies
<1> QED BY <1>3, <1>4, <1>5, <1>6, <1>7 DEF CablePage!Serve

LEMMA PathStep ==
    ASSUME PathInv, CableInv, [CablePage!Next]_<<db, page, calls, spent>>
    PROVE  PathInv'
<1>1. CASE UNCHANGED <<db, page, calls, spent>>
    BY <1>1, PathStays
<1>2. CASE CablePage!Refuse
  <2>1. PICK c \in calls : CablePage!Reply(c, Failed) /\ UNCHANGED <<db, page>>
      BY <1>2 DEF CablePage!Refuse
  <2>2. RowsOK' /\ AnswerOK(c, Failed)
      BY <2>1 DEF PathInv, RowsOK, AnswerOK
  <2> QED BY <2>1, <2>2, PathReplies
<1>3. CASE CablePage!Forget
  <2>1. (\A c \in calls' : c \in calls) /\ UNCHANGED <<db, page>>
      BY <1>3, CableArrives DEF CablePage!Forget
  <2> QED BY <2>1, PathStays
<1> QED BY <1>1, <1>2, <1>3, PathOpen, PathOpenNew, PathInput, PathSave, PathArrival, PathServe
    DEF CablePage!Next

-----------------------------------------------------------------------------
(* The path of the page of a cable, among the others. *)
PathKept == kind = "cable" => PathInv

LEMMA PathAlways == Spec => []PathKept
<1>1. Init => PathKept
    BY PathInit DEF Init, PathKept
<1>2. CableKept /\ PathKept /\ [Next]_vars => PathKept'
  <2> SUFFICES ASSUME CableKept, PathKept, [Next]_vars, kind = "cable" PROVE PathInv'
      BY DEF PathKept, Next, vars
  <2>1. [CablePage!Next]_<<db, page, calls, spent>>
      BY DEF Next, vars
  <2> QED BY <2>1, PathStep DEF PathKept, CableKept
<1> QED BY <1>1, <1>2, CableAlways, PTL DEF Spec

(* A path whose segments join and which passes no manhole twice is the one *)
(* the backend rebuilds of its ducts, however long it is: the second duct  *)
(* tells where the first begins, and each other where the one before ends. *)
THEOREM BuiltIsRebuilt == Spec => []WhatIsBuiltAligns
<1>1. PathKept => WhatIsBuiltAligns
  <2> SUFFICES ASSUME PathInv, page.path # NoPath, CablePage!Joined(page.path), CablePage!Simple(page.path)
               PROVE  LET ducts == CablePage!DuctSequence(page.path)
                      IN  /\ CablePage!Alignable(ducts)
                          /\ \/ CablePage!PathFromDucts(ducts) = page.path
                             \/ Len(ducts) = 1 /\ CablePage!PathFromDucts(ducts) = CablePage!Reverse(page.path)
      BY DEF PathKept, WhatIsBuiltAligns, CablePage!WhatIsBuiltAligns
  <2>1. PICK path \in Path : path = page.path
      BY DEF PathInv, PathOK
  <2> QED BY <2>1, BuiltAligns
<1> QED BY <1>1, PathAlways, PTL


-----------------------------------------------------------------------------
(* The page of a duct *)

(* The state of the page and of its requests. *)
DuctFields ==
    {"route", "loaded", "a", "z", "rest", "file", "check", "confirmed", "saving", "touched", "dialog"}
DuctRowOK(r) ==
    /\ DOMAIN r = {"a", "z", "rest", "line", "cables"}
    /\ r.a \in World.duct.Schacht /\ r.z \in World.duct.Schacht /\ r.rest \in World.duct.Rest
DuctShape(p) ==
    /\ DOMAIN p = DuctFields
    /\ p.route \in World.duct.Duct \union {NewDuct, Closed}
    /\ p.loaded \in {Pending, Failed, NoDuct} \/ DuctRowOK(p.loaded.row)
    /\ {p.a, p.z} \subseteq World.duct.Schacht \union {NoSchacht} /\ p.rest \in World.duct.Rest
    /\ p.file \in World.duct.Lines \union {NoFile}

(* The course is the preview of its line, confirmed if that is far.        *)
CourseOK(course) ==
    course.line # NoFile =>
        /\ course.preview = DuctPage!FitAt(course.line, course.ends.a, course.ends.z)
        /\ course.preview.far => course.confirmed
CheckOK(c) ==
    /\ DOMAIN c.what = {"a", "z", "line", "last"}
    /\ {c.what.a, c.what.z} \subseteq World.duct.Schacht /\ c.what.line \in World.duct.Lines
    /\ c.answer \notin {Unanswered, Failed} =>
           /\ c.answer = DuctPage!FitAt(c.what.line, c.what.a, c.what.z)
           /\ c.answer # NoFit
DuctCallOK(c) ==
    /\ DOMAIN c = {"kind", "what", "answer"}
    /\ c.kind = "fetch" =>
           /\ c.what.id \in World.duct.Duct \union {NewDuct}
           /\ c.answer \in {Unanswered, Failed, NoDuct} \/ DuctRowOK(c.answer.row)
    /\ c.kind = "check" => CheckOK(c)
    /\ c.kind = "create" =>
           /\ CourseOK(c.what.course) /\ c.what.input.rest \in World.duct.Rest
           /\ {c.what.input.a, c.what.input.z} \subseteq World.duct.Schacht
    /\ c.kind = "update" =>
           c.what.rest \in World.duct.Rest /\ {c.what.a, c.what.z} \subseteq World.duct.Schacht
    /\ c.kind = "line" => CourseOK(c.what)

(* While a line is loaded, it decides what was checked and what the last   *)
(* check is about.                                                         *)
HasLine(p) == p.loaded \notin {Pending, Failed} /\ p.file # NoFile
CheckIsOfLine(p) ==
    HasLine(p) /\ p.check \notin {NoCheck, Checking, Failed} =>
        p.check = DuctPage!FitAt(p.file, DuctPage!Ends(p).a, DuctPage!Ends(p).z)
LastIsOfLine(p, c) ==
    HasLine(p) /\ c.kind = "check" /\ c.what.last =>
        c.what.line = p.file /\ c.what.a = DuctPage!Ends(p).a /\ c.what.z = DuctPage!Ends(p).z

DuctInv ==
    /\ DOMAIN db = World.duct.Duct
    /\ \A d \in World.duct.Duct : db[d] = NoDuct \/ DuctRowOK(db[d])
    /\ DuctShape(page) /\ CheckIsOfLine(page)
    /\ \A c \in calls : DuctCallOK(c) /\ LastIsOfLine(page, c)

(* Checks are outdated, and stay what they were asked for.                 *)
LEMMA DuctOutdated ==
    ASSUME NEW cs, \A c \in cs : DuctCallOK(c)
    PROVE  \A c \in DuctPage!Outdated(cs) : DuctCallOK(c) /\ ~ (c.kind = "check" /\ c.what.last)
<1>1. ASSUME NEW c \in cs, c.kind = "check"
      PROVE  LET o == [c EXCEPT !.what.last = FALSE] IN DuctCallOK(o) /\ ~ o.what.last
  <2> DEFINE w == [c.what EXCEPT !.last = FALSE]
  <2> DEFINE o == [c EXCEPT !.what = w]
  <2>1. DOMAIN c = {"kind", "what", "answer"} /\ CheckOK(c)
      BY <1>1 DEF DuctCallOK
  <2>2. /\ DOMAIN w = {"a", "z", "line", "last"} /\ w.last = FALSE
        /\ w.a = c.what.a /\ w.z = c.what.z /\ w.line = c.what.line
      BY <2>1 DEF CheckOK
  <2> HIDE DEF w
  <2>3. DOMAIN o = {"kind", "what", "answer"} /\ o.kind = c.kind /\ o.what = w /\ o.answer = c.answer
      BY <2>1
  <2> HIDE DEF o
  <2>4. DuctCallOK(o) /\ ~ o.what.last
      BY <1>1, <2>1, <2>2, <2>3 DEF DuctCallOK, CheckOK
  <2> QED BY <2>4 DEF o, w
<1> QED BY <1>1 DEF DuctPage!Outdated

(* A line is checked anew: no check before counts any longer.              *)
LEMMA DuctRechecks ==
    ASSUME DuctInv, NEW p, DuctShape(p), NEW done, DuctPage!Recheck(p, done), UNCHANGED db
    PROVE  DuctInv'
<1> DEFINE ends == DuctPage!Ends(p)
<1> DEFINE none == p.file = NoFile \/ NoSchacht \in {ends.a, ends.z}
<1> DEFINE w == [a |-> ends.a, z |-> ends.z, line |-> p.file, last |-> TRUE]
<1> DEFINE r == DuctPage!Request("check", w)
<1>1. PICK check \in {NoCheck, Checking, Failed} :
        page' = [p EXCEPT !.confirmed = FALSE, !.check = check]
    BY DEF DuctPage!Recheck
<1>2. \/ calls' = DuctPage!Outdated(calls \ done)
      \/ ~ none /\ calls' = DuctPage!Outdated(calls \ done) \union {r}
  <2> DEFINE sent == IF none \/ ends.a = ends.z THEN {} ELSE {r}
  <2>1. calls' = DuctPage!Outdated(calls \ done) \union sent
      BY DEF DuctPage!Recheck
  <2> HIDE DEF r, none, ends
  <2> QED BY <2>1
<1>3. \A c \in DuctPage!Outdated(calls \ done) : DuctCallOK(c) /\ ~ (c.kind = "check" /\ c.what.last)
    BY DuctOutdated DEF DuctInv
<1>4. /\ DOMAIN page' = DuctFields /\ page'.check \in {NoCheck, Checking, Failed}
      /\ page'.route = p.route /\ page'.loaded = p.loaded /\ page'.a = p.a /\ page'.z = p.z
      /\ page'.rest = p.rest /\ page'.file = p.file
    BY <1>1 DEF DuctShape, DuctFields
<1>5. DuctShape(page') /\ CheckIsOfLine(page') /\ DuctPage!Ends(page') = ends
    BY <1>4 DEF DuctShape, CheckIsOfLine, DuctPage!Ends, DuctPage!StoredRow
<1>6. ~ none => DuctCallOK(r) /\ LastIsOfLine(page', r)
  <2> SUFFICES ASSUME ~ none PROVE DuctCallOK(r) /\ LastIsOfLine(page', r)
      OBVIOUS
  <2>1. {ends.a, ends.z} \subseteq World.duct.Schacht /\ p.file \in World.duct.Lines
      BY DEF DuctShape, DuctPage!Ends, DuctPage!StoredRow, DuctRowOK
  <2>2. w.a = ends.a /\ w.z = ends.z /\ w.line = p.file /\ DOMAIN w = {"a", "z", "line", "last"}
      OBVIOUS
  <2>3. r.what = w /\ r.kind = "check" /\ r.answer = Unanswered /\ DOMAIN r = {"kind", "what", "answer"}
      BY DEF DuctPage!Request
  <2> HIDE DEF r, w
  <2> QED BY <1>4, <1>5, <2>1, <2>2, <2>3 DEF DuctCallOK, CheckOK, LastIsOfLine
<1> HIDE DEF r, none
<1>7. \A c \in calls' : DuctCallOK(c) /\ LastIsOfLine(page', c)
    BY <1>2, <1>3, <1>6 DEF LastIsOfLine
<1> QED BY <1>5, <1>7 DEF DuctInv

(* The page goes on with the same line, loaded object and manholes.        *)
LEMMA DuctGoesOn ==
    ASSUME DuctInv, DuctShape(page'),
           HasLine(page') => /\ HasLine(page) /\ page'.file = page.file
                             /\ DuctPage!Ends(page') = DuctPage!Ends(page)
                             /\ page'.check = page.check,
           UNCHANGED db, \A c \in calls' : c \in calls \/ (DuctCallOK(c) /\ c.kind # "check")
    PROVE  DuctInv'
<1>1. CheckIsOfLine(page')
    BY DEF DuctInv, CheckIsOfLine
<1>2. \A c \in calls' : DuctCallOK(c) /\ LastIsOfLine(page', c)
    BY DEF DuctInv, LastIsOfLine
<1> QED BY <1>1, <1>2 DEF DuctInv

LEMMA DuctInit == ASSUME DuctPage!Init PROVE DuctInv
<1>1. DOMAIN db = World.duct.Duct /\ \A d \in World.duct.Duct : db[d] = NoDuct \/ DuctRowOK(db[d])
  <2>1. db \in [World.duct.Duct -> DuctPage!Row \union {NoDuct}]
      BY DuctKnown DEF DuctPage!Init, DuctPage!Known
  <2>2. \A r \in DuctPage!Row : DuctRowOK(r)
      BY DEF DuctPage!Row, DuctRowOK
  <2> QED BY <2>1, <2>2
<1>2. DuctShape(page) /\ CheckIsOfLine(page)
    BY DuctKnown DEF DuctPage!Init, DuctPage!Empty, DuctPage!Known, DuctShape, DuctFields, CheckIsOfLine, HasLine
<1> QED BY <1>1, <1>2 DEF DuctInv, DuctPage!Init

LEMMA DuctSends ==
    ASSUME NEW k, NEW w, DuctPage!Send(DuctPage!Request(k, w))
    PROVE  calls' = calls \union {[kind |-> k, what |-> w, answer |-> Unanswered]}
BY DEF DuctPage!Send, DuctPage!Exchange, DuctPage!Request

LEMMA DuctArrives ==
    ASSUME NEW c, DuctPage!Arrived(c)
    PROVE  calls' = calls \ {c}
BY DEF DuctPage!Arrived, DuctPage!Exchange

(* create, changed *)
LEMMA DuctOpen ==
    ASSUME DuctInv, NEW route \in World.duct.Duct \union {NewDuct}, DuctPage!Open(route)
    PROVE  DuctInv'
<1>1. DOMAIN page = DuctFields
    BY DEF DuctInv, DuctShape
<1>2. page' = [page EXCEPT !.route = route, !.loaded = Pending, !.file = NoFile, !.check = NoCheck]
      /\ UNCHANGED db
    BY DEF DuctPage!Open
<1>3. /\ DOMAIN page' = DuctFields /\ page'.route = route /\ page'.loaded = Pending /\ page'.file = NoFile
      /\ page'.a = page.a /\ page'.z = page.z /\ page'.rest = page.rest
    BY <1>1, <1>2 DEF DuctFields
<1>4. DuctShape(page') /\ ~ HasLine(page')
    BY <1>3 DEF DuctInv, DuctShape, HasLine
<1> DEFINE r == [kind |-> "fetch", what |-> [id |-> route], answer |-> Unanswered]
<1>5. calls' = calls \union {r}
    BY DuctSends DEF DuctPage!Open
<1>6. DuctCallOK(r) /\ r.kind # "check"
    BY DEF DuctCallOK
<1> HIDE DEF r
<1>7. \A c \in calls' : c \in calls \/ (DuctCallOK(c) /\ c.kind # "check")
    BY <1>5, <1>6
<1> QED BY <1>2, <1>4, <1>7, DuctGoesOn

(* Msg::Loaded, Msg::LoadError *)
LEMMA DuctLoaded ==
    ASSUME DuctInv, NEW c \in calls, DuctPage!Loaded(c)
    PROVE  DuctInv'
<1>1. DOMAIN page = DuctFields /\ DuctShape(page) /\ DuctCallOK(c) /\ c.kind = "fetch" /\ c.answer # Unanswered
      /\ UNCHANGED db
    BY DEF DuctInv, DuctShape, DuctPage!Loaded, DuctPage!Answered
<1>2. CASE c.answer = Failed
  <2>1. page' = [page EXCEPT !.loaded = Failed] /\ calls' = calls \ {c}
      BY <1>2, DuctArrives DEF DuctPage!Loaded
  <2>2. /\ DOMAIN page' = DuctFields /\ page'.loaded = Failed /\ page'.route = page.route /\ page'.a = page.a
        /\ page'.z = page.z /\ page'.rest = page.rest /\ page'.file = page.file
      BY <1>1, <2>1 DEF DuctFields
  <2>3. DuctShape(page') /\ ~ HasLine(page')
      BY <1>1, <2>2 DEF DuctShape, HasLine
  <2> QED BY <1>1, <2>1, <2>3, DuctGoesOn
<1>3. CASE c.answer = NoDuct /\ c.answer # Failed
  <2> DEFINE p == [page EXCEPT !.loaded = NoDuct, !.a = NoSchacht, !.z = NoSchacht,
                               !.rest = World.duct.DefaultRest]
  <2>1. DuctPage!Recheck(p, {c})
      BY <1>3 DEF DuctPage!Loaded
  <2>2. /\ DOMAIN p = DuctFields /\ p.loaded = NoDuct /\ p.route = page.route /\ p.a = NoSchacht
        /\ p.z = NoSchacht /\ p.rest = World.duct.DefaultRest /\ p.file = page.file
      BY <1>1 DEF DuctFields
  <2> HIDE DEF p
  <2>3. DuctShape(p)
      BY <1>1, <2>2, DuctKnown DEF DuctShape, DuctPage!Known
  <2> QED BY <1>1, <2>1, <2>3, DuctRechecks
<1>4. CASE c.answer # NoDuct /\ c.answer # Failed
  <2> DEFINE p == [page EXCEPT !.loaded = c.answer, !.a = c.answer.row.a, !.z = c.answer.row.z,
                               !.rest = c.answer.row.rest]
  <2>1. DuctPage!Recheck(p, {c})
      BY <1>4 DEF DuctPage!Loaded
  <2>2. /\ DOMAIN p = DuctFields /\ p.loaded = c.answer /\ p.route = page.route /\ p.a = c.answer.row.a
        /\ p.z = c.answer.row.z /\ p.rest = c.answer.row.rest /\ p.file = page.file
      BY <1>1 DEF DuctFields
  <2> HIDE DEF p
  <2>3. DuctRowOK(c.answer.row)
      BY <1>1, <1>4 DEF DuctCallOK
  <2>4. DuctShape(p)
      BY <1>1, <2>2, <2>3 DEF DuctShape, DuctRowOK
  <2> QED BY <1>1, <2>1, <2>4, DuctRechecks
<1> QED BY <1>2, <1>3, <1>4

(* Msg::Checked *)
LEMMA DuctChecked ==
    ASSUME DuctInv, NEW c \in calls, DuctPage!CheckedArrives(c)
    PROVE  DuctInv'
<1>1. /\ DOMAIN page = DuctFields /\ DuctShape(page) /\ DuctCallOK(c) /\ LastIsOfLine(page, c)
      /\ c.kind = "check" /\ c.answer # Unanswered /\ UNCHANGED db /\ calls' = calls \ {c}
    BY DuctArrives DEF DuctInv, DuctShape, DuctPage!CheckedArrives, DuctPage!Answered
<1>2. CASE c.what.last
  <2>1. page' = [page EXCEPT !.check = c.answer]
      BY <1>2 DEF DuctPage!CheckedArrives, DuctPage!IsLast
  <2>2. /\ DOMAIN page' = DuctFields /\ page'.loaded = page.loaded /\ page'.route = page.route
        /\ page'.a = page.a /\ page'.z = page.z /\ page'.rest = page.rest /\ page'.file = page.file
        /\ page'.check = c.answer
      BY <1>1, <2>1 DEF DuctFields
  <2>3. DuctShape(page') /\ HasLine(page') = HasLine(page) /\ DuctPage!Ends(page') = DuctPage!Ends(page)
      BY <1>1, <2>2 DEF DuctShape, HasLine, DuctPage!Ends, DuctPage!StoredRow
  <2>4. CheckIsOfLine(page')
      BY <1>1, <1>2, <2>2, <2>3 DEF CheckIsOfLine, DuctCallOK, CheckOK, LastIsOfLine
  <2>5. \A d \in calls' : DuctCallOK(d) /\ LastIsOfLine(page', d)
      BY <1>1, <2>2, <2>3 DEF DuctInv, LastIsOfLine
  <2> QED BY <1>1, <2>3, <2>4, <2>5 DEF DuctInv
<1>3. CASE ~ c.what.last
    BY <1>1, <1>3, DuctGoesOn DEF DuctPage!CheckedArrives, DuctPage!IsLast
<1> QED BY <1>2, <1>3

(* What the user types or asks for, but for the line and the manholes.     *)
LEMMA DuctTouches ==
    ASSUME DuctInv, DOMAIN page' = DuctFields, page'.route = page.route, page'.loaded = page.loaded,
           page'.a = page.a, page'.z = page.z, page'.rest \in World.duct.Rest,
           page'.file = page.file, page'.check = page.check,
           UNCHANGED db, \A c \in calls' : c \in calls \/ (DuctCallOK(c) /\ c.kind # "check")
    PROVE  DuctInv'
<1>1. DuctShape(page')
    BY DEF DuctInv, DuctShape
<1>2. HasLine(page') = HasLine(page) /\ DuctPage!Ends(page') = DuctPage!Ends(page)
    BY DEF HasLine, DuctPage!Ends, DuctPage!StoredRow
<1> QED BY <1>1, <1>2, DuctGoesOn

LEMMA DuctTyping == ASSUME DuctInv, DuctPage!Typing PROVE DuctInv'
<1>0. DOMAIN page = DuctFields /\ DuctShape(page) /\ page.rest \in World.duct.Rest
    BY DEF DuctInv, DuctShape
<1>1. ASSUME NEW s \in World.duct.Schacht, DuctPage!SetSchacht(s) PROVE DuctInv'
  <2> DEFINE p == [page EXCEPT !.a = s, !.touched = TRUE]
  <2> DEFINE q == [page EXCEPT !.z = s, !.touched = TRUE]
  <2>1. UNCHANGED db /\ (DuctPage!Recheck(p, {}) \/ DuctPage!Recheck(q, {}))
      BY <1>1 DEF DuctPage!SetSchacht, DuctPage!Editing
  <2>2. /\ DOMAIN p = DuctFields /\ p.loaded = page.loaded /\ p.route = page.route /\ p.a = s
        /\ p.z = page.z /\ p.rest = page.rest /\ p.file = page.file
        /\ DOMAIN q = DuctFields /\ q.loaded = page.loaded /\ q.route = page.route /\ q.a = page.a
        /\ q.z = s /\ q.rest = page.rest /\ q.file = page.file
      BY <1>0 DEF DuctFields
  <2> HIDE DEF p, q
  <2>3. DuctShape(p) /\ DuctShape(q)
      BY <1>0, <2>2 DEF DuctShape
  <2> QED BY <2>1, <2>3, DuctRechecks
<1>2. ASSUME NEW r \in World.duct.Rest, DuctPage!SetRest(r) PROVE DuctInv'
  <2>1. page' = [page EXCEPT !.rest = r, !.touched = TRUE] /\ UNCHANGED <<db, calls>>
      BY <1>2 DEF DuctPage!SetRest, DuctPage!Editing
  <2>2. /\ DOMAIN page' = DuctFields /\ page'.loaded = page.loaded /\ page'.route = page.route
        /\ page'.a = page.a /\ page'.z = page.z /\ page'.rest = r /\ page'.file = page.file
        /\ page'.check = page.check
      BY <1>0, <2>1 DEF DuctFields
  <2> QED BY <2>1, <2>2, DuctTouches
<1>3. ASSUME NEW line \in World.duct.Lines \union {NoFile}, NEW p, UNCHANGED db, DuctPage!Recheck(p, {}),
             \/ p = [page EXCEPT !.file = line, !.touched = TRUE]
             \/ p = [page EXCEPT !.file = line]
      PROVE  DuctInv'
  <2>1. /\ DOMAIN p = DuctFields /\ p.loaded = page.loaded /\ p.route = page.route /\ p.a = page.a
        /\ p.z = page.z /\ p.rest = page.rest /\ p.file = line
      BY <1>0, <1>3 DEF DuctFields
  <2>2. DuctShape(p)
      BY <1>0, <2>1 DEF DuctShape
  <2> QED BY <1>3, <2>2, DuctRechecks
<1>4. ASSUME NEW line \in World.duct.Lines, DuctPage!ChooseLine(line) PROVE DuctInv'
    BY <1>3, <1>4 DEF DuctPage!ChooseLine, DuctPage!Editing
<1>5. CASE DuctPage!DiscardFile
    BY <1>3, <1>5 DEF DuctPage!DiscardFile, DuctPage!Editing
<1>6. CASE DuctPage!SetConfirmed
  <2>1. PICK on \in BOOLEAN : on = ~ page.confirmed
      OBVIOUS
  <2>2. page' = [page EXCEPT !.confirmed = on] /\ UNCHANGED <<db, calls>>
      BY <1>6, <2>1 DEF DuctPage!SetConfirmed
  <2>3. /\ DOMAIN page' = DuctFields /\ page'.loaded = page.loaded /\ page'.route = page.route
        /\ page'.a = page.a /\ page'.z = page.z /\ page'.rest = page.rest /\ page'.file = page.file
        /\ page'.check = page.check
      BY <1>0, <2>2 DEF DuctFields
  <2> QED BY <1>0, <2>2, <2>3, DuctTouches
<1> QED BY <1>1, <1>2, <1>4, <1>5, <1>6 DEF DuctPage!Typing

(* The course that is sent, if its line is ready. *)
LEMMA DuctCourse ==
    ASSUME DuctInv, HasLine(page) => DuctPage!LineReady, page.loaded \notin {Pending, Failed},
           NEW course, course.line = page.file, course.preview = page.check,
           course.confirmed = page.confirmed, course.ends = DuctPage!Ends(page)
    PROVE  CourseOK(course)
BY DEF DuctInv, CheckIsOfLine, CourseOK, HasLine, DuctPage!LineReady, DuctPage!HasChecked

LEMMA DuctSave == ASSUME DuctInv, DuctPage!Save PROVE DuctInv'
<1>1. /\ DOMAIN page = DuctFields /\ page.rest \in World.duct.Rest
      /\ {page.a, page.z} \subseteq World.duct.Schacht
      /\ page.loaded \notin {Pending, Failed}
      /\ page' = [page EXCEPT !.saving = TRUE] /\ UNCHANGED db
    BY DEF DuctInv, DuctShape, DuctPage!Save, DuctPage!Form, DuctPage!HasLoaded
<1>2. /\ DOMAIN page' = DuctFields /\ page'.loaded = page.loaded /\ page'.route = page.route
      /\ page'.a = page.a /\ page'.z = page.z /\ page'.rest = page.rest /\ page'.file = page.file
      /\ page'.check = page.check
    BY <1>1 DEF DuctFields
<1> DEFINE input == [id |-> page.route, a |-> page.a, z |-> page.z, rest |-> page.rest]
<1> DEFINE course == [line |-> page.file, preview |-> page.check, confirmed |-> page.confirmed,
                      ends |-> DuctPage!Ends(page)]
<1> DEFINE none == [course EXCEPT !.line = NoFile]
<1>3. input.a = page.a /\ input.z = page.z /\ input.rest = page.rest
    OBVIOUS
<1>4. course.line = page.file /\ course.preview = page.check /\ course.confirmed = page.confirmed
      /\ course.ends = DuctPage!Ends(page) /\ none.line = NoFile
    OBVIOUS
<1>5. \/ DuctPage!Send(DuctPage!Request("update", input))
      \/ DuctPage!Send(DuctPage!Request("create", [input |-> input,
                                                  course |-> IF DuctPage!LineReady THEN course ELSE none]))
    BY DEF DuctPage!Save
<1> HIDE DEF input, course, none
<1>6. CASE DuctPage!Send(DuctPage!Request("update", input))
  <2> DEFINE r == [kind |-> "update", what |-> input, answer |-> Unanswered]
  <2>1. calls' = calls \union {r}
      BY <1>6, DuctSends
  <2>2. DuctCallOK(r) /\ r.kind # "check"
      BY <1>1, <1>3 DEF DuctCallOK
  <2> HIDE DEF r
  <2>3. \A c \in calls' : c \in calls \/ (DuctCallOK(c) /\ c.kind # "check")
      BY <2>1, <2>2
  <2> QED BY <1>1, <1>2, <2>3, DuctTouches
<1>7. ASSUME NEW sent, sent = IF DuctPage!LineReady THEN course ELSE none,
             DuctPage!Send(DuctPage!Request("create", [input |-> input, course |-> sent]))
      PROVE  DuctInv'
  <2> DEFINE r == [kind |-> "create", what |-> [input |-> input, course |-> sent], answer |-> Unanswered]
  <2>1. calls' = calls \union {r}
      BY <1>7, DuctSends
  <2>2. CourseOK(sent)
    <3>1. CASE DuctPage!LineReady
        BY <1>1, <1>4, <1>7, <3>1, DuctCourse
    <3>2. CASE ~ DuctPage!LineReady
        BY <1>4, <1>7, <3>2 DEF CourseOK
    <3> QED BY <3>1, <3>2
  <2>3. DuctCallOK(r) /\ r.kind # "check"
      BY <1>1, <1>3, <2>2 DEF DuctCallOK
  <2> HIDE DEF r
  <2>4. \A c \in calls' : c \in calls \/ (DuctCallOK(c) /\ c.kind # "check")
      BY <2>1, <2>3
  <2> QED BY <1>1, <1>2, <2>4, DuctTouches
<1> QED BY <1>5, <1>6, <1>7

(* SaveLine, StraightLine *)
LEMMA DuctSaveLine == ASSUME DuctInv, DuctPage!SaveLine PROVE DuctInv'
<1>1. /\ DOMAIN page = DuctFields /\ page.rest \in World.duct.Rest
      /\ page.loaded \notin {Pending, Failed} /\ (page.file # NoFile => DuctPage!LineReady)
      /\ page' = [page EXCEPT !.saving = TRUE] /\ UNCHANGED db
    BY DEF DuctInv, DuctShape, DuctPage!SaveLine, DuctPage!Form, DuctPage!HasLoaded
<1>2. /\ DOMAIN page' = DuctFields /\ page'.loaded = page.loaded /\ page'.route = page.route
      /\ page'.a = page.a /\ page'.z = page.z /\ page'.rest = page.rest /\ page'.file = page.file
      /\ page'.check = page.check
    BY <1>1 DEF DuctFields
<1> DEFINE course == [id |-> page.route, line |-> page.file, preview |-> page.check,
                      confirmed |-> page.confirmed, ends |-> DuctPage!Ends(page)]
<1>3. CourseOK(course)
  <2>1. course.line = page.file /\ course.preview = page.check /\ course.confirmed = page.confirmed
        /\ course.ends = DuctPage!Ends(page)
      OBVIOUS
  <2> HIDE DEF course
  <2> QED BY <1>1, <2>1, DuctCourse DEF HasLine
<1>4. DuctPage!Send(DuctPage!Request("line", course))
    BY DEF DuctPage!SaveLine
<1> HIDE DEF course
<1> DEFINE r == [kind |-> "line", what |-> course, answer |-> Unanswered]
<1>5. calls' = calls \union {r}
    BY <1>4, DuctSends
<1>6. DuctCallOK(r) /\ r.kind # "check"
    BY <1>3 DEF DuctCallOK
<1> HIDE DEF r
<1>7. \A c \in calls' : c \in calls \/ (DuctCallOK(c) /\ c.kind # "check")
    BY <1>5, <1>6
<1> QED BY <1>1, <1>2, <1>7, DuctTouches

(* The page is left: to the duct's overview, or to nothing.                *)
LEMMA DuctEmptied ==
    ASSUME DuctInv, page' = DuctPage!Empty, calls' \subseteq calls, UNCHANGED db
    PROVE  DuctInv'
<1>1. DuctShape(page') /\ ~ HasLine(page')
    BY DuctKnown DEF DuctPage!Empty, DuctPage!Known, DuctShape, DuctFields, HasLine
<1> QED BY <1>1, DuctGoesOn

(* Msg::Saved, Deleted: on to the duct's overview. *)
LEMMA DuctSaved ==
    ASSUME DuctInv, NEW c \in calls, DuctPage!Saved(c) \/ DuctPage!Deleted(c)
    PROVE  DuctInv'
<1>1. /\ DOMAIN page = DuctFields /\ page.rest \in World.duct.Rest
      /\ calls' \subseteq calls /\ UNCHANGED db
    BY DuctArrives DEF DuctInv, DuctShape, DuctPage!Saved, DuctPage!Deleted
<1>2. CASE page' = DuctPage!Empty
    BY <1>1, <1>2, DuctEmptied
<1>3. CASE page' = page
    BY <1>1, <1>3, DuctTouches
<1>4. CASE page' = [page EXCEPT !.saving = FALSE]
  <2>1. /\ DOMAIN page' = DuctFields /\ page'.loaded = page.loaded /\ page'.route = page.route
        /\ page'.a = page.a /\ page'.z = page.z /\ page'.rest = page.rest /\ page'.file = page.file
        /\ page'.check = page.check
      BY <1>1, <1>4 DEF DuctFields
  <2> QED BY <1>1, <2>1, DuctTouches
<1> QED BY <1>2, <1>3, <1>4 DEF DuctPage!Saved, DuctPage!Deleted

(* Msg::LineSaved *)
LEMMA DuctLineSaved ==
    ASSUME DuctInv, NEW c \in calls, DuctPage!LineSaved(c), page.route # Closed
    PROVE  DuctInv'
<1>1. /\ DOMAIN page = DuctFields /\ page.rest \in World.duct.Rest
      /\ UNCHANGED db /\ page.route \in World.duct.Duct \union {NewDuct}
    BY DEF DuctInv, DuctShape, DuctPage!LineSaved
<1>2. CASE c.answer = Failed
  <2>1. page' = [page EXCEPT !.saving = FALSE] /\ calls' \subseteq calls
      BY <1>2, DuctArrives DEF DuctPage!LineSaved
  <2>2. /\ DOMAIN page' = DuctFields /\ page'.loaded = page.loaded /\ page'.route = page.route
        /\ page'.a = page.a /\ page'.z = page.z /\ page'.rest = page.rest /\ page'.file = page.file
        /\ page'.check = page.check
      BY <1>1, <2>1 DEF DuctFields
  <2> QED BY <1>1, <2>1, <2>2, DuctTouches
<1>3. CASE c.answer # Failed
  <2> DEFINE r == [kind |-> "fetch", what |-> [id |-> page.route], answer |-> Unanswered]
  <2>1. /\ page' = [page EXCEPT !.saving = FALSE, !.file = NoFile, !.check = NoCheck]
        /\ calls' = (calls \ {c}) \union {r}
      BY <1>3 DEF DuctPage!LineSaved, DuctPage!Exchange, DuctPage!Request
  <2>2. DuctCallOK(r) /\ r.kind # "check"
      BY <1>1 DEF DuctCallOK
  <2> HIDE DEF r
  <2>3. \A d \in calls' : d \in calls \/ (DuctCallOK(d) /\ d.kind # "check")
      BY <2>1, <2>2
  <2>4. /\ DOMAIN page' = DuctFields /\ page'.loaded = page.loaded /\ page'.route = page.route
        /\ page'.a = page.a /\ page'.z = page.z /\ page'.rest = page.rest /\ page'.file = NoFile
      BY <1>1, <2>1 DEF DuctFields
  <2>5. DuctShape(page') /\ ~ HasLine(page')
      BY <2>4 DEF DuctInv, DuctShape, HasLine
  <2> QED BY <1>1, <2>3, <2>5, DuctGoesOn
<1> QED BY <1>2, <1>3

(* The question before a duct is deleted. *)
LEMMA DuctDialog ==
    ASSUME DuctInv, DuctPage!AskDelete \/ DuctPage!Delete \/ DuctPage!Cancel
    PROVE  DuctInv'
<1>1. /\ DOMAIN page = DuctFields /\ page.rest \in World.duct.Rest /\ UNCHANGED db
    BY DEF DuctInv, DuctShape, DuctPage!AskDelete, DuctPage!Delete, DuctPage!Cancel
<1>2. PICK d : page' = [page EXCEPT !.dialog = d]
    BY DEF DuctPage!AskDelete, DuctPage!Delete, DuctPage!Cancel
<1>3. /\ DOMAIN page' = DuctFields /\ page'.loaded = page.loaded /\ page'.route = page.route
      /\ page'.a = page.a /\ page'.z = page.z /\ page'.rest = page.rest /\ page'.file = page.file
      /\ page'.check = page.check
    BY <1>1, <1>2 DEF DuctFields
<1> DEFINE r == [kind |-> "delete", what |-> [id |-> page.route], answer |-> Unanswered]
<1>4. calls' \subseteq calls \union {r}
    BY DuctSends DEF DuctPage!AskDelete, DuctPage!Delete, DuctPage!Cancel
<1>5. DuctCallOK(r) /\ r.kind # "check"
    BY DEF DuctCallOK
<1> HIDE DEF r
<1>6. \A c \in calls' : c \in calls \/ (DuctCallOK(c) /\ c.kind # "check")
    BY <1>4, <1>5
<1> QED BY <1>1, <1>3, <1>6, DuctTouches

(* A call is answered; the course it is about stays what it was.           *)
LEMMA DuctReplies ==
    ASSUME DuctInv, NEW c \in calls, NEW answer, DuctPage!Reply(c, answer), UNCHANGED page,
           c.kind = "fetch" => answer \in {Failed, NoDuct} \/ DuctRowOK(answer.row),
           c.kind = "check" => \/ answer = Failed
                               \/ /\ answer # NoFit
                                  /\ answer = DuctPage!FitAt(c.what.line, c.what.a, c.what.z),
           DOMAIN db' = World.duct.Duct,
           \A d \in World.duct.Duct : db'[d] = NoDuct \/ DuctRowOK(db'[d])
    PROVE  DuctInv'
<1> DEFINE r == [c EXCEPT !.answer = answer]
<1>1. calls' = (calls \ {c}) \union {r}
    BY DEF DuctPage!Reply, DuctPage!Exchange
<1>2. DuctCallOK(c) /\ LastIsOfLine(page, c)
    BY DEF DuctInv
<1>3. DOMAIN r = {"kind", "what", "answer"} /\ r.kind = c.kind /\ r.what = c.what /\ r.answer = answer
    BY <1>2 DEF DuctCallOK
<1> HIDE DEF r
<1>4. DuctCallOK(r) /\ LastIsOfLine(page, r)
    BY <1>2, <1>3 DEF DuctCallOK, CheckOK, LastIsOfLine
<1> QED BY <1>1, <1>4 DEF DuctInv

LEMMA DuctServe ==
    ASSUME DuctInv, NEW c \in calls, DuctPage!Serve(c)
    PROVE  DuctInv'
<1>1. DuctCallOK(c) /\ DOMAIN db = World.duct.Duct /\ \A d \in World.duct.Duct : db[d] = NoDuct \/ DuctRowOK(db[d])
    BY DEF DuctInv
<1>2. ASSUME NEW d, NEW row, DuctRowOK(row), db' = [db EXCEPT ![d] = row]
      PROVE  DOMAIN db' = World.duct.Duct /\ \A e \in World.duct.Duct : db'[e] = NoDuct \/ DuctRowOK(db'[e])
    BY <1>1, <1>2
<1>3. CASE DuctPage!ServeFetch(c)
  <2>1. PICK answer : /\ DuctPage!Reply(c, answer)
                      /\ answer = IF c.what.id = NewDuct \/ db[c.what.id] = NoDuct THEN NoDuct
                                  ELSE [id |-> c.what.id, row |-> db[c.what.id]]
      BY <1>3 DEF DuctPage!ServeFetch
  <2>2. c.kind = "fetch" /\ UNCHANGED <<db, page>>
      BY <1>3 DEF DuctPage!ServeFetch, DuctPage!Waiting
  <2>3. answer = NoDuct \/ DuctRowOK(answer.row)
      BY <1>1, <2>1, <2>2 DEF DuctCallOK
  <2> QED BY <1>1, <2>1, <2>2, <2>3, DuctReplies
<1>4. CASE DuctPage!ServeCheck(c)
  <2> DEFINE fitted == DuctPage!FitAt(c.what.line, c.what.a, c.what.z)
  <2>1. PICK answer : DuctPage!Reply(c, answer) /\ answer = IF fitted = NoFit THEN Failed ELSE fitted
      BY <1>4 DEF DuctPage!ServeCheck
  <2>2. c.kind = "check" /\ UNCHANGED <<db, page>>
      BY <1>4 DEF DuctPage!ServeCheck, DuctPage!Waiting
  <2> QED BY <1>1, <2>1, <2>2, DuctReplies
<1>5. ASSUME NEW answer, DuctPage!Reply(c, answer), c.kind \notin {"fetch", "check"}, UNCHANGED page,
             NEW d, \/ db' = db
                    \/ \E row : (DuctRowOK(row) \/ row = NoDuct \/ d \notin World.duct.Duct) /\ db' = [db EXCEPT ![d] = row]
      PROVE  DuctInv'
  <2>1. DOMAIN db' = World.duct.Duct /\ \A e \in World.duct.Duct : db'[e] = NoDuct \/ DuctRowOK(db'[e])
      BY <1>1, <1>5
  <2> QED BY <1>5, <2>1, DuctReplies
<1>6. CASE DuctPage!ServeCreate(c)
  <2>1. c.kind = "create" /\ UNCHANGED page
      BY <1>6 DEF DuctPage!ServeCreate, DuctPage!Waiting
  <2> DEFINE i == c.what.input
  <2> DEFINE row == [a |-> i.a, z |-> i.z, rest |-> i.rest, cables |-> FALSE,
                     line |-> DuctPage!Course(c.what.course.line, i.a, i.z)]
  <2>2. DuctRowOK(row)
      BY <1>1, <2>1 DEF DuctCallOK, DuctRowOK
  <2>3. (DuctPage!Reply(c, Failed) /\ UNCHANGED db)
        \/ \E d \in World.duct.Duct : db' = [db EXCEPT ![d] = row] /\ DuctPage!Reply(c, TRUE)
      BY <1>6 DEF DuctPage!ServeCreate
  <2> HIDE DEF row
  <2> QED BY <1>5, <2>1, <2>2, <2>3
<1>7. CASE DuctPage!ServeUpdate(c)
  <2>1. c.kind = "update" /\ UNCHANGED page
      BY <1>7 DEF DuctPage!ServeUpdate, DuctPage!Waiting
  <2> DEFINE i == c.what
  <2>2. PICK line : \/ DuctPage!Reply(c, Failed) /\ UNCHANGED db
                    \/ /\ db[i.id] # NoDuct /\ DuctPage!Reply(c, TRUE)
                       /\ db' = [db EXCEPT ![i.id] = [db[i.id] EXCEPT !.a = i.a, !.z = i.z, !.rest = i.rest,
                                                                       !.line = line]]
      BY <1>7 DEF DuctPage!ServeUpdate
  <2>3. CASE DuctPage!Reply(c, Failed) /\ UNCHANGED db
      BY <1>5, <2>1, <2>3
  <2>4. CASE i.id \notin World.duct.Duct /\ ~ (DuctPage!Reply(c, Failed) /\ UNCHANGED db)
    <3>1. DuctPage!Reply(c, TRUE) /\ \E row : db' = [db EXCEPT ![c.what.id] = row]
        BY <2>2, <2>4
    <3> QED BY <1>5, <2>1, <2>4, <3>1
  <2>5. CASE i.id \in World.duct.Duct /\ ~ (DuctPage!Reply(c, Failed) /\ UNCHANGED db)
    <3> DEFINE row == [db[i.id] EXCEPT !.a = i.a, !.z = i.z, !.rest = i.rest, !.line = line]
    <3>1. DuctRowOK(db[i.id]) /\ db' = [db EXCEPT ![i.id] = row] /\ DuctPage!Reply(c, TRUE)
        BY <1>1, <2>2, <2>5
    <3>2. DOMAIN row = {"a", "z", "rest", "line", "cables"} /\ row.a = i.a /\ row.z = i.z /\ row.rest = i.rest
        BY <3>1 DEF DuctRowOK
    <3>3. DuctRowOK(row)
        BY <1>1, <2>1, <3>2 DEF DuctCallOK, DuctRowOK
    <3> HIDE DEF row
    <3> QED BY <1>5, <2>1, <3>1, <3>3
  <2> QED BY <2>3, <2>4, <2>5
<1>8. CASE DuctPage!ServeLine(c)
  <2>1. c.kind = "line" /\ UNCHANGED page
      BY <1>8 DEF DuctPage!ServeLine, DuctPage!Waiting
  <2> DEFINE w == c.what
  <2>2. PICK line : \/ DuctPage!Reply(c, Failed) /\ UNCHANGED db
                    \/ /\ db[w.id] # NoDuct /\ DuctPage!Reply(c, TRUE)
                       /\ db' = [db EXCEPT ![w.id].line = line]
      BY <1>8 DEF DuctPage!ServeLine
  <2>3. CASE DuctPage!Reply(c, Failed) /\ UNCHANGED db
      BY <1>5, <2>1, <2>3
  <2>4. CASE w.id \notin World.duct.Duct /\ ~ (DuctPage!Reply(c, Failed) /\ UNCHANGED db)
    <3>1. DuctPage!Reply(c, TRUE) /\ \E row : db' = [db EXCEPT ![c.what.id] = row]
        BY <2>2, <2>4
    <3> QED BY <1>5, <2>1, <2>4, <3>1
  <2>5. CASE w.id \in World.duct.Duct /\ ~ (DuctPage!Reply(c, Failed) /\ UNCHANGED db)
    <3> DEFINE row == [db[w.id] EXCEPT !.line = line]
    <3>1. DuctRowOK(db[w.id]) /\ db' = [db EXCEPT ![w.id] = row] /\ DuctPage!Reply(c, TRUE)
        BY <1>1, <2>2, <2>5
    <3>2. DuctRowOK(row)
        BY <3>1 DEF DuctRowOK
    <3> HIDE DEF row
    <3> QED BY <1>5, <2>1, <3>1, <3>2
  <2> QED BY <2>3, <2>4, <2>5
<1>9. CASE DuctPage!ServeDelete(c)
  <2>1. c.kind = "delete" /\ UNCHANGED page
      BY <1>9 DEF DuctPage!ServeDelete, DuctPage!Waiting
  <2>2. \/ DuctPage!Reply(c, Failed) /\ UNCHANGED db
        \/ DuctPage!Reply(c, TRUE) /\ db' = [db EXCEPT ![c.what.id] = NoDuct]
      BY <1>9 DEF DuctPage!ServeDelete
  <2> QED BY <1>5, <2>1, <2>2
<1> QED BY <1>3, <1>4, <1>6, <1>7, <1>8, <1>9 DEF DuctPage!Serve

(* Somebody puts a cable into a duct. *)
LEMMA DuctLayCable ==
    ASSUME DuctInv, NEW d \in World.duct.Duct, DuctPage!LayCable(d)
    PROVE  DuctInv'
<1> DEFINE row == [db[d] EXCEPT !.cables = TRUE]
<1>1. DuctRowOK(db[d]) /\ db' = [db EXCEPT ![d] = row] /\ UNCHANGED <<page, calls>>
    BY DEF DuctInv, DuctPage!LayCable
<1>2. DuctRowOK(row)
    BY <1>1 DEF DuctRowOK
<1> HIDE DEF row
<1>3. DOMAIN db' = World.duct.Duct /\ \A e \in World.duct.Duct : db'[e] = NoDuct \/ DuctRowOK(db'[e])
    BY <1>1, <1>2 DEF DuctInv
<1> QED BY <1>1, <1>3 DEF DuctInv

LEMMA DuctStep ==
    ASSUME DuctInv, [DuctPage!Next]_<<db, page, calls, spent>>
    PROVE  DuctInv'
<1>1. CASE UNCHANGED <<db, page, calls, spent>>
    BY <1>1 DEF DuctInv
<1>2. CASE DuctPage!Refuse
  <2>1. PICK c \in calls : DuctPage!Reply(c, Failed) /\ UNCHANGED <<db, page>>
      BY <1>2 DEF DuctPage!Refuse
  <2> QED BY <2>1, DuctReplies DEF DuctInv
<1>3. CASE DuctPage!Forget
  <2>1. calls' \subseteq calls /\ UNCHANGED <<db, page>>
      BY <1>3, DuctArrives DEF DuctPage!Forget
  <2> QED BY <2>1 DEF DuctInv
<1>4. ASSUME NEW c \in calls, DuctPage!Arrival(c) PROVE DuctInv'
    BY <1>4, DuctChecked, DuctLoaded, DuctSaved, DuctLineSaved DEF DuctPage!Arrival
<1> QED BY <1>1, <1>2, <1>3, <1>4, DuctOpen, DuctTyping, DuctSave, DuctSaveLine, DuctDialog, DuctServe,
           DuctLayCable DEF DuctPage!Next

-----------------------------------------------------------------------------
(* The page of a duct, among the others. *)
DuctKept == kind = "duct" => DuctInv

LEMMA DuctAlways == Spec => []DuctKept
<1>1. Init => DuctKept
    BY DuctInit DEF Init, DuctKept
<1>2. DuctKept /\ [Next]_vars => DuctKept'
  <2> SUFFICES ASSUME DuctKept, [Next]_vars, kind = "duct" PROVE DuctInv'
      BY DEF DuctKept, Next, vars
  <2>1. [DuctPage!Next]_<<db, page, calls, spent>>
      BY DEF Next, vars
  <2> QED BY <2>1, DuctStep DEF DuctKept
<1> QED BY <1>1, <1>2, PTL DEF Spec

(* A course is sent only with the preview of its line and its manholes,    *)
(* and one far from them only confirmed: every change of either makes the  *)
(* check before it count no longer (CheckIsOfLine, LastIsOfLine).          *)
THEOREM StoredCourseIsThePreview == Spec => []CourseIsThePreview
<1>1. DuctKept => CourseIsThePreview
  <2> SUFFICES ASSUME DuctInv, NEW course \in DuctPage!Courses PROVE CourseOK(course)
      BY DEF DuctKept, CourseIsThePreview, DuctPage!CourseIsThePreview, CourseOK
  <2> QED BY DEF DuctInv, DuctCallOK, DuctPage!Courses
<1> QED BY <1>1, DuctAlways, PTL

-----------------------------------------------------------------------------
(* The course of a duct *)

(* What an end or the end of a sequence keeps. *)
LEMMA TailKeeps ==
    ASSUME NEW s \in Seq(Int), s # <<>>
    PROVE  /\ Tail(s) \in Seq(Int) /\ Len(Tail(s)) = Len(s) - 1
           /\ \A k \in 2 .. Len(s) : k - 1 \in DOMAIN Tail(s) /\ Tail(s)[k - 1] = s[k]
OBVIOUS

LEMMA FrontKeeps ==
    ASSUME NEW s \in Seq(Int), s # <<>>
    PROVE  /\ DuctPage!Front(s) \in Seq(Int) /\ Len(DuctPage!Front(s)) = Len(s) - 1
           /\ \A k \in 1 .. Len(s) - 1 : k \in DOMAIN DuctPage!Front(s) /\ DuctPage!Front(s)[k] = s[k]
<1>1. Len(s) \in Nat \ {0} /\ DuctPage!Front(s) = SubSeq(s, 1, Len(s) - 1)
    BY DEF DuctPage!Front
<1>2. 1 \in 1 .. Len(s) + 1 /\ Len(s) - 1 \in 0 .. Len(s)
    BY <1>1
<1> DEFINE m == Len(s) - 1
<1>3. \A i \in 1 .. m : s[i] \in Int
    BY <1>1
<1>4. m \in Nat /\ 1 \in Int
    BY <1>1
<1> DEFINE front == SubSeq(s, 1, m)
<1> HIDE DEF m
<1>5. /\ front \in Seq(Int) /\ Len(front) = IF 1 <= m THEN m - 1 + 1 ELSE 0
      /\ \A i \in 1 .. m - 1 + 1 : front[i] = s[1 + i - 1]
    BY <1>3, <1>4, SubSeqProperties
<1> HIDE DEF front
<1>6. Len(front) = m /\ \A i \in 1 .. m : front[i] = s[i] /\ i \in DOMAIN front
  <2>1. Len(front) = m /\ m - 1 + 1 = m
      BY <1>4, <1>5
  <2>2. \A i \in 1 .. m : 1 + i - 1 = i
      BY <1>4
  <2>3. \A i \in 1 .. m : front[i] = s[i]
      BY <1>5, <2>1, <2>2
  <2> QED BY <1>5, <2>1, <2>3
<1> QED BY <1>1, <1>5, <1>6 DEF front, m

(* A reversed line. *)
LEMMA Reversed ==
    ASSUME NEW s \in Seq(Int), s # <<>>
    PROVE  LET r == DuctPage!Reverse(s)
           IN  /\ r \in Seq(Int) /\ r # <<>> /\ Len(r) = Len(s)
               /\ \A i \in DOMAIN s : Len(s) - i + 1 \in DOMAIN r /\ r[Len(s) - i + 1] = s[i]
               /\ DuctPage!First(r) = DuctPage!Final(s) /\ DuctPage!Final(r) = DuctPage!First(s)
               /\ DuctPage!Reverse(r) = s
<1> DEFINE r == DuctPage!Reverse(s)
<1>1. r = [i \in 1 .. Len(s) |-> s[Len(s) - i + 1]]
    BY DEF DuctPage!Reverse
<1>2. r \in Seq(Int) /\ Len(r) = Len(s) /\ r # <<>> /\ DOMAIN r = 1 .. Len(s) /\ Len(s) \in Nat \ {0}
    BY <1>1
<1>3. \A i \in DOMAIN s : Len(s) - i + 1 \in DOMAIN r /\ r[Len(s) - i + 1] = s[i]
    BY <1>1, <1>2
<1>4. r[1] = s[Len(s)] /\ r[Len(r)] = s[1]
    BY <1>1, <1>2
<1>5. DuctPage!Reverse(r) = [i \in 1 .. Len(s) |-> r[Len(s) - i + 1]]
    BY <1>2 DEF DuctPage!Reverse
<1>6. \A i \in 1 .. Len(s) : r[Len(s) - i + 1] = s[i]
    BY <1>3
<1> HIDE DEF r
<1>7. DuctPage!Reverse(r) = s
  <2>1. s = [i \in 1 .. Len(s) |-> s[i]]
      OBVIOUS
  <2> QED BY <1>5, <1>6, <2>1
<1>8. DuctPage!First(r) = DuctPage!Final(s) /\ DuctPage!Final(r) = DuctPage!First(s)
    BY <1>4 DEF DuctPage!First, DuctPage!Final
<1> QED BY <1>2, <1>3, <1>7, <1>8 DEF r

(* A line is turned alike whichever end its file starts at.                *)
LEMMA TurnedAlike ==
    ASSUME NEW s \in Seq(Int), s # <<>>, NEW a \in Int, NEW z \in Int, ~ DuctPage!Undecided(s, a, z)
    PROVE  DuctPage!Turned(DuctPage!Reverse(s), a, z) = DuctPage!Turned(s, a, z)
<1> DEFINE r == DuctPage!Reverse(s)
<1>1. DuctPage!First(r) = DuctPage!Final(s) /\ DuctPage!Final(r) = DuctPage!First(s) /\ DuctPage!Reverse(r) = s
    BY Reversed
<1>2. DuctPage!First(s) \in Int /\ DuctPage!Final(s) \in Int
    BY DEF DuctPage!First, DuctPage!Final
<1> HIDE DEF r
<1> DEFINE there == DuctPage!Distance(DuctPage!First(s), a) + DuctPage!Distance(DuctPage!Final(s), z)
<1> DEFINE back == DuctPage!Distance(DuctPage!First(s), z) + DuctPage!Distance(DuctPage!Final(s), a)
<1>3. there \in Int /\ back \in Int /\ there # back
  <2>1. there # back
      BY DEF DuctPage!Undecided
  <2>2. \A x \in Int, y \in Int : DuctPage!Distance(x, y) \in Int
      BY DEF DuctPage!Distance
  <2> DEFINE fa == DuctPage!Distance(DuctPage!First(s), a)
  <2> DEFINE fz == DuctPage!Distance(DuctPage!First(s), z)
  <2> DEFINE la == DuctPage!Distance(DuctPage!Final(s), a)
  <2> DEFINE lz == DuctPage!Distance(DuctPage!Final(s), z)
  <2>3. fa \in Int /\ fz \in Int /\ la \in Int /\ lz \in Int
      BY <1>2, <2>2
  <2>4. there = fa + lz /\ back = fz + la
      OBVIOUS
  <2> HIDE DEF fa, fz, la, lz, there, back
  <2> QED BY <2>1, <2>3, <2>4
<1>4. /\ DuctPage!Turned(s, a, z) = IF back < there THEN r ELSE s
      /\ DuctPage!Turned(r, a, z) = IF there < back THEN s ELSE r
  <2>1. DuctPage!Turned(s, a, z) = IF back < there THEN r ELSE s
      BY DEF DuctPage!Turned, r
  <2>2. /\ DuctPage!Distance(DuctPage!First(r), z) + DuctPage!Distance(DuctPage!Final(r), a) = there
        /\ DuctPage!Distance(DuctPage!First(r), a) + DuctPage!Distance(DuctPage!Final(r), z) = back
      BY <1>1, <1>2 DEF DuctPage!Distance
  <2>3. DuctPage!Turned(r, a, z) = IF there < back THEN DuctPage!Reverse(r) ELSE r
      BY <2>2 DEF DuctPage!Turned
  <2> QED BY <1>1, <2>1, <2>3
<1> HIDE DEF there, back
<1>5. DuctPage!Turned(r, a, z) = DuctPage!Turned(s, a, z)
    BY <1>3, <1>4
<1> QED BY <1>5 DEF r

(* A point that is left out repeats a manhole. *)
LEMMA TrimmedShows ==
    ASSUME NEW s \in Seq(Int), s # <<>>, NEW a \in Int, NEW z \in Int, NEW i \in 1 .. Len(s)
    PROVE  \/ \E j \in DOMAIN DuctPage!Trimmed(s, a, z) : DuctPage!Trimmed(s, a, z)[j] = s[i]
           \/ DuctPage!IsSame(s[i], a) \/ DuctPage!IsSame(s[i], z)
<1> DEFINE tail == IF Len(s) > 1 /\ DuctPage!IsSame(DuctPage!Final(s), z) THEN DuctPage!Front(s) ELSE s
<1> DEFINE both == IF DuctPage!IsSame(DuctPage!First(s), a) THEN Tail(tail) ELSE tail
<1>1. /\ tail \in Seq(Int) /\ tail # <<>>
      /\ DuctPage!IsSame(s[i], z) \/ (i \in DOMAIN tail /\ tail[i] = s[i])
  <2>1. CASE Len(s) > 1 /\ DuctPage!IsSame(DuctPage!Final(s), z)
    <3>1. tail = DuctPage!Front(s)
        BY <2>1
    <3>2. tail \in Seq(Int) /\ Len(tail) = Len(s) - 1
        BY <3>1, FrontKeeps
    <3>3. tail # <<>>
        BY <2>1, <3>2
    <3>4. CASE i = Len(s)
        BY <2>1, <3>2, <3>3, <3>4 DEF DuctPage!Final
    <3>5. CASE i # Len(s)
      <4>1. i \in 1 .. Len(s) - 1
          BY <3>5
      <4> QED BY <3>1, <3>2, <3>3, <4>1, FrontKeeps
    <3> QED BY <3>4, <3>5
  <2>2. CASE ~ (Len(s) > 1 /\ DuctPage!IsSame(DuctPage!Final(s), z))
      BY <2>2
  <2> QED BY <2>1, <2>2
<1> HIDE DEF tail
<1>2. \/ DuctPage!IsSame(s[i], a) \/ DuctPage!IsSame(s[i], z)
      \/ \E j \in DOMAIN both : both[j] = s[i]
  <2>1. CASE DuctPage!IsSame(DuctPage!First(s), a)
    <3>1. both = Tail(tail)
        BY <2>1
    <3> HIDE DEF both
    <3>2. CASE i = 1
        BY <2>1, <3>2 DEF DuctPage!First
    <3>3. CASE i # 1 /\ ~ DuctPage!IsSame(s[i], z)
      <4>1. i \in 2 .. Len(tail) /\ tail[i] = s[i]
          BY <1>1, <3>3
      <4> QED BY <1>1, <3>1, <4>1, TailKeeps
    <3> QED BY <3>2, <3>3
  <2>2. CASE ~ DuctPage!IsSame(DuctPage!First(s), a)
      BY <1>1, <2>2
  <2> QED BY <2>1, <2>2
<1>3. DuctPage!Trimmed(s, a, z) = IF Len(both) = 1 THEN s ELSE both
    BY DEF DuctPage!Trimmed, tail
<1> HIDE DEF both
<1> QED BY <1>2, <1>3

(* Turning loses no point. *)
LEMMA TurnedShows ==
    ASSUME NEW s \in Seq(Int), s # <<>>, NEW a \in Int, NEW z \in Int, NEW i \in 1 .. Len(s)
    PROVE  \E k \in 1 .. Len(DuctPage!Turned(s, a, z)) : DuctPage!Turned(s, a, z)[k] = s[i]
<1>1. DuctPage!Turned(s, a, z) = s \/ DuctPage!Turned(s, a, z) = DuctPage!Reverse(s)
    BY DEF DuctPage!Turned
<1>2. \E k \in 1 .. Len(DuctPage!Reverse(s)) : DuctPage!Reverse(s)[k] = s[i]
  <2> DEFINE r == DuctPage!Reverse(s)
  <2>1. /\ r \in Seq(Int) /\ Len(r) = Len(s)
        /\ \A j \in DOMAIN s : Len(s) - j + 1 \in DOMAIN r /\ r[Len(s) - j + 1] = s[j]
      BY Reversed
  <2> HIDE DEF r
  <2>2. Len(s) - i + 1 \in 1 .. Len(r) /\ r[Len(s) - i + 1] = s[i]
    <3>1. i \in DOMAIN s /\ Len(s) \in Nat /\ i \in Nat
        OBVIOUS
    <3>2. r[Len(s) - i + 1] = s[i]
        BY <2>1, <3>1
    <3>3. Len(s) - i + 1 \in 1 .. Len(s)
        BY <3>1
    <3> QED BY <2>1, <3>2, <3>3
  <2>3. \E k \in 1 .. Len(r) : r[k] = s[i]
      BY <2>2
  <2> QED BY <2>3 DEF r
<1> QED BY <1>1, <1>2

LEMMA TurnedIsLine ==
    ASSUME NEW s \in Seq(Int), s # <<>>, NEW a, NEW z
    PROVE  DuctPage!Turned(s, a, z) \in Seq(Int) /\ DuctPage!Turned(s, a, z) # <<>>
BY Reversed DEF DuctPage!Turned

(* A checked line of a file of any length gives the course of the reversed *)
(* line, and no point of it is lost but those that repeat a manhole.       *)
THEOREM FileIsShown == Spec => []PreviewShowsTheFile
<1>1. DuctKept => PreviewShowsTheFile
  <2> SUFFICES ASSUME DuctInv, NEW c \in calls, c.kind = "check", c.answer \notin {Unanswered, Failed}
               PROVE  LET line == c.what.line
                          a == World.duct.Position[c.what.a]
                          z == World.duct.Position[c.what.z]
                          course == c.answer.points
                      IN  /\ DuctPage!Undecided(line, a, z)
                             \/ course = DuctPage!Fit(DuctPage!Reverse(line), a, z).points
                          /\ \A i \in DOMAIN line :
                                \/ \E j \in DOMAIN course : course[j] = line[i]
                                \/ DuctPage!IsSame(line[i], a) \/ DuctPage!IsSame(line[i], z)
      BY DEF DuctKept, PreviewShowsTheFile, DuctPage!PreviewShowsTheFile
  <2> DEFINE line == c.what.line
  <2> DEFINE a == World.duct.Position[c.what.a]
  <2> DEFINE z == World.duct.Position[c.what.z]
  <2>1. CheckOK(c)
      BY DEF DuctInv, DuctCallOK
  <2>2. line \in Seq(Int) /\ a \in Int /\ z \in Int
      BY <2>1, DuctKnown DEF DuctPage!Known, CheckOK
  <2>3. c.answer = DuctPage!Fit(line, a, z) /\ c.answer # NoFit
      BY <2>1 DEF CheckOK, DuctPage!FitAt
  <2> HIDE DEF line, a, z
  <2>4. line # <<>> /\ ~ DuctPage!IsSame(a, z)
      BY <2>3 DEF DuctPage!Fit
  <2>5. \A s : s # <<>> => DuctPage!Fit(s, a, z).points = DuctPage!Trimmed(DuctPage!Turned(s, a, z), a, z)
      BY <2>4 DEF DuctPage!Fit
  <2>6. c.answer.points = DuctPage!Trimmed(DuctPage!Turned(line, a, z), a, z)
      BY <2>3, <2>4, <2>5
  <2>7. DuctPage!Undecided(line, a, z) \/ c.answer.points = DuctPage!Fit(DuctPage!Reverse(line), a, z).points
    <3>1. DuctPage!Reverse(line) # <<>>
        BY <2>2, <2>4, Reversed
    <3> QED BY <2>2, <2>4, <2>5, <2>6, <3>1, TurnedAlike
  <2>8. ASSUME NEW i \in DOMAIN line
        PROVE  \/ \E j \in DOMAIN c.answer.points : c.answer.points[j] = line[i]
               \/ DuctPage!IsSame(line[i], a) \/ DuctPage!IsSame(line[i], z)
    <3> DEFINE turned == DuctPage!Turned(line, a, z)
    <3>1. turned \in Seq(Int) /\ turned # <<>>
        BY <2>2, <2>4, TurnedIsLine
    <3>2. i \in 1 .. Len(line)
        BY <2>2
    <3>6. \E k \in 1 .. Len(turned) : turned[k] = line[i]
        BY <2>2, <2>4, <3>2, TurnedShows
    <3> HIDE DEF turned
    <3>3. PICK k \in 1 .. Len(turned) : turned[k] = line[i]
        BY <3>6
    <3>4. \/ \E j \in DOMAIN DuctPage!Trimmed(turned, a, z) : DuctPage!Trimmed(turned, a, z)[j] = turned[k]
          \/ DuctPage!IsSame(turned[k], a) \/ DuctPage!IsSame(turned[k], z)
        BY <2>2, <3>1, TrimmedShows
    <3>5. c.answer.points = DuctPage!Trimmed(turned, a, z)
        BY <2>6 DEF turned
    <3> QED BY <3>3, <3>4, <3>5
  <2> QED BY <2>7, <2>8 DEF line, a, z
<1> QED BY <1>1, DuctAlways, PTL

-----------------------------------------------------------------------------
(* The page of a manhole *)

(* The state of the page and of its requests. *)
CabinetState ==
    [route : World.cabinet.Cabinet \union {NewCabinet, Closed},
     loaded : CabinetPage!Row \union {Pending, Failed, NoCabinet},
     rest : World.cabinet.Rest \union {Incomplete}, system : CabinetPage!System,
     text : CabinetPage!Texts \union {NoPosition},
     position : World.cabinet.Point \union {NoPosition, Checking, Proposal, Invalid},
     delay : BOOLEAN, locating : BOOLEAN, saving : BOOLEAN, overtaken : BOOLEAN]

Conversion == [point : World.cabinet.Point, fill : BOOLEAN, last : BOOLEAN]
CabinetCall ==
    [kind : {"fetch"}, what : [id : World.cabinet.Cabinet \union {NewCabinet}],
     answer : CabinetPage!Row \union {Unanswered, Failed, NoCabinet}]
    \union [kind : {"convert"}, what : Conversion, answer : World.cabinet.Point \union {Unanswered, Failed}]
    \union [kind : {"locate"}, what : [device : {TRUE}], answer : World.cabinet.Point \union {Unanswered, Failed}]
    \union [kind : {"store"},
            what : [id : World.cabinet.Cabinet \union {NewCabinet}, rest : World.cabinet.Rest,
                    position : World.cabinet.Point \union {NoPosition}],
            answer : CabinetPage!Row \union {Unanswered, Failed}]
    \union [kind : {"delete"}, what : [id : World.cabinet.Cabinet], answer : {Unanswered, Failed, TRUE}]

(* A conversion answers with the point it was asked for.                   *)
OwnAnswer(c) == c.kind = "convert" => c.answer \in {Unanswered, Failed, c.what.point}
CabinetTyped ==
    /\ db \in [World.cabinet.Cabinet -> CabinetPage!Row \union {NoCabinet}]
    /\ page \in CabinetState /\ calls \subseteq CabinetCall
    /\ \A c \in calls : OwnAnswer(c)
(* A page that is not open is empty. *)
CabinetClosed == page.route = Closed => page = CabinetPage!Empty
(* What is delayed was typed as a point of the system, or is gone; what is *)
(* proposed is for a text.                                                 *)
DelayFits ==
    /\ page.delay /\ page.text # NoPosition => page.text = CabinetPage!Text(page.system, page.text.point)
    /\ page.position = Proposal => page.text # NoPosition
(* At most one conversion counts; one that was typed is that of the text.  *)
LastFits ==
    \A c \in CabinetPage!ConvertsLast(calls) :
        /\ \A d \in CabinetPage!ConvertsLast(calls) : d = c
        /\ \/ c.what.fill \/ page.overtaken \/ page.route = Closed
           \/ page.text = CabinetPage!Text(page.system, c.what.point)
(* A delay that leads to a conversion runs, or one is under way.           *)
WaitsForOne ==
    page.position = Checking =>
        (page.delay /\ page.text # NoPosition) \/ CabinetPage!ConvertsLast(calls) # {}

CabinetInv ==
    /\ CabinetTyped /\ CabinetClosed /\ DelayFits /\ LastFits /\ WaitsForOne
    /\ CabinetPage!FieldsShowThePosition

(* Outdated conversions do not count, and change nothing else.             *)
LEMMA CabinetOutdated ==
    ASSUME NEW cs, cs \subseteq CabinetCall, \A c \in cs : OwnAnswer(c)
    PROVE  /\ CabinetPage!Outdated(cs) \subseteq CabinetCall
           /\ \A c \in CabinetPage!Outdated(cs) : OwnAnswer(c) /\ c \notin CabinetPage!ConvertsLast(CabinetPage!Outdated(cs))
<1>1. ASSUME NEW c \in cs, c.kind = "convert"
      PROVE  LET o == [c EXCEPT !.what.last = FALSE]
             IN  o \in CabinetCall /\ OwnAnswer(o) /\ ~ o.what.last
  <2>1. c \in [kind : {"convert"}, what : Conversion, answer : World.cabinet.Point \union {Unanswered, Failed}]
      BY <1>1 DEF CabinetCall
  <2> QED BY <1>1, <2>1 DEF CabinetCall, Conversion, OwnAnswer
<1> QED BY <1>1 DEF CabinetPage!Outdated, CabinetPage!ConvertsLast

(* A call that is no conversion, or one less.                              *)
LEMMA CabinetLastKept ==
    ASSUME NEW done, NEW sent, \A c \in done : c.kind # "convert" \/ ~ c.what.last,
           \A c \in sent : c.kind # "convert", CabinetPage!Exchange(done, sent)
    PROVE  CabinetPage!ConvertsLast(calls') = CabinetPage!ConvertsLast(calls)
BY DEF CabinetPage!Exchange, CabinetPage!ConvertsLast

LEMMA CabinetConverts ==
    ASSUME CabinetTyped, NEW p \in World.cabinet.Point, NEW fill \in BOOLEAN, NEW done,
           CabinetPage!Convert(p, fill, done)
    PROVE  /\ calls' \subseteq CabinetCall /\ \A c \in calls' : OwnAnswer(c)
           /\ CabinetPage!ConvertsLast(calls') =
                {CabinetPage!Request("convert", [point |-> p, fill |-> fill, last |-> TRUE])}
<1> DEFINE r == CabinetPage!Request("convert", [point |-> p, fill |-> fill, last |-> TRUE])
<1>1. r \in CabinetCall /\ OwnAnswer(r) /\ r.kind = "convert" /\ r.what.last
    BY DEF CabinetPage!Request, CabinetCall, Conversion, OwnAnswer
<1>2. calls' = CabinetPage!Outdated(calls \ done) \union {r}
  <2>1. CabinetPage!Exchange(calls, CabinetPage!Outdated(calls \ done) \union {r})
      BY DEF CabinetPage!Convert
  <2> QED BY <2>1 DEF CabinetPage!Exchange
<1> HIDE DEF r
<1>3. calls \ done \subseteq CabinetCall /\ \A c \in calls \ done : OwnAnswer(c)
    BY DEF CabinetTyped
<1>4. CabinetPage!Outdated(calls \ done) \subseteq CabinetCall
      /\ \A c \in CabinetPage!Outdated(calls \ done) : OwnAnswer(c) /\ c \notin CabinetPage!ConvertsLast(CabinetPage!Outdated(calls \ done))
    BY <1>3, CabinetOutdated
<1>5. CabinetPage!ConvertsLast(calls') = {r}
    BY <1>1, <1>2, <1>4 DEF CabinetPage!ConvertsLast
<1> QED BY <1>1, <1>2, <1>4, <1>5 DEF r

(* The fields are checked: what was typed decides alone.                   *)
LEMMA CabinetChecks ==
    ASSUME CabinetInv, NEW p \in CabinetState, p.route # Closed,
           NEW done, CabinetPage!CheckFields(p, done), UNCHANGED db
    PROVE  CabinetInv'
<1> DEFINE found == CabinetPage!Plausibility(p.text, p.system)
<1>0. PICK late \in BOOLEAN : late = (found = Checking)
    OBVIOUS
<1>1. /\ page' = [p EXCEPT !.position = found, !.delay = late, !.overtaken = FALSE]
      /\ calls' = CabinetPage!Outdated(calls \ done)
    BY <1>0 DEF CabinetPage!CheckFields, CabinetPage!Delayed
<1>2. /\ found \in {NoPosition, Checking, Proposal, Invalid}
      /\ found = NoPosition => p.text = NoPosition
      /\ found = Proposal => p.text # NoPosition
      /\ found = Checking => /\ p.text # NoPosition
                             /\ p.text = CabinetPage!Text(p.system, p.text.point)
    BY CabinetKnown DEF CabinetPage!Known, CabinetPage!Plausibility, CabinetPage!Text, CabinetPage!Texts, CabinetState
<1> HIDE DEF found
<1>3. /\ page' \in CabinetState /\ page'.route = p.route /\ page'.text = p.text /\ page'.system = p.system
      /\ page'.position = found /\ page'.delay = late /\ page'.overtaken = FALSE
    BY <1>1, <1>2 DEF CabinetState
<1>4. calls \ done \subseteq CabinetCall /\ \A c \in calls \ done : OwnAnswer(c)
    BY DEF CabinetInv, CabinetTyped
<1>5. calls' \subseteq CabinetCall /\ (\A c \in calls' : OwnAnswer(c)) /\ CabinetPage!ConvertsLast(calls') = {}
    BY <1>1, <1>4, CabinetOutdated DEF CabinetPage!ConvertsLast
<1>6. CabinetTyped'
    BY <1>3, <1>5 DEF CabinetInv, CabinetTyped, OwnAnswer
<1>7. CabinetClosed' /\ DelayFits' /\ LastFits' /\ WaitsForOne'
    BY <1>0, <1>2, <1>3, <1>5 DEF CabinetClosed, DelayFits, LastFits, WaitsForOne
<1>8. CabinetPage!FieldsShowThePosition'
    BY <1>2, <1>3, CabinetKnown DEF CabinetPage!FieldsShowThePosition, CabinetPage!Known, CabinetPage!ShownText
<1> QED BY <1>6, <1>7, <1>8 DEF CabinetInv

(* Stored values are shown. *)
LEMMA CabinetShows ==
    ASSUME CabinetTyped, NEW p \in CabinetState,
           NEW row \in [rest : World.cabinet.Rest \union {Incomplete}, position : World.cabinet.Point \union {NoPosition}]
                         \union CabinetPage!Row
    PROVE  LET q == CabinetPage!WithStored(p, row)
           IN  /\ q \in CabinetState /\ q.route = p.route /\ q.system = p.system /\ q.delay = p.delay
               /\ q.loaded = p.loaded
               /\ q.position = row.position /\ q.text = CabinetPage!ShownText(q.system, row.position)
               /\ q.overtaken = (CabinetPage!ConvertsLast(calls) # {})
<1>1. /\ row.rest \in World.cabinet.Rest \union {Incomplete}
      /\ row.position \in World.cabinet.Point \union {NoPosition}
    BY DEF CabinetPage!Row
<1>2. CabinetPage!ShownText(p.system, row.position) \in CabinetPage!Texts \union {NoPosition}
    BY <1>1 DEF CabinetPage!ShownText, CabinetPage!Text, CabinetPage!Texts, CabinetState
<1>3. PICK over \in BOOLEAN : over = (CabinetPage!ConvertsLast(calls) # {})
    OBVIOUS
<1> DEFINE shown == CabinetPage!ShownText(p.system, row.position)
<1> DEFINE q == [p EXCEPT !.rest = row.rest, !.position = row.position, !.text = shown, !.overtaken = over]
<1>4. CabinetPage!WithStored(p, row) = q
    BY <1>3 DEF CabinetPage!WithStored
<1>5. shown \in CabinetPage!Texts \union {NoPosition}
    BY <1>2
<1> HIDE DEF shown
<1>6. /\ q \in CabinetState /\ q.route = p.route /\ q.system = p.system /\ q.delay = p.delay
      /\ q.loaded = p.loaded /\ q.position = row.position /\ q.text = shown /\ q.overtaken = over
  <2>1. PICK rest \in World.cabinet.Rest \union {Incomplete} : rest = row.rest
      BY <1>1
  <2>2. PICK position \in World.cabinet.Point \union {NoPosition} : position = row.position
      BY <1>1
  <2>3. PICK text \in CabinetPage!Texts \union {NoPosition} : text = shown
      BY <1>5
  <2> DEFINE q1 == [p EXCEPT !.rest = rest]
  <2>4. /\ q1 \in CabinetState /\ q1.route = p.route /\ q1.system = p.system /\ q1.delay = p.delay
        /\ q1.loaded = p.loaded
      BY DEF CabinetState
  <2> DEFINE q2 == [q1 EXCEPT !.position = position]
  <2>5. q = [q2 EXCEPT !.text = text, !.overtaken = over]
      BY <2>1, <2>2, <2>3
  <2> HIDE DEF q, q1
  <2>6. /\ q2 \in CabinetState /\ q2.route = p.route /\ q2.system = p.system /\ q2.delay = p.delay
        /\ q2.loaded = p.loaded /\ q2.position = position
      BY <2>4 DEF CabinetState
  <2> HIDE DEF q2
  <2>7. /\ q \in CabinetState /\ q.route = p.route /\ q.system = p.system /\ q.delay = p.delay
        /\ q.loaded = p.loaded /\ q.position = position /\ q.text = text /\ q.overtaken = over
      BY <2>5, <2>6 DEF CabinetState
  <2> QED BY <2>2, <2>3, <2>7
<1> HIDE DEF q
<1> QED BY <1>3, <1>4, <1>6 DEF shown

(* The page shows stored values, and no conversion comes or goes.          *)
LEMMA CabinetShown ==
    ASSUME CabinetInv, NEW p \in CabinetState, p.route = page.route, page.route # Closed,
           p.system = page.system, p.delay = page.delay,
           NEW row, row.position \in World.cabinet.Point \union {NoPosition},
           p.position = row.position, p.text = CabinetPage!ShownText(p.system, row.position),
           p.overtaken = (CabinetPage!ConvertsLast(calls) # {}),
           page' = p, UNCHANGED db, calls' \subseteq calls,
           CabinetPage!ConvertsLast(calls') = CabinetPage!ConvertsLast(calls)
    PROVE  CabinetInv'
<1>1. CabinetTyped'
    BY DEF CabinetInv, CabinetTyped, OwnAnswer
<1>2. CabinetClosed' /\ LastFits'
    BY DEF CabinetInv, CabinetClosed, LastFits
<1>3. page'.position # Checking /\ page'.position \in World.cabinet.Point \union {NoPosition}
    BY CabinetKnown DEF CabinetPage!Known
<1>4. DelayFits'
  <2>1. page'.text = NoPosition \/ page'.text = CabinetPage!Text(page'.system, row.position)
      BY DEF CabinetPage!ShownText
  <2>2. CabinetPage!Text(page'.system, row.position).point = row.position
      BY DEF CabinetPage!Text
  <2> QED BY <2>1, <2>2, CabinetKnown DEF DelayFits, CabinetPage!Known
<1>5. WaitsForOne' /\ CabinetPage!FieldsShowThePosition'
    BY <1>3 DEF WaitsForOne, CabinetPage!FieldsShowThePosition
<1> QED BY <1>1, <1>2, <1>4, <1>5 DEF CabinetInv

(* Nothing of the position changes, and no conversion comes or goes.       *)
LEMMA CabinetKeeps ==
    ASSUME CabinetInv, page' \in CabinetState, page' = page \/ page'.route # Closed,
           page.route # Closed \/ page' = page \/ CabinetPage!ConvertsLast(calls) = {},
           page'.system = page.system, page'.text = page.text, page'.position = page.position,
           page'.delay = page.delay, page'.overtaken = page.overtaken,
           UNCHANGED db, calls' \subseteq CabinetCall, \A c \in calls' : OwnAnswer(c),
           CabinetPage!ConvertsLast(calls') = CabinetPage!ConvertsLast(calls)
    PROVE  CabinetInv'
<1>1. CabinetTyped'
    BY DEF CabinetInv, CabinetTyped, OwnAnswer
<1>2. CabinetClosed' /\ DelayFits' /\ LastFits' /\ WaitsForOne' /\ CabinetPage!FieldsShowThePosition'
    BY DEF CabinetInv, CabinetClosed, DelayFits, LastFits, WaitsForOne, CabinetPage!FieldsShowThePosition
<1> QED BY <1>1, <1>2 DEF CabinetInv

(* A request that is no conversion goes out, or an answer arrives.         *)
LEMMA CabinetSends ==
    ASSUME CabinetInv, NEW k, NEW w, CabinetPage!Send(CabinetPage!Request(k, w)), k # "convert",
           CabinetPage!Request(k, w) \in CabinetCall
    PROVE  /\ calls' \subseteq CabinetCall /\ \A c \in calls' : OwnAnswer(c)
           /\ CabinetPage!ConvertsLast(calls') = CabinetPage!ConvertsLast(calls)
<1> DEFINE r == CabinetPage!Request(k, w)
<1>1. r.kind # "convert"
    BY DEF CabinetPage!Request
<1>2. CabinetPage!Exchange({}, {r}) /\ calls' = calls \union {r}
    BY DEF CabinetPage!Send, CabinetPage!Exchange
<1> HIDE DEF r
<1>3. CabinetPage!ConvertsLast(calls') = CabinetPage!ConvertsLast(calls)
    BY <1>1, <1>2, CabinetLastKept
<1> QED BY <1>1, <1>2, <1>3 DEF CabinetInv, CabinetTyped, OwnAnswer, r

LEMMA CabinetArrives ==
    ASSUME CabinetInv, NEW c \in calls, CabinetPage!Arrived(c)
    PROVE  /\ calls' \subseteq calls /\ calls' \subseteq CabinetCall /\ \A d \in calls' : OwnAnswer(d)
           /\ calls' = calls \ {c}
           /\ (c.kind # "convert" \/ ~ c.what.last) =>
                CabinetPage!ConvertsLast(calls') = CabinetPage!ConvertsLast(calls)
<1>1. CabinetPage!Exchange({c}, {}) /\ calls' = calls \ {c}
    BY DEF CabinetPage!Arrived, CabinetPage!Exchange
<1>2. c.kind # "convert" \/ ~ c.what.last => CabinetPage!ConvertsLast(calls') = CabinetPage!ConvertsLast(calls)
    BY <1>1, CabinetLastKept
<1> QED BY <1>1, <1>2 DEF CabinetInv, CabinetTyped

(* A call is answered, and stays what it was.                              *)
LEMMA CabinetReplies ==
    ASSUME CabinetInv, NEW c \in calls, NEW answer, CabinetPage!Reply(c, answer), UNCHANGED page,
           [c EXCEPT !.answer = answer] \in CabinetCall, OwnAnswer([c EXCEPT !.answer = answer]),
           db' \in [World.cabinet.Cabinet -> CabinetPage!Row \union {NoCabinet}]
    PROVE  CabinetInv'
<1> DEFINE r == [c EXCEPT !.answer = answer]
<1>1. calls' = (calls \ {c}) \union {r}
    BY DEF CabinetPage!Reply, CabinetPage!Exchange
<1>2. c \in CabinetCall
    BY DEF CabinetInv, CabinetTyped
<1>3. r.kind = c.kind /\ r.what = c.what
    BY <1>2 DEF CabinetCall
<1>4. r \in CabinetCall /\ OwnAnswer(r)
    OBVIOUS
<1> HIDE DEF r
<1>5. CabinetTyped'
  <2>1. calls' \subseteq CabinetCall /\ \A d \in calls' : OwnAnswer(d)
      BY <1>1, <1>4 DEF CabinetInv, CabinetTyped
  <2> QED BY <2>1 DEF CabinetInv, CabinetTyped, OwnAnswer
<1>6. LastFits' /\ (CabinetPage!ConvertsLast(calls) # {} => CabinetPage!ConvertsLast(calls') # {})
    BY <1>1, <1>3 DEF CabinetInv, LastFits, CabinetPage!ConvertsLast
<1>7. CabinetClosed' /\ DelayFits' /\ WaitsForOne' /\ CabinetPage!FieldsShowThePosition'
    BY <1>6 DEF CabinetInv, CabinetClosed, DelayFits, WaitsForOne, CabinetPage!FieldsShowThePosition
<1> QED BY <1>5, <1>6, <1>7 DEF CabinetInv

-----------------------------------------------------------------------------

LEMMA CabinetInit == ASSUME CabinetPage!Init PROVE CabinetInv
<1>1. CabinetPage!Empty \in CabinetState
    BY DEF CabinetPage!Empty, CabinetState, CabinetPage!System
<1>2. /\ CabinetPage!Empty.position = NoPosition /\ CabinetPage!Empty.text = NoPosition
      /\ CabinetPage!Empty.delay = FALSE
    BY DEF CabinetPage!Empty
<1>3. page = CabinetPage!Empty /\ calls = {} /\ db \in [World.cabinet.Cabinet -> CabinetPage!Row \union {NoCabinet}]
    BY CabinetKnown DEF CabinetPage!Init, CabinetPage!Known
<1>4. CabinetTyped /\ CabinetClosed /\ DelayFits /\ LastFits
    BY <1>1, <1>2, <1>3, CabinetKnown DEF CabinetTyped, CabinetClosed, DelayFits, LastFits, CabinetPage!ConvertsLast, CabinetPage!Known
<1>5. WaitsForOne /\ CabinetPage!FieldsShowThePosition
    BY <1>2, <1>3, CabinetKnown DEF WaitsForOne, CabinetPage!FieldsShowThePosition, CabinetPage!ShownText, CabinetPage!Known
<1> QED BY <1>4, <1>5 DEF CabinetInv

LEMMA CabinetOpen ==
    ASSUME CabinetInv, NEW route \in World.cabinet.Cabinet \union {NewCabinet}, CabinetPage!Open(route)
    PROVE  CabinetInv'
<1>1. CabinetPage!Request("fetch", [id |-> route]) \in CabinetCall
    BY DEF CabinetPage!Request, CabinetCall
<1>2. /\ calls' \subseteq CabinetCall /\ \A c \in calls' : OwnAnswer(c)
      /\ CabinetPage!ConvertsLast(calls') = CabinetPage!ConvertsLast(calls)
    BY <1>1, CabinetSends DEF CabinetPage!Open
<1>3. page \in CabinetState /\ page' = [page EXCEPT !.route = route, !.loaded = Pending]
    BY DEF CabinetInv, CabinetTyped, CabinetPage!Open
<1>4. /\ page' \in CabinetState /\ page'.route = route
      /\ page'.system = page.system /\ page'.text = page.text /\ page'.position = page.position
      /\ page'.delay = page.delay /\ page'.overtaken = page.overtaken
    BY <1>3 DEF CabinetState
<1>5. route # Closed
    BY CabinetKnown DEF CabinetPage!Known
<1>6. page.route # Closed \/ CabinetPage!ConvertsLast(calls) = {}
    BY DEF CabinetPage!Open, CabinetPage!ConvertsLast
<1> QED BY <1>2, <1>4, <1>5, <1>6, CabinetKeeps DEF CabinetPage!Open

(* Only an open page has a form or a delay. *)
LEMMA CabinetFormOpen ==
    ASSUME CabinetInv
    PROVE  /\ page \in CabinetState
           /\ CabinetPage!Form \/ page.delay => page.route # Closed
<1>1. /\ CabinetPage!Empty.loaded = Pending /\ CabinetPage!Empty.route = Closed
      /\ CabinetPage!Empty.delay = FALSE
    BY DEF CabinetPage!Empty
<1> QED BY <1>1, CabinetKnown DEF CabinetInv, CabinetTyped, CabinetClosed, CabinetPage!Form, CabinetPage!HasRow, CabinetPage!Known

LEMMA CabinetSetRest ==
    ASSUME CabinetInv, NEW r \in World.cabinet.Rest, CabinetPage!SetRest(r)
    PROVE  CabinetInv'
<1>1. page' = [page EXCEPT !.rest = r] /\ UNCHANGED <<db, calls>> /\ page.route # Closed /\ page \in CabinetState
    BY CabinetFormOpen DEF CabinetPage!SetRest, CabinetPage!Editing
<1>2. /\ page' \in CabinetState /\ page'.route = page.route
      /\ page'.system = page.system /\ page'.text = page.text /\ page'.position = page.position
      /\ page'.delay = page.delay /\ page'.overtaken = page.overtaken
    BY <1>1 DEF CabinetState
<1>3. /\ calls' \subseteq CabinetCall /\ \A c \in calls' : OwnAnswer(c)
      /\ CabinetPage!ConvertsLast(calls') = CabinetPage!ConvertsLast(calls)
    BY <1>1 DEF CabinetInv, CabinetTyped
<1> QED BY <1>1, <1>2, <1>3, CabinetKeeps

LEMMA CabinetSetText ==
    ASSUME CabinetInv, NEW text \in CabinetPage!Texts \union {NoPosition}, CabinetPage!SetText(text)
    PROVE  CabinetInv'
<1> DEFINE p == [page EXCEPT !.text = text]
<1>1. CabinetPage!CheckFields(p, {}) /\ UNCHANGED db /\ page.route # Closed /\ page \in CabinetState
    BY CabinetFormOpen DEF CabinetPage!SetText, CabinetPage!Editing
<1>2. p \in CabinetState /\ p.route = page.route
    BY <1>1 DEF CabinetState
<1> HIDE DEF p
<1> QED BY <1>1, <1>2, CabinetChecks

LEMMA CabinetApplyProposal ==
    ASSUME CabinetInv, CabinetPage!ApplyProposal
    PROVE  CabinetInv'
<1> DEFINE p == [page EXCEPT !.text.turned = FALSE]
<1>1. CabinetPage!CheckFields(p, {}) /\ UNCHANGED db /\ page.route # Closed /\ page \in CabinetState
    BY CabinetFormOpen DEF CabinetPage!ApplyProposal
<1>2. page.text # NoPosition
    BY DEF CabinetPage!ApplyProposal, CabinetInv, DelayFits
<1>3. p \in CabinetState /\ p.route = page.route
    BY <1>1, <1>2 DEF CabinetState, CabinetPage!Texts
<1> HIDE DEF p
<1> QED BY <1>1, <1>3, CabinetChecks

LEMMA CabinetSetSystem ==
    ASSUME CabinetInv, NEW system \in CabinetPage!System, CabinetPage!SetSystem(system)
    PROVE  CabinetInv'
<1>1. page.route # Closed /\ page \in CabinetState /\ UNCHANGED db
    BY CabinetFormOpen DEF CabinetPage!SetSystem, CabinetPage!Editing
<1>2. CASE page.position \in World.cabinet.Point
  <2> DEFINE p == [page EXCEPT !.system = system, !.text = CabinetPage!Text(system, page.position),
                               !.overtaken = CabinetPage!ConvertsLast(calls) # {}]
  <2>1. page' = p /\ UNCHANGED calls
      BY <1>2 DEF CabinetPage!SetSystem
  <2>2. PICK over \in BOOLEAN : over = (CabinetPage!ConvertsLast(calls) # {})
      OBVIOUS
  <2>3. PICK text : text = CabinetPage!Text(system, page.position)
      OBVIOUS
  <2>4. text \in CabinetPage!Texts
      BY <1>2, <2>3 DEF CabinetPage!Text, CabinetPage!Texts
  <2>5. p = [page EXCEPT !.system = system, !.text = text, !.overtaken = over]
      BY <2>2, <2>3
  <2> HIDE DEF p
  <2>6. /\ page' \in CabinetState /\ page'.route = page.route /\ page'.position = page.position
        /\ page'.text = text /\ page'.system = system /\ page'.overtaken = over /\ page'.delay = page.delay
      BY <1>1, <2>1, <2>4, <2>5 DEF CabinetState
  <2>7. text.point = page.position /\ text # NoPosition
    <3>1. text.point = page.position
        BY <2>3 DEF CabinetPage!Text
    <3> QED BY <2>4, <3>1, CabinetKnown DEF CabinetPage!Known
  <2>8. CabinetTyped'
      BY <1>1, <2>1, <2>6 DEF CabinetInv, CabinetTyped, OwnAnswer
  <2>9. CabinetClosed' /\ LastFits' /\ DelayFits'
      BY <1>1, <2>1, <2>2, <2>3, <2>6, <2>7 DEF CabinetInv, CabinetClosed, LastFits, DelayFits
  <2>10. WaitsForOne' /\ CabinetPage!FieldsShowThePosition'
      BY <1>2, <2>3, <2>6, CabinetKnown
      DEF CabinetPage!Known, WaitsForOne, CabinetPage!FieldsShowThePosition, CabinetPage!ShownText
  <2> QED BY <2>8, <2>9, <2>10 DEF CabinetInv
<1>3. CASE page.position \notin World.cabinet.Point
  <2> DEFINE p == [page EXCEPT !.system = system]
  <2>1. CabinetPage!CheckFields(p, {})
      BY <1>3 DEF CabinetPage!SetSystem
  <2>2. p \in CabinetState /\ p.route = page.route
      BY <1>1 DEF CabinetState
  <2> HIDE DEF p
  <2> QED BY <1>1, <2>1, <2>2, CabinetChecks
<1> QED BY <1>2, <1>3

(* A place was picked. *)
LEMMA CabinetPicks ==
    ASSUME CabinetInv, page.route # Closed, NEW p \in World.cabinet.Point, NEW done,
           CabinetPage!PickedAt(p, done), UNCHANGED db
    PROVE  CabinetInv'
<1> DEFINE r == CabinetPage!Request("convert", [point |-> p, fill |-> TRUE, last |-> TRUE])
<1>1. r.what.fill = TRUE
    BY DEF CabinetPage!Request
<1>2. /\ calls' \subseteq CabinetCall /\ \A c \in calls' : OwnAnswer(c)
      /\ CabinetPage!ConvertsLast(calls') = {r}
    BY CabinetConverts DEF CabinetPage!PickedAt, CabinetInv
<1> HIDE DEF r
<1>3. page \in CabinetState /\ page' = [page EXCEPT !.position = Checking, !.locating = FALSE]
    BY DEF CabinetInv, CabinetTyped, CabinetPage!PickedAt
<1>4. /\ page' \in CabinetState /\ page'.route = page.route /\ page'.position = Checking
      /\ page'.text = page.text /\ page'.system = page.system /\ page'.delay = page.delay
    BY <1>3 DEF CabinetState
<1>5. CabinetTyped'
    BY <1>2, <1>4 DEF CabinetInv, CabinetTyped, OwnAnswer
<1>6. CabinetClosed' /\ LastFits' /\ DelayFits' /\ WaitsForOne' /\ CabinetPage!FieldsShowThePosition'
    BY <1>1, <1>2, <1>4, CabinetKnown
    DEF CabinetInv, CabinetClosed, LastFits, DelayFits, WaitsForOne, CabinetPage!FieldsShowThePosition, CabinetPage!Known
<1> QED BY <1>5, <1>6 DEF CabinetInv

LEMMA CabinetDelayOver ==
    ASSUME CabinetInv, CabinetPage!DelayOver
    PROVE  CabinetInv'
<1>1. /\ page.route # Closed /\ page \in CabinetState /\ UNCHANGED db
      /\ page.delay /\ page' = [page EXCEPT !.delay = FALSE]
    BY CabinetFormOpen DEF CabinetPage!DelayOver
<1>2. /\ page' \in CabinetState /\ page'.route = page.route /\ page'.position = page.position
      /\ page'.text = page.text /\ page'.system = page.system /\ page'.delay = FALSE
      /\ page'.overtaken = page.overtaken
    BY <1>1 DEF CabinetState
<1>3. CASE page.text = NoPosition
  <2>1. UNCHANGED calls
      BY <1>3 DEF CabinetPage!DelayOver
  <2>2. CabinetTyped'
      BY <1>1, <1>2, <2>1 DEF CabinetInv, CabinetTyped, OwnAnswer
  <2>3. CabinetClosed' /\ LastFits' /\ DelayFits' /\ WaitsForOne' /\ CabinetPage!FieldsShowThePosition'
      BY <1>1, <1>2, <1>3, <2>1
      DEF CabinetInv, CabinetClosed, LastFits, DelayFits, WaitsForOne, CabinetPage!FieldsShowThePosition
  <2> QED BY <2>2, <2>3 DEF CabinetInv
<1>4. CASE page.text # NoPosition
  <2> DEFINE r == CabinetPage!Request("convert", [point |-> page.text.point, fill |-> FALSE, last |-> TRUE])
  <2>1. r.what.point = page.text.point
      BY DEF CabinetPage!Request
  <2>2. page.text.point \in World.cabinet.Point
      BY <1>1, <1>4 DEF CabinetState, CabinetPage!Texts
  <2>3. CabinetPage!Convert(page.text.point, FALSE, {})
      BY <1>4 DEF CabinetPage!DelayOver
  <2>4. /\ calls' \subseteq CabinetCall /\ \A c \in calls' : OwnAnswer(c)
        /\ CabinetPage!ConvertsLast(calls') = {r}
      BY <2>2, <2>3, CabinetConverts DEF CabinetInv
  <2> HIDE DEF r
  <2>5. CabinetTyped'
      BY <1>1, <1>2, <2>4 DEF CabinetInv, CabinetTyped, OwnAnswer
  <2>6. page.text = CabinetPage!Text(page.system, r.what.point)
      BY <1>1, <1>4, <2>1 DEF CabinetInv, DelayFits
  <2>7. CabinetClosed' /\ LastFits' /\ DelayFits' /\ WaitsForOne' /\ CabinetPage!FieldsShowThePosition'
      BY <1>1, <1>2, <2>4, <2>6
      DEF CabinetInv, CabinetClosed, LastFits, DelayFits, WaitsForOne, CabinetPage!FieldsShowThePosition
  <2> QED BY <2>5, <2>7 DEF CabinetInv
<1> QED BY <1>3, <1>4

LEMMA CabinetConverted ==
    ASSUME CabinetInv, page.route # Closed, NEW c \in calls, CabinetPage!Converted(c)
    PROVE  CabinetInv'
<1>1. /\ calls' = calls \ {c} /\ calls' \subseteq CabinetCall /\ \A d \in calls' : OwnAnswer(d)
      /\ c.kind # "convert" \/ ~ c.what.last =>
                CabinetPage!ConvertsLast(calls') = CabinetPage!ConvertsLast(calls)
    BY CabinetArrives DEF CabinetPage!Converted
<1>2. /\ page \in CabinetState /\ UNCHANGED db /\ c.kind = "convert" /\ c.what \in Conversion
      /\ c.answer \in {Failed, c.what.point} /\ c.what.point \in World.cabinet.Point
  <2>1. c \in CabinetCall /\ OwnAnswer(c) /\ c.kind = "convert" /\ c.answer # Unanswered
      BY DEF CabinetPage!Converted, CabinetPage!Answered, CabinetInv, CabinetTyped
  <2> QED BY <2>1 DEF CabinetCall, Conversion, OwnAnswer, CabinetPage!Converted, CabinetInv, CabinetTyped
<1>3. CASE ~ c.what.last
  <2>1. page' = page
      BY <1>3 DEF CabinetPage!Converted, CabinetPage!IsLast
  <2> QED BY <1>1, <1>2, <1>3, <2>1, CabinetKeeps
<1>4. CASE c.what.last
  <2>1. CabinetPage!ConvertsLast(calls') = {}
      BY <1>1, <1>2, <1>4 DEF CabinetInv, LastFits, CabinetPage!ConvertsLast
  <2>2. CASE c.answer = Failed
    <3>1. page' = [page EXCEPT !.position = Invalid]
        BY <1>4, <2>2 DEF CabinetPage!Converted, CabinetPage!IsLast
    <3>2. /\ page' \in CabinetState /\ page'.route = page.route /\ page'.position = Invalid
          /\ page'.text = page.text /\ page'.system = page.system /\ page'.delay = page.delay
        BY <1>2, <3>1 DEF CabinetState
    <3>3. CabinetTyped'
        BY <1>1, <1>2, <3>2 DEF CabinetInv, CabinetTyped, OwnAnswer
    <3>4. CabinetClosed' /\ LastFits' /\ DelayFits' /\ WaitsForOne' /\ CabinetPage!FieldsShowThePosition'
        BY <2>1, <3>2, CabinetKnown
        DEF CabinetInv, CabinetClosed, LastFits, DelayFits, WaitsForOne, CabinetPage!FieldsShowThePosition, CabinetPage!Known
    <3> QED BY <3>3, <3>4 DEF CabinetInv
  <2>3. CASE c.answer # Failed
    <3> DEFINE own == CabinetPage!Text(page.system, c.answer)
    <3>1. c.answer = c.what.point /\ c.answer \in World.cabinet.Point /\ own.point = c.answer
        BY <1>2, <2>3 DEF CabinetPage!Text
    <3>2. own \in CabinetPage!Texts
        BY <1>2, <3>1 DEF CabinetPage!Text, CabinetPage!Texts, CabinetState
    <3>3. own # NoPosition
        BY <3>2, CabinetKnown DEF CabinetPage!Known
    <3>4. PICK over \in BOOLEAN : over = (page.overtaken /\ ~ c.what.fill)
        OBVIOUS
    <3>5. PICK text \in CabinetPage!Texts \union {NoPosition} : text = IF c.what.fill THEN own ELSE page.text
        BY <1>2, <3>2 DEF CabinetState
    <3>6. page' = [page EXCEPT !.position = c.answer, !.overtaken = over, !.text = text]
        BY <1>4, <2>3, <3>4, <3>5 DEF CabinetPage!Converted, CabinetPage!IsLast
    <3>7. /\ page' \in CabinetState /\ page'.route = page.route /\ page'.position = c.answer
          /\ page'.text = text /\ page'.system = page.system /\ page'.delay = page.delay
          /\ page'.overtaken = over
      <4>1. page \in CabinetState /\ c.answer \in World.cabinet.Point
          BY <1>2, <3>1
      <4> HIDE DEF own
      <4> QED BY <4>1, <3>6 DEF CabinetState
    <3>8. c.what.fill \/ page.overtaken \/ page.text = own
        BY <1>2, <1>4, <3>1 DEF CabinetInv, LastFits, CabinetPage!ConvertsLast
    <3>9. CabinetTyped'
        BY <1>1, <1>2, <3>7 DEF CabinetInv, CabinetTyped, OwnAnswer
    <3>10. CabinetClosed' /\ LastFits' /\ WaitsForOne'
        BY <2>1, <3>1, <3>7, CabinetKnown
        DEF CabinetInv, CabinetClosed, LastFits, WaitsForOne, CabinetPage!Known
    <3> HIDE DEF own
    <3>11. c.answer \notin {Proposal, NoPosition}
        BY <3>1, CabinetKnown DEF CabinetPage!Known
    <3>12. CabinetPage!FieldsShowThePosition'
        BY <3>4, <3>5, <3>7, <3>8, <3>11 DEF CabinetPage!FieldsShowThePosition, CabinetPage!ShownText, own
    <3>13. DelayFits'
        BY <3>1, <3>5, <3>7, <3>11 DEF CabinetInv, DelayFits, own
    <3> QED BY <3>9, <3>10, <3>12, <3>13 DEF CabinetInv
  <2> QED BY <2>2, <2>3
<1> QED BY <1>3, <1>4

LEMMA CabinetLoaded ==
    ASSUME CabinetInv, page.route # Closed, NEW c \in calls, CabinetPage!Loaded(c)
    PROVE  CabinetInv'
<1>1. /\ page \in CabinetState /\ UNCHANGED db /\ c.kind = "fetch"
      /\ c.answer \in CabinetPage!Row \union {Failed, NoCabinet}
    BY DEF CabinetPage!Loaded, CabinetPage!Answered, CabinetInv, CabinetTyped, CabinetCall
<1>2. /\ calls' \subseteq calls /\ calls' \subseteq CabinetCall /\ \A d \in calls' : OwnAnswer(d)
      /\ CabinetPage!ConvertsLast(calls') = CabinetPage!ConvertsLast(calls)
    BY <1>1, CabinetArrives DEF CabinetPage!Loaded
<1>3. CASE c.answer = Failed
  <2>1. page' = [page EXCEPT !.loaded = Failed]
      BY <1>3 DEF CabinetPage!Loaded
  <2>2. /\ page' \in CabinetState /\ page'.route = page.route
        /\ page'.system = page.system /\ page'.text = page.text /\ page'.position = page.position
        /\ page'.delay = page.delay /\ page'.overtaken = page.overtaken
      BY <1>1, <2>1 DEF CabinetState
  <2> QED BY <1>1, <1>2, <2>2, CabinetKeeps
<1>4. ASSUME c.answer # Failed, NEW got \in CabinetPage!Row \union {NoCabinet},
             NEW row \in [rest : World.cabinet.Rest \union {Incomplete}, position : World.cabinet.Point \union {NoPosition}]
                         \union CabinetPage!Row,
             page' = [CabinetPage!WithStored(page, row) EXCEPT !.loaded = got]
      PROVE  CabinetInv'
  <2> DEFINE q == CabinetPage!WithStored(page, row)
  <2>1. /\ q \in CabinetState /\ q.route = page.route /\ q.system = page.system /\ q.delay = page.delay
        /\ q.position = row.position /\ q.text = CabinetPage!ShownText(q.system, row.position)
        /\ q.overtaken = (CabinetPage!ConvertsLast(calls) # {})
      BY <1>1, CabinetShows DEF CabinetInv
  <2>2. page' = [q EXCEPT !.loaded = got]
      BY <1>4
  <2> HIDE DEF q
  <2>3. /\ page' \in CabinetState /\ page'.route = q.route /\ page'.system = q.system /\ page'.delay = q.delay
        /\ page'.position = q.position /\ page'.text = q.text /\ page'.overtaken = q.overtaken
      BY <2>1, <2>2 DEF CabinetState
  <2>4. row.position \in World.cabinet.Point \union {NoPosition}
      BY DEF CabinetPage!Row
  <2>5. PICK p : p = page'
      OBVIOUS
  <2>6. /\ p \in CabinetState /\ p.route = page.route /\ p.system = page.system /\ p.delay = page.delay
        /\ p.position = row.position /\ p.text = CabinetPage!ShownText(p.system, row.position)
        /\ p.overtaken = (CabinetPage!ConvertsLast(calls) # {}) /\ page' = p
      BY <2>1, <2>3, <2>5
  <2> QED BY <1>1, <1>2, <2>4, <2>6, CabinetShown
<1>5. CASE c.answer = NoCabinet /\ c.answer # Failed
  <2> DEFINE row == [rest |-> Incomplete, position |-> NoPosition]
  <2>1. row \in [rest : World.cabinet.Rest \union {Incomplete}, position : World.cabinet.Point \union {NoPosition}]
      OBVIOUS
  <2>2. page' = [CabinetPage!WithStored(page, row) EXCEPT !.loaded = NoCabinet]
      BY <1>5 DEF CabinetPage!Loaded
  <2> HIDE DEF row
  <2> QED BY <1>4, <1>5, <2>1, <2>2
<1>6. CASE c.answer # NoCabinet /\ c.answer # Failed
  <2>1. page' = [CabinetPage!WithStored(page, c.answer) EXCEPT !.loaded = c.answer]
      BY <1>6 DEF CabinetPage!Loaded
  <2> QED BY <1>1, <1>4, <1>6, <2>1
<1> QED BY <1>3, <1>5, <1>6

(* The page is closed and emptied. *)
LEMMA CabinetEmptied ==
    ASSUME CabinetInv, page' = CabinetPage!Empty, UNCHANGED db, calls' \subseteq calls
    PROVE  CabinetInv'
<1>1. CabinetPage!Empty \in CabinetState
    BY DEF CabinetPage!Empty, CabinetState, CabinetPage!System
<1>2. /\ CabinetPage!Empty.position = NoPosition /\ CabinetPage!Empty.text = NoPosition
      /\ CabinetPage!Empty.delay = FALSE /\ CabinetPage!Empty.route = Closed
    BY DEF CabinetPage!Empty
<1>3. CabinetTyped'
    BY <1>1 DEF CabinetInv, CabinetTyped, OwnAnswer
<1>4. CabinetClosed' /\ LastFits'
    BY <1>2 DEF CabinetInv, CabinetClosed, LastFits, CabinetPage!ConvertsLast
<1>5. DelayFits' /\ WaitsForOne' /\ CabinetPage!FieldsShowThePosition'
    BY <1>2, CabinetKnown
    DEF DelayFits, WaitsForOne, CabinetPage!FieldsShowThePosition, CabinetPage!ShownText, CabinetPage!Known
<1> QED BY <1>3, <1>4, <1>5 DEF CabinetInv

LEMMA CabinetSaved ==
    ASSUME CabinetInv, page.route # Closed, NEW c \in calls, CabinetPage!Saved(c)
    PROVE  CabinetInv'
<1>1. /\ page \in CabinetState /\ UNCHANGED db /\ c.kind = "store"
      /\ c.answer \in CabinetPage!Row \union {Failed}
    BY DEF CabinetPage!Saved, CabinetPage!Answered, CabinetInv, CabinetTyped, CabinetCall
<1>2. /\ calls' \subseteq calls /\ calls' \subseteq CabinetCall /\ \A d \in calls' : OwnAnswer(d)
      /\ CabinetPage!ConvertsLast(calls') = CabinetPage!ConvertsLast(calls)
    BY <1>1, CabinetArrives DEF CabinetPage!Saved
<1>3. CASE c.answer = Failed
  <2>1. page' = [page EXCEPT !.saving = FALSE]
      BY <1>3 DEF CabinetPage!Saved
  <2>2. /\ page' \in CabinetState /\ page'.route = page.route
        /\ page'.system = page.system /\ page'.text = page.text /\ page'.position = page.position
        /\ page'.delay = page.delay /\ page'.overtaken = page.overtaken
      BY <1>1, <2>1 DEF CabinetState
  <2> QED BY <1>1, <1>2, <2>2, CabinetKeeps
<1>4. CASE c.answer # Failed /\ c.what.id = NewCabinet
  <2>1. page' = CabinetPage!Empty
      BY <1>4 DEF CabinetPage!Saved
  <2> QED BY <1>1, <1>2, <2>1, CabinetEmptied
<1>5. CASE c.answer # Failed /\ c.what.id # NewCabinet
  <2> DEFINE q == CabinetPage!WithStored(page, c.answer)
  <2>1. c.answer \in CabinetPage!Row
      BY <1>1, <1>5
  <2>2. /\ q \in CabinetState /\ q.route = page.route /\ q.system = page.system /\ q.delay = page.delay
        /\ q.loaded = page.loaded
        /\ q.position = c.answer.position /\ q.text = CabinetPage!ShownText(q.system, c.answer.position)
        /\ q.overtaken = (CabinetPage!ConvertsLast(calls) # {})
      BY <1>1, <2>1, CabinetShows DEF CabinetInv
  <2>3. PICK got \in CabinetPage!Row \union {Pending, Failed, NoCabinet} :
            got = IF page.loaded \in {Pending, Failed} THEN q.loaded ELSE c.answer
      BY <1>1, <2>1, <2>2
  <2>4. page' = [q EXCEPT !.saving = FALSE, !.loaded = got]
      BY <1>5, <2>3 DEF CabinetPage!Saved
  <2> HIDE DEF q
  <2>5. /\ page' \in CabinetState /\ page'.route = q.route /\ page'.system = q.system /\ page'.delay = q.delay
        /\ page'.position = q.position /\ page'.text = q.text /\ page'.overtaken = q.overtaken
      BY <2>2, <2>4 DEF CabinetState
  <2>6. c.answer.position \in World.cabinet.Point \union {NoPosition}
      BY <2>1 DEF CabinetPage!Row
  <2>7. PICK p : p = page'
      OBVIOUS
  <2>8. /\ p \in CabinetState /\ p.route = page.route /\ p.system = page.system /\ p.delay = page.delay
        /\ p.position = c.answer.position /\ p.text = CabinetPage!ShownText(p.system, c.answer.position)
        /\ p.overtaken = (CabinetPage!ConvertsLast(calls) # {}) /\ page' = p
      BY <2>2, <2>5, <2>7
  <2> QED BY <1>1, <1>2, <2>6, <2>8, CabinetShown
<1> QED BY <1>3, <1>4, <1>5

LEMMA CabinetDeleted ==
    ASSUME CabinetInv, page.route # Closed, NEW c \in calls, CabinetPage!Deleted(c)
    PROVE  CabinetInv'
<1>1. /\ calls' \subseteq calls /\ calls' \subseteq CabinetCall /\ \A d \in calls' : OwnAnswer(d)
      /\ CabinetPage!ConvertsLast(calls') = CabinetPage!ConvertsLast(calls)
    BY CabinetArrives DEF CabinetPage!Deleted, CabinetPage!Answered
<1>2. UNCHANGED db /\ page' \in {page, CabinetPage!Empty}
    BY DEF CabinetPage!Deleted
<1>3. page \in CabinetState
    BY DEF CabinetInv, CabinetTyped
<1> QED BY <1>1, <1>2, <1>3, CabinetKeeps, CabinetEmptied

LEMMA CabinetLocated ==
    ASSUME CabinetInv, page.route # Closed, NEW c \in calls, CabinetPage!Located(c)
    PROVE  CabinetInv'
<1>1. /\ page \in CabinetState /\ UNCHANGED db /\ c.kind = "locate"
      /\ c.answer \in World.cabinet.Point \union {Failed}
    BY DEF CabinetPage!Located, CabinetPage!Answered, CabinetInv, CabinetTyped, CabinetCall
<1>2. CASE c.answer = Failed
  <2>1. /\ calls' \subseteq calls /\ calls' \subseteq CabinetCall /\ \A d \in calls' : OwnAnswer(d)
        /\ CabinetPage!ConvertsLast(calls') = CabinetPage!ConvertsLast(calls)
      BY <1>1, <1>2, CabinetArrives DEF CabinetPage!Located
  <2>2. page' = [page EXCEPT !.locating = FALSE]
      BY <1>2 DEF CabinetPage!Located
  <2>3. /\ page' \in CabinetState /\ page'.route = page.route
        /\ page'.system = page.system /\ page'.text = page.text /\ page'.position = page.position
        /\ page'.delay = page.delay /\ page'.overtaken = page.overtaken
      BY <1>1, <2>2 DEF CabinetState
  <2> QED BY <1>1, <2>1, <2>3, CabinetKeeps
<1>3. CASE c.answer # Failed
  <2>1. CabinetPage!PickedAt(c.answer, {c}) /\ c.answer \in World.cabinet.Point
      BY <1>1, <1>3 DEF CabinetPage!Located
  <2> QED BY <1>1, <2>1, CabinetPicks
<1> QED BY <1>2, <1>3

LEMMA CabinetLocate ==
    ASSUME CabinetInv, CabinetPage!Locate
    PROVE  CabinetInv'
<1>1. /\ page.route # Closed /\ page \in CabinetState /\ UNCHANGED db
      /\ page' = [page EXCEPT !.locating = TRUE]
    BY CabinetFormOpen DEF CabinetPage!Locate
<1>2. CabinetPage!Request("locate", [device |-> TRUE]) \in CabinetCall
    BY DEF CabinetPage!Request, CabinetCall
<1>3. /\ calls' \subseteq CabinetCall /\ \A c \in calls' : OwnAnswer(c)
      /\ CabinetPage!ConvertsLast(calls') = CabinetPage!ConvertsLast(calls)
    BY <1>2, CabinetSends DEF CabinetPage!Locate
<1>4. /\ page' \in CabinetState /\ page'.route = page.route
      /\ page'.system = page.system /\ page'.text = page.text /\ page'.position = page.position
      /\ page'.delay = page.delay /\ page'.overtaken = page.overtaken
    BY <1>1 DEF CabinetState
<1> QED BY <1>1, <1>3, <1>4, CabinetKeeps

LEMMA CabinetSave ==
    ASSUME CabinetInv, CabinetPage!Save
    PROVE  CabinetInv'
<1>1. /\ page.route # Closed /\ page \in CabinetState /\ UNCHANGED db
      /\ page' = [page EXCEPT !.saving = TRUE]
    BY CabinetFormOpen DEF CabinetPage!Save
<1>2. /\ page.route \in World.cabinet.Cabinet \union {NewCabinet} /\ page.rest \in World.cabinet.Rest
      /\ page.position \in World.cabinet.Point \union {NoPosition}
    BY <1>1 DEF CabinetPage!Save, CabinetState
<1>3. CabinetPage!Request("store", [id |-> page.route, rest |-> page.rest, position |-> page.position]) \in CabinetCall
    BY <1>2 DEF CabinetPage!Request, CabinetCall
<1>4. /\ calls' \subseteq CabinetCall /\ \A c \in calls' : OwnAnswer(c)
      /\ CabinetPage!ConvertsLast(calls') = CabinetPage!ConvertsLast(calls)
    BY <1>3, CabinetSends DEF CabinetPage!Save
<1>5. /\ page' \in CabinetState /\ page'.route = page.route
      /\ page'.system = page.system /\ page'.text = page.text /\ page'.position = page.position
      /\ page'.delay = page.delay /\ page'.overtaken = page.overtaken
    BY <1>1 DEF CabinetState
<1> QED BY <1>1, <1>4, <1>5, CabinetKeeps

LEMMA CabinetDelete ==
    ASSUME CabinetInv, CabinetPage!Delete
    PROVE  CabinetInv'
<1>1. page.route # Closed /\ page \in CabinetState /\ UNCHANGED <<db, page>> /\ page.route # NewCabinet
    BY CabinetFormOpen DEF CabinetPage!Delete
<1>2. page.route \in World.cabinet.Cabinet
    BY <1>1 DEF CabinetState
<1>3. CabinetPage!Request("delete", [id |-> page.route]) \in CabinetCall
    BY <1>2 DEF CabinetPage!Request, CabinetCall
<1>4. /\ calls' \subseteq CabinetCall /\ \A c \in calls' : OwnAnswer(c)
      /\ CabinetPage!ConvertsLast(calls') = CabinetPage!ConvertsLast(calls)
    BY <1>3, CabinetSends DEF CabinetPage!Delete
<1> QED BY <1>1, <1>4, CabinetKeeps

LEMMA CabinetServe ==
    ASSUME CabinetInv, NEW c \in calls, CabinetPage!Serve(c)
    PROVE  CabinetInv'
<1>1. c \in CabinetCall /\ db \in [World.cabinet.Cabinet -> CabinetPage!Row \union {NoCabinet}]
    BY DEF CabinetInv, CabinetTyped
<1>2. CASE CabinetPage!ServeFetch(c)
  <2> DEFINE answer == IF c.what.id = NewCabinet THEN NoCabinet ELSE db[c.what.id]
  <2>1. c.kind = "fetch" /\ CabinetPage!Reply(c, answer) /\ UNCHANGED <<db, page>>
      BY <1>2 DEF CabinetPage!ServeFetch, CabinetPage!Waiting
  <2>2. c \in [kind : {"fetch"}, what : [id : World.cabinet.Cabinet \union {NewCabinet}],
               answer : CabinetPage!Row \union {Unanswered, Failed, NoCabinet}]
      BY <1>1, <2>1 DEF CabinetCall
  <2>3. answer \in CabinetPage!Row \union {NoCabinet}
      BY <1>1, <2>2
  <2> HIDE DEF answer
  <2>4. [c EXCEPT !.answer = answer] \in CabinetCall /\ OwnAnswer([c EXCEPT !.answer = answer])
      BY <2>2, <2>3 DEF CabinetCall, OwnAnswer
  <2> QED BY <1>1, <2>1, <2>4, CabinetReplies
<1>3. CASE CabinetPage!ServeConvert(c)
  <2> DEFINE answer == IF c.what.point \in World.cabinet.Foreign THEN Failed ELSE c.what.point
  <2>1. c.kind = "convert" /\ CabinetPage!Reply(c, answer) /\ UNCHANGED <<db, page>>
      BY <1>3 DEF CabinetPage!ServeConvert, CabinetPage!Waiting
  <2>2. c \in [kind : {"convert"}, what : Conversion, answer : World.cabinet.Point \union {Unanswered, Failed}]
      BY <1>1, <2>1 DEF CabinetCall
  <2>3. answer \in {c.what.point, Failed} /\ c.what.point \in World.cabinet.Point
      BY <2>2 DEF Conversion
  <2> HIDE DEF answer
  <2>4. [c EXCEPT !.answer = answer] \in CabinetCall /\ OwnAnswer([c EXCEPT !.answer = answer])
      BY <2>2, <2>3 DEF CabinetCall, OwnAnswer
  <2> QED BY <1>1, <2>1, <2>4, CabinetReplies
<1>4. CASE CabinetPage!ServeLocate(c)
  <2>1. PICK answer \in World.cabinet.Point \union {Failed} :
            c.kind = "locate" /\ CabinetPage!Reply(c, answer) /\ UNCHANGED <<db, page>>
      BY <1>4 DEF CabinetPage!ServeLocate, CabinetPage!Waiting
  <2>2. c \in [kind : {"locate"}, what : [device : {TRUE}], answer : World.cabinet.Point \union {Unanswered, Failed}]
      BY <1>1, <2>1 DEF CabinetCall
  <2>3. [c EXCEPT !.answer = answer] \in CabinetCall /\ OwnAnswer([c EXCEPT !.answer = answer])
      BY <2>2 DEF CabinetCall, OwnAnswer
  <2> QED BY <1>1, <2>1, <2>3, CabinetReplies
<1>5. CASE CabinetPage!ServeDelete(c)
  <2>1. PICK answer \in {Failed, TRUE} : c.kind = "delete" /\ CabinetPage!Reply(c, answer) /\ UNCHANGED page
      BY <1>5 DEF CabinetPage!ServeDelete, CabinetPage!Waiting
  <2>2. db' \in [World.cabinet.Cabinet -> CabinetPage!Row \union {NoCabinet}]
      BY <1>1, <1>5 DEF CabinetPage!ServeDelete
  <2>3. c \in [kind : {"delete"}, what : [id : World.cabinet.Cabinet], answer : {Unanswered, Failed, TRUE}]
      BY <1>1, <2>1 DEF CabinetCall
  <2>4. [c EXCEPT !.answer = answer] \in CabinetCall /\ OwnAnswer([c EXCEPT !.answer = answer])
      BY <2>3 DEF CabinetCall, OwnAnswer
  <2> QED BY <2>1, <2>2, <2>4, CabinetReplies
<1>6. CASE CabinetPage!ServeStore(c)
  <2> DEFINE row == [rest |-> c.what.rest, position |-> c.what.position, used |-> FALSE]
  <2>1. c.kind = "store" /\ UNCHANGED page
      BY <1>6 DEF CabinetPage!ServeStore, CabinetPage!Waiting
  <2>2. c \in [kind : {"store"},
               what : [id : World.cabinet.Cabinet \union {NewCabinet}, rest : World.cabinet.Rest,
                       position : World.cabinet.Point \union {NoPosition}],
               answer : CabinetPage!Row \union {Unanswered, Failed}]
      BY <1>1, <2>1 DEF CabinetCall
  <2>3. row \in CabinetPage!Row
      BY <2>2 DEF CabinetPage!Row
  <2>4. ASSUME NEW k \in World.cabinet.Cabinet, db[k] # NoCabinet
        PROVE  [row EXCEPT !.used = db[k].used] \in CabinetPage!Row
    <3>1. db[k] \in CabinetPage!Row
        BY <1>1, <2>4
    <3> QED BY <2>3, <3>1 DEF CabinetPage!Row
  <2> HIDE DEF row
  <2>5. PICK answer \in CabinetPage!Row \union {Failed} :
            /\ CabinetPage!Reply(c, answer)
            /\ db' \in [World.cabinet.Cabinet -> CabinetPage!Row \union {NoCabinet}]
    <3>1. CASE c.what.id = NewCabinet
      <4>1. PICK k \in World.cabinet.Cabinet : db' = [db EXCEPT ![k] = row] /\ CabinetPage!Reply(c, row)
          BY <1>6, <3>1 DEF CabinetPage!ServeStore, row
      <4> QED BY <1>1, <2>3, <4>1
    <3>2. CASE c.what.id # NewCabinet /\ db[c.what.id] = NoCabinet
        BY <1>1, <1>6, <3>2 DEF CabinetPage!ServeStore
    <3>3. CASE c.what.id # NewCabinet /\ db[c.what.id] # NoCabinet
      <4> DEFINE updated == [row EXCEPT !.used = db[c.what.id].used]
      <4>1. updated \in CabinetPage!Row
          BY <2>2, <2>4, <3>3
      <4>2. db' = [db EXCEPT ![c.what.id] = updated] /\ CabinetPage!Reply(c, updated)
          BY <1>6, <3>3 DEF CabinetPage!ServeStore, row
      <4> HIDE DEF updated
      <4> QED BY <1>1, <4>1, <4>2
    <3> QED BY <3>1, <3>2, <3>3
  <2>6. [c EXCEPT !.answer = answer] \in CabinetCall /\ OwnAnswer([c EXCEPT !.answer = answer])
      BY <2>2 DEF CabinetCall, OwnAnswer
  <2> QED BY <2>1, <2>5, <2>6, CabinetReplies
<1> QED BY <1>2, <1>3, <1>4, <1>5, <1>6 DEF CabinetPage!Serve

LEMMA CabinetRefuse ==
    ASSUME CabinetInv, CabinetPage!Refuse
    PROVE  CabinetInv'
<1>1. PICK c \in calls : CabinetPage!Reply(c, Failed) /\ UNCHANGED <<db, page>>
    BY DEF CabinetPage!Refuse
<1>2. c \in CabinetCall /\ db \in [World.cabinet.Cabinet -> CabinetPage!Row \union {NoCabinet}]
    BY DEF CabinetInv, CabinetTyped
<1>3. [c EXCEPT !.answer = Failed] \in CabinetCall /\ OwnAnswer([c EXCEPT !.answer = Failed])
    BY <1>2 DEF CabinetCall, OwnAnswer
<1> QED BY <1>1, <1>2, <1>3, CabinetReplies

LEMMA CabinetForget ==
    ASSUME CabinetInv, CabinetPage!Forget
    PROVE  CabinetInv'
<1>1. PICK c \in calls : CabinetPage!Arrived(c)
    BY DEF CabinetPage!Forget
<1>2. calls' \subseteq calls
    BY <1>1, CabinetArrives
<1>3. page' = CabinetPage!Empty /\ UNCHANGED db
    BY DEF CabinetPage!Forget, CabinetInv, CabinetClosed
<1> QED BY <1>2, <1>3, CabinetEmptied

LEMMA CabinetStep ==
    ASSUME CabinetInv, [CabinetPage!Next]_<<db, page, calls, spent>>
    PROVE  CabinetInv'
<1>1. CASE UNCHANGED <<db, page, calls, spent>>
    BY <1>1 DEF CabinetInv, CabinetTyped, CabinetClosed, DelayFits, LastFits, WaitsForOne, OwnAnswer,
       CabinetPage!FieldsShowThePosition, CabinetPage!ConvertsLast
<1>2. CASE CabinetPage!Typing
    BY <1>2, CabinetSetRest, CabinetSetText, CabinetSetSystem, CabinetApplyProposal, CabinetLocate, CabinetPicks
    DEF CabinetPage!Typing, CabinetPage!Click
<1>3. ASSUME NEW c \in calls, CabinetPage!Arrival(c) PROVE CabinetInv'
    BY <1>3, CabinetConverted, CabinetLoaded, CabinetLocated, CabinetSaved, CabinetDeleted DEF CabinetPage!Arrival
<1> QED BY <1>1, <1>2, <1>3, CabinetOpen, CabinetDelayOver, CabinetSave, CabinetDelete, CabinetServe,
           CabinetRefuse, CabinetForget DEF CabinetPage!Next

-----------------------------------------------------------------------------
(* The page of a manhole, among the others. *)
CabinetKept == kind = "cabinet" => CabinetInv

LEMMA CabinetAlways == Spec => []CabinetKept
<1>1. Init => CabinetKept
    BY CabinetInit DEF Init, CabinetKept
<1>2. CabinetKept /\ [Next]_vars => CabinetKept'
  <2> SUFFICES ASSUME CabinetKept, [Next]_vars, kind = "cabinet" PROVE CabinetInv'
      BY DEF CabinetKept, Next, vars
  <2>1. [CabinetPage!Next]_<<db, page, calls, spent>>
      BY DEF Next, vars
  <2> QED BY <2>1, CabinetStep DEF CabinetKept
<1> QED BY <1>1, <1>2, PTL DEF Spec

(* A page that waits for a conversion of what was typed gets one: the      *)
(* delay that asks for it runs, or it is under way (WaitsForOne).          *)
THEOREM ConversionsEnd == Spec => []CheckingEnds
<1>1. CabinetKept => CheckingEnds
    BY DEF CabinetKept, CabinetInv, WaitsForOne, CheckingEnds, CabinetPage!CheckingEnds
<1> QED BY <1>1, CabinetAlways, PTL

(* The position that would be stored is the one in the fields: of all the  *)
(* conversions under way at most one counts, that of the text (LastFits).  *)
THEOREM FieldsAreThePosition == Spec => []FieldsShowThePosition
<1>1. CabinetKept => FieldsShowThePosition
    BY DEF CabinetKept, CabinetInv, FieldsShowThePosition
<1> QED BY <1>1, CabinetAlways, PTL
=============================================================================
