-------------------------- MODULE PanelGuardProofs --------------------------
(***************************************************************************)
(* Theorems about the pages that attach and loop fibers on the ports of a  *)
(* panel, and about the question before any page is left: for any ports,   *)
(* cables, plans and addresses, any number of edits and a history of any   *)
(* length.                                                                 *)
(***************************************************************************)
EXTENDS Pages, Integers, FiniteSets, Sequences, SequenceTheorems, FiniteSetTheorems, TLAPS

-----------------------------------------------------------------------------
(* The page that attaches fibers *)

(* What a side of a port may hold. *)
Holding == FiberPage!Fiber \union {Removed}
Shows(p) == p.state \notin {Pending, Failed}

(* A side holds what was loaded, or a fiber that was free everywhere in    *)
(* the manhole then.                                                       *)
HeldFits(p) ==
    /\ p.state.usage \in [FiberPage!PanelSlots -> Holding]
    /\ p.held \in [FiberPage!PanelSlots -> Holding]
    /\ \A s \in FiberPage!PanelSlots :
          /\ p.state.usage[s] \in FiberPage!Fiber => p.state.usage[s] \in p.state.used
          /\ World.fibers.PortType[s[1]] = "Loop" => p.held[s] = p.state.usage[s]
          /\ p.held[s] = p.state.usage[s] \/ p.held[s] \notin p.state.used
    /\ \A s, t \in FiberPage!PanelSlots :
          p.held[s] = p.held[t] /\ p.held[s] \in FiberPage!Fiber =>
              \/ s = t
              \/ p.held[s] = p.state.usage[s] /\ p.held[t] = p.state.usage[t]

FiberPageOK(p) ==
    /\ DOMAIN p = {"route", "state", "held", "reset", "saving", "edited", "dropped"}
    /\ p.route \in World.fibers.Plan \union {Closed}
    /\ p.route = Closed => p.state = Pending /\ p.saving = FALSE
    /\ Shows(p) => HeldFits(p)

(* A request to store: without resets, what is not sent is stored already. *)
StoreFits(what) ==
    /\ what.plan \in World.fibers.Plan
    /\ \A s \in DOMAIN what.changes : what.changes[s] \in FiberPage!Row
    /\ what.reset = {} /\ what.seen = what.plan =>
          \A s \in FiberPage!PanelSlots :
              IF s \in DOMAIN what.changes
              THEN what.changes[s] = what.held[s] /\ what.held[s] \in Holding
              ELSE what.held[s] = FiberPage!EffectivePortUsage(db, what.plan, s)
IsStored(what) ==
    what.reset = {} /\ what.seen = what.plan =>
        \A s \in FiberPage!PanelSlots :
            what.held[s] = FiberPage!EffectivePortUsage(db, what.plan, s)

FiberCallOK(c) ==
    /\ DOMAIN c = {"kind", "what", "answer"}
    /\ page.route # Closed
    /\ \/ /\ c.kind = "fetch" /\ page.state = Pending /\ page.saving = FALSE
          /\ c.what.plan \in World.fibers.Plan
          /\ c.answer \notin {Unanswered, Failed} => c.answer = FiberPage!Situation(c.what.plan)
       \/ /\ c.kind = "store" /\ Shows(page) /\ page.saving = TRUE
          /\ c.answer \in {Unanswered, Failed, TRUE}
          /\ c.answer = Unanswered => StoreFits(c.what)
          /\ c.answer = TRUE => IsStored(c.what)

(* What is loaded is what is stored, until something was stored.           *)
IsCurrent ==
    Shows(page) =>
        \/ /\ page.state.plan \in World.fibers.Plan
           /\ page.state = FiberPage!Situation(page.state.plan)
        \/ \E c \in calls : c.kind = "store" /\ c.answer = TRUE

FiberInv ==
    /\ db \in [FiberPage!Plans -> [FiberPage!Slot -> FiberPage!Row]]
    /\ FiberPageOK(page) /\ IsCurrent
    /\ \A c, d \in calls : c = d
    /\ \A c \in calls : FiberCallOK(c)

-----------------------------------------------------------------------------
(* What the backend answers *)

LEMMA EffectiveHolds ==
    ASSUME db \in [FiberPage!Plans -> [FiberPage!Slot -> FiberPage!Row]],
           NEW p \in FiberPage!Plans, NEW s \in FiberPage!Slot
    PROVE  FiberPage!EffectivePortUsage(db, p, s) \in Holding
<1>1. World.fibers.Baseline \in FiberPage!Plans
    BY DEF FiberPage!Plans
<1>2. db[p][s] \in FiberPage!Row /\ db[World.fibers.Baseline][s] \in FiberPage!Row
    BY DEF FiberPage!Plans
<1> QED BY <1>2 DEF FiberPage!EffectivePortUsage, FiberPage!Row, Holding

(* What is loaded fits: the fibers the panel holds are among those used.   *)
LEMMA SituationFits ==
    ASSUME db \in [FiberPage!Plans -> [FiberPage!Slot -> FiberPage!Row]],
           NEW p \in World.fibers.Plan, NEW q,
           q.state = FiberPage!Situation(p), q.held = q.state.usage
    PROVE  HeldFits(q)
<1>1. FiberPage!PanelSlots \subseteq FiberPage!Slot /\ p \in FiberPage!Plans
    BY DEF FiberPage!PanelSlots, FiberPage!Plans
<1>2. q.state.usage = [s \in FiberPage!PanelSlots |-> FiberPage!EffectivePortUsage(db, p, s)]
    BY DEF FiberPage!Situation
<1>3. q.state.used = {f \in FiberPage!Fiber : \E s \in FiberPage!Slot :
                         FiberPage!Here(s) /\ FiberPage!EffectivePortUsage(db, p, s) = f}
    BY DEF FiberPage!Situation
<1>4. \A s \in FiberPage!PanelSlots :
          q.state.usage[s] = FiberPage!EffectivePortUsage(db, p, s) /\ q.state.usage[s] \in Holding
    BY <1>1, <1>2, EffectiveHolds
<1>5. q.state.usage \in [FiberPage!PanelSlots -> Holding]
    BY <1>2, <1>4
<1>6. \A s \in FiberPage!PanelSlots : FiberPage!Here(s)
    BY FiberKnown DEF FiberPage!Known
<1>7. \A s \in FiberPage!PanelSlots :
          q.state.usage[s] \in FiberPage!Fiber => q.state.usage[s] \in q.state.used
    BY <1>1, <1>3, <1>4, <1>6
<1> QED BY <1>5, <1>7 DEF HeldFits

-----------------------------------------------------------------------------
(* Steps *)

LEMMA FiberInit == ASSUME FiberPage!Init PROVE FiberInv
<1>1. db \in [FiberPage!Plans -> [FiberPage!Slot -> FiberPage!Row]]
    BY FiberKnown DEF FiberPage!Init, FiberPage!Known
<1>2. /\ DOMAIN page = {"route", "state", "held", "reset", "saving", "edited", "dropped"}
      /\ page.route = Closed /\ page.state = Pending /\ page.saving = FALSE
    BY DEF FiberPage!Init, FiberPage!Empty
<1> QED BY <1>1, <1>2 DEF FiberPage!Init, FiberInv, FiberPageOK, Shows, IsCurrent

(* On an edited form nothing is under way. *)
LEMMA FormIsQuiet ==
    ASSUME FiberInv, FiberPage!Form
    PROVE  calls = {} /\ Shows(page) /\ HeldFits(page) /\ page.route # Closed
           /\ page.state.plan \in World.fibers.Plan
           /\ page.state = FiberPage!Situation(page.state.plan)
<1>1. Shows(page) /\ page.saving # TRUE
    BY DEF FiberPage!Form, FiberPage!Loaded, Shows
<1>2. calls = {}
    BY <1>1 DEF FiberInv, FiberCallOK, Shows
<1> QED BY <1>1, <1>2 DEF FiberInv, FiberPageOK, IsCurrent, Shows

(* The form is edited. *)
LEMMA FiberEdited ==
    ASSUME FiberInv, FiberPage!Editing, DOMAIN page' = DOMAIN page,
           page'.route = page.route, page'.state = page.state, page'.saving = page.saving,
           HeldFits(page')
    PROVE  FiberInv'
<1>1. /\ calls = {} /\ Shows(page) /\ page.route # Closed
      /\ page.state.plan \in World.fibers.Plan
      /\ page.state = FiberPage!Situation(page.state.plan)
    BY FormIsQuiet DEF FiberPage!Editing
<1>2. calls' = {} /\ db' = db
    BY <1>1 DEF FiberPage!Editing
<1>3. (page.state = FiberPage!Situation(page.state.plan))'
    BY <1>1, <1>2 DEF FiberPage!Situation
<1>4. IsCurrent'
    BY <1>1, <1>3 DEF IsCurrent
<1>5. FiberPageOK(page)'
    BY <1>1 DEF FiberInv, FiberPageOK, Shows, HeldFits
<1> QED BY <1>2, <1>4, <1>5 DEF FiberInv

LEMMA FiberAttach ==
    ASSUME FiberInv, NEW s \in FiberPage!PanelSlots, FiberPage!AttachFiber(s)
    PROVE  FiberInv'
<1>1. PICK f \in FiberPage!FreeFibers : FiberPage!SetHeld(s, f)
    BY DEF FiberPage!AttachFiber
<1>2. /\ f \in FiberPage!Fiber /\ f \notin page.state.used
      /\ \A t \in FiberPage!PanelSlots : page.held[t] # f
    BY DEF FiberPage!FreeFibers
<1>3. HeldFits(page) /\ DOMAIN page = {"route", "state", "held", "reset", "saving", "edited", "dropped"}
    BY FormIsQuiet DEF FiberPage!AttachFiber, FiberPage!Editing, FiberInv, FiberPageOK
<1>4. /\ DOMAIN page' = DOMAIN page /\ page'.route = page.route /\ page'.state = page.state
      /\ page'.saving = page.saving /\ page'.held = [page.held EXCEPT ![s] = f]
    BY <1>1, <1>3 DEF FiberPage!SetHeld
<1>5. page'.held \in [FiberPage!PanelSlots -> Holding] /\ page'.held[s] = f
      /\ \A t \in FiberPage!PanelSlots : t # s => page'.held[t] = page.held[t]
    BY <1>2, <1>3, <1>4 DEF HeldFits, Holding
<1>6. World.fibers.PortType[s[1]] # "Loop"
    BY DEF FiberPage!AttachFiber, FiberPage!Editable
<1>7. HeldFits(page')
    BY <1>2, <1>3, <1>4, <1>5, <1>6 DEF HeldFits
<1> QED BY <1>4, <1>7, FiberEdited DEF FiberPage!AttachFiber

LEMMA FiberClear ==
    ASSUME FiberInv, NEW s \in FiberPage!PanelSlots, FiberPage!ClearSlot(s)
    PROVE  FiberInv'
<1>1. Removed \notin FiberPage!Fiber
    BY FiberKnown DEF FiberPage!Known
<1>3. HeldFits(page) /\ DOMAIN page = {"route", "state", "held", "reset", "saving", "edited", "dropped"}
    BY FormIsQuiet DEF FiberPage!ClearSlot, FiberPage!Editing, FiberInv, FiberPageOK
<1>4. /\ DOMAIN page' = DOMAIN page /\ page'.route = page.route /\ page'.state = page.state
      /\ page'.saving = page.saving /\ page'.held = [page.held EXCEPT ![s] = Removed]
    BY <1>3 DEF FiberPage!ClearSlot, FiberPage!SetHeld
<1>5. page'.held \in [FiberPage!PanelSlots -> Holding] /\ page'.held[s] = Removed
      /\ \A t \in FiberPage!PanelSlots : t # s => page'.held[t] = page.held[t]
    BY <1>3, <1>4 DEF HeldFits, Holding
<1>6. World.fibers.PortType[s[1]] # "Loop"
    BY DEF FiberPage!ClearSlot, FiberPage!Editable
<1>7. page.state.used \subseteq FiberPage!Fiber
  <2>1. page.state = FiberPage!Situation(page.state.plan)
      BY FormIsQuiet DEF FiberPage!ClearSlot, FiberPage!Editing
  <2>2. \A p : FiberPage!Situation(p).used \subseteq FiberPage!Fiber
      BY DEF FiberPage!Situation
  <2> QED BY <2>1, <2>2
<1>8. HeldFits(page')
    BY <1>1, <1>3, <1>4, <1>5, <1>6, <1>7 DEF HeldFits
<1> QED BY <1>4, <1>8, FiberEdited DEF FiberPage!ClearSlot

(* A port gets back what was loaded: no other holds it newly, because it   *)
(* was used then.                                                          *)
LEMMA FiberReset ==
    ASSUME FiberInv, NEW port, FiberPage!ResetPort(port)
    PROVE  FiberInv'
<1>1. HeldFits(page) /\ DOMAIN page = {"route", "state", "held", "reset", "saving", "edited", "dropped"}
    BY FormIsQuiet DEF FiberPage!ResetPort, FiberPage!Editing, FiberInv, FiberPageOK
<1>2. /\ DOMAIN page' = DOMAIN page /\ page'.route = page.route /\ page'.state = page.state
      /\ page'.saving = page.saving
      /\ page'.held = [s \in FiberPage!PanelSlots |-> IF s \in FiberPage!Sides(port)
                                                      THEN page.state.usage[s] ELSE page.held[s]]
    BY <1>1 DEF FiberPage!ResetPort
<1>3. page'.held \in [FiberPage!PanelSlots -> Holding]
    BY <1>1, <1>2 DEF HeldFits
<1>4. \A s \in FiberPage!PanelSlots :
          page'.held[s] = page.state.usage[s] \/ page'.held[s] = page.held[s]
    BY <1>2
<1>5. \A s, t \in FiberPage!PanelSlots :
          (page'.held[s] = page'.held[t] /\ page'.held[s] \in FiberPage!Fiber) =>
              \/ s = t
              \/ page'.held[s] = page.state.usage[s] /\ page'.held[t] = page.state.usage[t]
    BY <1>1, <1>4 DEF HeldFits
<1>6. HeldFits(page')
    BY <1>1, <1>2, <1>3, <1>4, <1>5 DEF HeldFits
<1> QED BY <1>2, <1>6, FiberEdited DEF FiberPage!ResetPort

(* A page without data asks for them. *)
LEMMA FiberFetches ==
    ASSUME FiberInv, NEW p \in World.fibers.Plan, calls' = {FiberPage!Fetch(p)}, db' = db,
           DOMAIN page' = DOMAIN page, page'.route \in World.fibers.Plan, page'.route # Closed,
           page'.state = Pending, page'.saving = FALSE
    PROVE  FiberInv'
<1> DEFINE r == FiberPage!Fetch(p)
<1>1. DOMAIN r = {"kind", "what", "answer"} /\ r.kind = "fetch" /\ r.what.plan = p /\ r.answer = Unanswered
    BY DEF FiberPage!Fetch, FiberPage!Request
<1>2. FiberCallOK(r)'
    BY <1>1 DEF FiberCallOK
<1> HIDE DEF r
<1>3. \A c \in calls' : c = r
    BY DEF r
<1>4. (\A c, d \in calls : c = d)' /\ (\A c \in calls : FiberCallOK(c))'
    BY <1>2, <1>3 DEF FiberCallOK
<1> QED BY <1>4 DEF FiberInv, FiberPageOK, IsCurrent, Shows

LEMMA FiberOpen ==
    ASSUME FiberInv, NEW p \in World.fibers.Plan, FiberPage!Open(p) \/ FiberPage!SwitchPlan(p)
    PROVE  FiberInv'
<1>1. DOMAIN page = {"route", "state", "held", "reset", "saving", "edited", "dropped"} /\ p # Closed
    BY FiberKnown DEF FiberInv, FiberPageOK, FiberPage!Known
<1>2. CASE FiberPage!Open(p)
  <2>1. page'.route = p /\ page'.state = page.state /\ page'.saving = page.saving
        /\ DOMAIN page' = DOMAIN page /\ db' = db
      BY <1>1, <1>2 DEF FiberPage!Open
  <2>2. calls' = {FiberPage!Fetch(p)}
      BY <1>2 DEF FiberPage!Open, FiberPage!Send, FiberPage!Exchange
  <2>3. page.state = Pending /\ page.saving = FALSE
      BY <1>2 DEF FiberInv, FiberPageOK, FiberPage!Open
  <2> QED BY <1>1, <2>1, <2>2, <2>3, FiberFetches
<1>3. CASE FiberPage!SwitchPlan(p)
  <2>1. PICK lost : page' = [page EXCEPT !.route = p, !.edited = {}, !.dropped = lost]
      BY <1>3 DEF FiberPage!SwitchPlan
  <2>2. /\ page'.route = p /\ page'.state = page.state /\ page'.saving = page.saving
        /\ page'.held = page.held /\ DOMAIN page' = DOMAIN page
        /\ db' = db /\ calls' = calls /\ page.route # Closed
      BY <1>1, <1>3, <2>1 DEF FiberPage!SwitchPlan
  <2>3. (FiberPageOK(page) /\ IsCurrent)'
      BY <1>1, <2>2 DEF FiberInv, FiberPageOK, HeldFits, Shows, IsCurrent, FiberPage!Situation
  <2>4. ASSUME NEW c \in calls PROVE FiberCallOK(c)'
    <3>1. FiberCallOK(c)
        BY DEF FiberInv
    <3>2. \A what : StoreFits(what)' = StoreFits(what) /\ IsStored(what)' = IsStored(what)
        BY <2>2 DEF StoreFits, IsStored
    <3>3. \A p_1 : FiberPage!Situation(p_1)' = FiberPage!Situation(p_1)
        BY <2>2 DEF FiberPage!Situation
    <3> QED BY <1>1, <2>2, <3>1, <3>2, <3>3 DEF FiberCallOK, Shows
  <2> QED BY <2>2, <2>3, <2>4 DEF FiberInv
<1> QED BY <1>2, <1>3

(* What is sent: without resets, each side that shows something else than  *)
(* was loaded.                                                             *)
LEMMA ChangesFit ==
    ASSUME HeldFits(page), NEW changes, changes = FiberPage!Changes
    PROVE  /\ \A s \in DOMAIN changes : changes[s] \in FiberPage!Row
           /\ page.reset = {} => \A s \in FiberPage!PanelSlots :
                 IF s \in DOMAIN changes THEN changes[s] = page.held[s]
                                         ELSE page.held[s] = page.state.usage[s]
<1> DEFINE reset == {s \in FiberPage!PanelSlots : s[1] \in page.reset /\ s[2] = "Front"}
           differ == {s \in FiberPage!PanelSlots :
                         /\ FiberPage!Editable(s) /\ s[1] \notin page.reset
                         /\ page.held[s] # page.state.usage[s]}
<1>1. changes = [s \in reset \union differ |-> IF s \in reset THEN NoRow ELSE page.held[s]]
    BY DEF FiberPage!Changes
<1>2. \A s \in FiberPage!PanelSlots : page.held[s] \in FiberPage!Row
    BY DEF HeldFits, Holding, FiberPage!Row
<1>3. NoRow \in FiberPage!Row
    BY DEF FiberPage!Row
<1>4. \A s \in DOMAIN changes : changes[s] \in FiberPage!Row
    BY <1>1, <1>2, <1>3
<1>5. ASSUME page.reset = {}, NEW s \in FiberPage!PanelSlots
      PROVE  IF s \in DOMAIN changes THEN changes[s] = page.held[s]
                                     ELSE page.held[s] = page.state.usage[s]
  <2>1. reset = {}
      BY <1>5
  <2>2. DOMAIN changes = differ /\ (s \in differ => changes[s] = page.held[s])
      BY <1>1, <2>1
  <2>3. s \notin differ => page.held[s] = page.state.usage[s]
      BY <1>5 DEF FiberPage!Editable, HeldFits
  <2> HIDE DEF differ
  <2> QED BY <2>2, <2>3
<1> QED BY <1>4, <1>5

LEMMA FiberSave == ASSUME FiberInv, FiberPage!Save PROVE FiberInv'
<1>1. /\ calls = {} /\ Shows(page) /\ HeldFits(page) /\ page.route # Closed
      /\ page.state.plan \in World.fibers.Plan
      /\ page.state = FiberPage!Situation(page.state.plan)
    BY FormIsQuiet DEF FiberPage!Save
<1>2. DOMAIN page = {"route", "state", "held", "reset", "saving", "edited", "dropped"}
    BY DEF FiberInv, FiberPageOK
<1>3. page.route \in World.fibers.Plan
    BY <1>1 DEF FiberInv, FiberPageOK
<1>4. CASE FiberPage!Changes = <<>>
  <2>1. /\ page'.state = Pending /\ page'.saving = FALSE /\ page'.route = page.route
        /\ DOMAIN page' = DOMAIN page
      BY <1>2, <1>4 DEF FiberPage!Save, FiberPage!SaveUnchanged
  <2>2. calls' = {FiberPage!Fetch(page.route)} /\ db' = db
      BY <1>1, <1>4 DEF FiberPage!Save, FiberPage!SaveUnchanged, FiberPage!Send, FiberPage!Exchange
  <2> QED BY <1>1, <1>3, <2>1, <2>2, FiberFetches
<1>5. CASE FiberPage!Changes # <<>>
  <2>1. /\ page'.saving = TRUE /\ page'.state = page.state /\ page'.route = page.route
        /\ page'.held = page.held /\ DOMAIN page' = DOMAIN page /\ db' = db
      BY <1>2, <1>5 DEF FiberPage!Save
  <2>2. PICK r : calls' = {r} /\ r = [kind |-> "store", what |->
            [plan |-> page.route, changes |-> FiberPage!Changes, seen |-> page.state.plan,
             held |-> page.held, reset |-> page.reset, dropped |-> page.dropped], answer |-> Unanswered]
      BY <1>1, <1>5 DEF FiberPage!Save, FiberPage!Send, FiberPage!Exchange, FiberPage!Request
  <2>3. PICK what : what = r.what
      OBVIOUS
  <2>4. PICK changes : changes = FiberPage!Changes
      OBVIOUS
  <2>5. /\ DOMAIN r = {"kind", "what", "answer"} /\ r.kind = "store" /\ r.what = what /\ r.answer = Unanswered
        /\ what.plan = page.route /\ what.changes = changes /\ what.seen = page.state.plan
        /\ what.held = page.held /\ what.reset = page.reset
      BY <2>2, <2>3, <2>4
  <2>6. /\ \A s \in DOMAIN changes : changes[s] \in FiberPage!Row
        /\ page.reset = {} => \A s \in FiberPage!PanelSlots :
              IF s \in DOMAIN changes THEN changes[s] = page.held[s]
                                      ELSE page.held[s] = page.state.usage[s]
      BY <1>1, <2>4, ChangesFit
  <2>7. page.state.usage = [s \in FiberPage!PanelSlots |->
                               FiberPage!EffectivePortUsage(db, page.state.plan, s)]
    <3>1. \A p : FiberPage!Situation(p).usage =
                    [s \in FiberPage!PanelSlots |-> FiberPage!EffectivePortUsage(db, p, s)]
        BY DEF FiberPage!Situation
    <3> QED BY <1>1, <3>1
  <2>8. \A s \in FiberPage!PanelSlots :
            page.held[s] \in Holding
            /\ page.state.usage[s] = FiberPage!EffectivePortUsage(db, page.state.plan, s)
      BY <1>1, <2>7 DEF HeldFits
  <2>9. StoreFits(what)'
    <3>1. /\ what.plan \in World.fibers.Plan
          /\ \A s \in DOMAIN what.changes : what.changes[s] \in FiberPage!Row
        BY <1>3, <2>5, <2>6
    <3>2. ASSUME what.reset = {}, what.seen = what.plan, NEW s \in FiberPage!PanelSlots
          PROVE  IF s \in DOMAIN what.changes
                 THEN what.changes[s] = what.held[s] /\ what.held[s] \in Holding
                 ELSE what.held[s] = FiberPage!EffectivePortUsage(db, what.plan, s)
      <4>1. page.reset = {} /\ page.state.plan = what.plan /\ what.held = page.held /\ what.changes = changes
          BY <2>5, <3>2
      <4>2. page.state.usage[s] = FiberPage!EffectivePortUsage(db, what.plan, s) /\ page.held[s] \in Holding
          BY <2>8, <4>1
      <4>3. IF s \in DOMAIN changes THEN changes[s] = page.held[s]
                                     ELSE page.held[s] = page.state.usage[s]
          BY <2>6, <4>1
      <4> QED BY <4>1, <4>2, <4>3
    <3>3. StoreFits(what)
        BY <3>1, <3>2 DEF StoreFits
    <3> QED BY <2>1, <3>3 DEF StoreFits
  <2>10. Unanswered # TRUE /\ Shows(page')
      BY <1>1, <2>1, FiberKnown DEF FiberPage!Known, Shows
  <2>11. FiberCallOK(r)'
      BY <1>1, <2>1, <2>5, <2>9, <2>10 DEF FiberCallOK
  <2>12. IsCurrent'
      BY <1>1, <2>1 DEF IsCurrent, FiberPage!Situation
  <2>13. FiberPageOK(page)'
      BY <1>1, <1>2, <1>3, <2>1 DEF FiberPageOK, HeldFits
  <2> QED BY <2>1, <2>2, <2>11, <2>12, <2>13 DEF FiberInv
<1> QED BY <1>4, <1>5

(* An answer to the only request under way. *)
LEMMA FiberTakes ==
    ASSUME FiberInv, NEW c \in calls, NEW sent, FiberPage!Exchange({c}, sent)
    PROVE  calls = {c} /\ calls' = sent /\ FiberCallOK(c)
BY DEF FiberInv, FiberPage!Exchange

LEMMA FiberArrives ==
    ASSUME FiberInv, NEW c \in calls,
           FiberPage!DataFetched(c) \/ FiberPage!FetchFailed(c)
    PROVE  FiberInv'
<1>1. /\ calls' = {} /\ FiberCallOK(c) /\ c.kind = "fetch" /\ c.answer # Unanswered /\ db' = db
    BY FiberTakes DEF FiberPage!DataFetched, FiberPage!FetchFailed, FiberPage!Arrival, FiberPage!Answered,
           FiberPage!Arrived
<1>2. DOMAIN page = {"route", "state", "held", "reset", "saving", "edited", "dropped"}
      /\ page.route # Closed
    BY <1>1 DEF FiberInv, FiberPageOK, FiberCallOK
<1>3. CASE FiberPage!FetchFailed(c)
  <2>1. DOMAIN page' = DOMAIN page /\ page'.route = page.route /\ page'.state = Failed
      BY <1>2, <1>3 DEF FiberPage!FetchFailed
  <2> QED BY <1>1, <1>2, <2>1 DEF FiberInv, FiberPageOK, IsCurrent, Shows
<1>4. CASE FiberPage!DataFetched(c)
  <2>1. /\ DOMAIN page' = DOMAIN page /\ page'.route = page.route /\ page'.state = c.answer
        /\ page'.held = c.answer.usage
      BY <1>2, <1>4 DEF FiberPage!DataFetched
  <2>2. PICK p \in World.fibers.Plan : c.answer = FiberPage!Situation(p)
      BY <1>1, <1>4 DEF FiberCallOK, FiberPage!DataFetched
  <2>3. PICK q : q = page'
      OBVIOUS
  <2>4. HeldFits(q)
      BY <2>1, <2>2, <2>3, SituationFits DEF FiberInv
  <2>5. p = c.answer.plan /\ \A p_1 : FiberPage!Situation(p_1)' = FiberPage!Situation(p_1)
      BY <1>1, <2>2 DEF FiberPage!Situation
  <2>6. IsCurrent'
      BY <1>1, <2>1, <2>2, <2>5 DEF IsCurrent, FiberPage!Situation
  <2> QED BY <1>1, <1>2, <2>1, <2>3, <2>4, <2>6 DEF FiberInv, FiberPageOK, HeldFits
<1> QED BY <1>3, <1>4

LEMMA FiberSaved == ASSUME FiberInv, NEW c \in calls, FiberPage!Saved(c) PROVE FiberInv'
<1>1. DOMAIN page = {"route", "state", "held", "reset", "saving", "edited", "dropped"}
    BY DEF FiberInv, FiberPageOK
<1>2. FiberCallOK(c) /\ c.kind = "store" /\ c.answer # Unanswered /\ db' = db
    BY DEF FiberInv, FiberPage!Saved, FiberPage!Answered
<1>3. page.route # Closed /\ page.route \in World.fibers.Plan
    BY <1>1, <1>2 DEF FiberCallOK, FiberInv, FiberPageOK
<1>4. CASE c.answer = Failed
  <2>1. calls = {c} /\ calls' = {} /\ TRUE # Failed
      BY <1>4, FiberTakes, FiberKnown DEF FiberPage!Saved, FiberPage!Arrived, FiberPage!Known
  <2>2. /\ DOMAIN page' = DOMAIN page /\ page'.route = page.route /\ page'.state = page.state
        /\ page'.held = page.held
      BY <1>1, <1>4 DEF FiberPage!Saved
  <2>3. IsCurrent'
    <3>1. Shows(page) => /\ page.state.plan \in World.fibers.Plan
                         /\ page.state = FiberPage!Situation(page.state.plan)
        BY <1>4, <2>1 DEF FiberInv, IsCurrent
    <3> QED BY <1>2, <2>2, <3>1 DEF IsCurrent, Shows, FiberPage!Situation
  <2> QED BY <1>1, <1>2, <1>3, <2>1, <2>2, <2>3 DEF FiberInv, FiberPageOK, HeldFits, Shows
<1>5. CASE c.answer # Failed
  <2>1. calls' = {FiberPage!Fetch(page.route)}
      BY <1>5, FiberTakes DEF FiberPage!Saved
  <2>2. /\ DOMAIN page' = DOMAIN page /\ page'.route = page.route /\ page'.state = Pending
        /\ page'.saving = FALSE
      BY <1>1, <1>5 DEF FiberPage!Saved
  <2> QED BY <1>2, <1>3, <2>1, <2>2, FiberFetches
<1> QED BY <1>4, <1>5

-----------------------------------------------------------------------------
(* The backend *)

(* The only request is answered, and the page does not know yet.           *)
LEMMA FiberReplies ==
    ASSUME FiberInv, NEW c \in calls, NEW answer, FiberPage!Reply(c, answer), page' = page
    PROVE  \E r : /\ calls' = {r} /\ DOMAIN r = DOMAIN c
                  /\ r.kind = c.kind /\ r.what = c.what /\ r.answer = answer
<1> DEFINE r == [c EXCEPT !.answer = answer]
<1>1. calls' = {r} /\ FiberCallOK(c)
    BY FiberTakes DEF FiberPage!Reply
<1>2. /\ DOMAIN r = DOMAIN c /\ r.kind = c.kind /\ r.what = c.what /\ r.answer = answer
    BY <1>1 DEF FiberCallOK
<1> HIDE DEF r
<1> QED BY <1>1, <1>2

(* Nothing is stored. *)
LEMMA FiberAnswers ==
    ASSUME FiberInv, NEW c \in calls, c.answer = Unanswered, NEW answer,
           FiberPage!Reply(c, answer), page' = page, db' = db,
           \/ answer = Failed
           \/ c.kind = "fetch" /\ answer = FiberPage!Situation(c.what.plan)
    PROVE  FiberInv'
<1>1. PICK r : /\ calls' = {r} /\ DOMAIN r = DOMAIN c
               /\ r.kind = c.kind /\ r.what = c.what /\ r.answer = answer
    BY FiberReplies
<1>2. FiberCallOK(c) /\ calls = {c} /\ Unanswered # TRUE /\ Failed # TRUE
    BY FiberKnown DEF FiberInv, FiberPage!Known
<1>3. \A p : FiberPage!Situation(p)' = FiberPage!Situation(p)
    BY DEF FiberPage!Situation
<1>4. FiberCallOK(r)'
  <2>1. CASE answer = Failed
      BY <1>1, <1>2, <2>1 DEF FiberCallOK, Shows, StoreFits
  <2>2. CASE c.kind = "fetch" /\ answer = FiberPage!Situation(c.what.plan)
      BY <1>1, <1>2, <1>3, <2>2 DEF FiberCallOK
  <2> QED BY <2>1, <2>2
<1>5. IsCurrent'
  <2>1. Shows(page) => /\ page.state.plan \in World.fibers.Plan
                       /\ page.state = FiberPage!Situation(page.state.plan)
      BY <1>2 DEF FiberInv, IsCurrent
  <2> QED BY <2>1 DEF IsCurrent, Shows, FiberPage!Situation
<1> QED BY <1>1, <1>4, <1>5 DEF FiberInv, FiberPageOK, HeldFits, Shows

LEMMA FiberServeStore == ASSUME FiberInv, NEW c \in calls, FiberPage!ServeStore(c) PROVE FiberInv'
<1> DEFINE what == c.what
           slots == DOMAIN what.changes
           after == [db EXCEPT ![what.plan] =
                        [s \in FiberPage!Slot |-> IF s \in slots THEN what.changes[s] ELSE @[s]]]
<1>1. /\ c.kind = "store" /\ c.answer = Unanswered /\ page' = page
      /\ \/ FiberPage!Reply(c, Failed) /\ db' = db
         \/ FiberPage!Reply(c, TRUE) /\ db' = after
    BY DEF FiberPage!ServeStore, FiberPage!Waiting
<1>2. CASE FiberPage!Reply(c, Failed) /\ db' = db
    BY <1>1, <1>2, FiberAnswers
<1>3. CASE FiberPage!Reply(c, TRUE) /\ db' = after
  <2>1. PICK yes : yes = TRUE
      OBVIOUS
  <2>2. FiberPage!Reply(c, yes)
      BY <1>3, <2>1 DEF FiberPage!Reply
  <2>3. PICK r : /\ calls' = {r} /\ DOMAIN r = DOMAIN c
                 /\ r.kind = c.kind /\ r.what = c.what /\ r.answer = yes
      BY <1>1, <2>2, FiberReplies
  <2>4. /\ calls' = {r} /\ DOMAIN r = DOMAIN c
        /\ r.kind = c.kind /\ r.what = what /\ r.answer = TRUE
      BY <2>1, <2>3
  <2>5. FiberCallOK(c) /\ StoreFits(what) /\ TRUE \notin {Unanswered, Failed}
      BY <1>1, FiberKnown DEF FiberInv, FiberCallOK, FiberPage!Known
  <2>6. /\ what.plan \in FiberPage!Plans /\ World.fibers.Baseline \in FiberPage!Plans
        /\ what.plan # World.fibers.Baseline
      BY <2>5, FiberKnown DEF StoreFits, FiberPage!Known, FiberPage!Plans
  <2>7. /\ db' \in [FiberPage!Plans -> [FiberPage!Slot -> FiberPage!Row]]
        /\ db'[World.fibers.Baseline] = db[World.fibers.Baseline]
        /\ \A s \in FiberPage!Slot :
              db'[what.plan][s] = IF s \in slots THEN what.changes[s] ELSE db[what.plan][s]
      BY <1>3, <2>5, <2>6 DEF FiberInv, StoreFits
  <2>8. ASSUME what.reset = {}, what.seen = what.plan, NEW s \in FiberPage!PanelSlots
        PROVE  what.held[s] = FiberPage!EffectivePortUsage(db', what.plan, s)
    <3>1. s \in FiberPage!Slot
        BY DEF FiberPage!PanelSlots
    <3>2. CASE s \in slots
      <4>1. db'[what.plan][s] = what.held[s] /\ what.held[s] \in Holding
          BY <2>5, <2>7, <2>8, <3>1, <3>2 DEF StoreFits
      <4>2. NoRow \notin Holding
          BY FiberKnown DEF FiberPage!Known, Holding
      <4> QED BY <4>1, <4>2 DEF FiberPage!EffectivePortUsage
    <3>3. CASE s \notin slots
      <4>1. what.held[s] = FiberPage!EffectivePortUsage(db, what.plan, s)
          BY <2>5, <2>8, <3>3 DEF StoreFits
      <4> QED BY <2>7, <3>1, <3>3, <4>1 DEF FiberPage!EffectivePortUsage
    <3> QED BY <3>2, <3>3
  <2> HIDE DEF what, after, slots
  <2>9. IsStored(what)'
      BY <2>8 DEF IsStored
  <2>10. FiberCallOK(r)'
      BY <1>1, <2>4, <2>5, <2>9 DEF FiberCallOK, Shows
  <2>11. IsCurrent'
      BY <1>1, <2>4 DEF IsCurrent
  <2> QED BY <1>1, <2>4, <2>7, <2>10, <2>11 DEF FiberInv, FiberPageOK, HeldFits, Shows
<1> QED BY <1>1, <1>2, <1>3

LEMMA FiberStep == ASSUME FiberInv, [FiberPage!Next]_<<db, page, calls, spent>> PROVE FiberInv'
<1>1. CASE UNCHANGED <<db, page, calls, spent>>
  <2>1. page' = page /\ db' = db /\ calls' = calls
      BY <1>1
  <2>2. \A what : StoreFits(what)' = StoreFits(what) /\ IsStored(what)' = IsStored(what)
      BY <2>1 DEF StoreFits, IsStored
  <2>3. \A p : FiberPage!Situation(p)' = FiberPage!Situation(p)
      BY <2>1 DEF FiberPage!Situation
  <2>4. \A c \in calls : FiberCallOK(c)'
      BY <2>1, <2>2, <2>3 DEF FiberInv, FiberCallOK, Shows
  <2>5. (FiberPageOK(page) /\ IsCurrent)'
      BY <2>1 DEF FiberInv, FiberPageOK, HeldFits, Shows, IsCurrent, FiberPage!Situation
  <2> QED BY <2>1, <2>4, <2>5 DEF FiberInv
<1>2. ASSUME NEW p \in World.fibers.Plan, FiberPage!Open(p) \/ FiberPage!SwitchPlan(p) PROVE FiberInv'
    BY <1>2, FiberOpen
<1>3. ASSUME NEW s \in FiberPage!PanelSlots, FiberPage!AttachFiber(s) \/ FiberPage!ClearSlot(s) PROVE FiberInv'
    BY <1>3, FiberAttach, FiberClear
<1>4. ASSUME NEW port, FiberPage!ResetPort(port) PROVE FiberInv'
    BY <1>4, FiberReset
<1>5. ASSUME NEW c \in calls, FiberPage!ServeFetch(c) PROVE FiberInv'
    BY <1>5, FiberAnswers DEF FiberPage!ServeFetch, FiberPage!Waiting
<1>6. ASSUME FiberPage!Refuse PROVE FiberInv'
    BY <1>6, FiberAnswers DEF FiberPage!Refuse
<1> QED BY <1>1, <1>2, <1>3, <1>4, <1>5, <1>6, FiberSave, FiberArrives, FiberSaved, FiberServeStore
        DEF FiberPage!Next

-----------------------------------------------------------------------------
(* The page that attaches fibers, among the others. *)
FiberKept == kind = "fibers" => FiberInv

LEMMA FiberAlways == Spec => []FiberKept
<1>1. Init => FiberKept
    BY FiberInit DEF Init, FiberKept
<1>2. FiberKept /\ [Next]_vars => FiberKept'
  <2> SUFFICES ASSUME FiberKept, [Next]_vars, kind = "fibers" PROVE FiberInv'
      BY DEF FiberKept, Next, vars
  <2>1. [FiberPage!Next]_<<db, page, calls, spent>>
      BY DEF Next, vars
  <2> QED BY <2>1, FiberStep DEF FiberKept
<1> QED BY <1>1, <1>2, PTL DEF Spec

(* The page puts no fiber on a second side of a port, whatever the user    *)
(* takes off, attaches and resets: a fiber is offered only if it is used   *)
(* nowhere in the manhole, neither as loaded nor on the page (FreeFibers). *)
THEOREM FibersOnce == Spec => []NoFiberTwice
<1>1. FiberKept => NoFiberTwice
    BY DEF FiberKept, FiberInv, FiberPageOK, HeldFits, Shows, NoFiberTwice, FiberPage!NoFiberTwice,
           FiberPage!Loaded
<1> QED BY <1>1, FiberAlways, PTL

(* Once a panel is stored, each side of its ports holds what the page      *)
(* showed, also if nothing was sent of it (Changes): the page shows what   *)
(* is stored until it stores something itself (IsCurrent).                 *)
THEOREM ShownFibersAreStored == Spec => []FibersStoredAsShown
<1>1. FiberKept => FibersStoredAsShown
  <2> SUFFICES ASSUME FiberKept, kind = "fibers", NEW c \in calls, c.kind = "store", c.answer = TRUE
               PROVE  IsStored(c.what)
      BY DEF FibersStoredAsShown, FiberPage!StoredAsShown, IsStored
  <2> QED BY DEF FiberKept, FiberInv, FiberCallOK
<1> QED BY <1>1, FiberAlways, PTL

-----------------------------------------------------------------------------
(* Finite sets in order *)

IsOrder(S, order) ==
    /\ \A n \in S : <<n, n>> \in order
    /\ \A m, n \in S : <<m, n>> \in order \/ <<n, m>> \in order
    /\ \A m, n \in S : <<m, n>> \in order /\ <<n, m>> \in order => m = n
    /\ \A l, m, n \in S : <<l, m>> \in order /\ <<m, n>> \in order => <<l, n>> \in order
UpTo(S, order, n) == {m \in S : <<m, n>> \in order}

LEMMA RanksGrow ==
    ASSUME NEW S, IsFiniteSet(S), NEW order, IsOrder(S, order),
           NEW m \in S, NEW n \in S, m # n, <<m, n>> \in order
    PROVE  Cardinality(UpTo(S, order, m)) # Cardinality(UpTo(S, order, n))
<1>1. UpTo(S, order, m) \subseteq UpTo(S, order, n) /\ n \notin UpTo(S, order, m)
      /\ n \in UpTo(S, order, n)
    BY DEF IsOrder, UpTo
<1>2. IsFiniteSet(UpTo(S, order, n))
    BY FS_Subset DEF UpTo
<1> QED BY <1>1, <1>2, FS_Subset

(* Each place in the order is taken by one element. *)
LEMMA RanksAreNumbers ==
    ASSUME NEW S, IsFiniteSet(S), NEW order, IsOrder(S, order)
    PROVE  /\ Cardinality(S) \in Nat
           /\ \A n \in S : Cardinality(UpTo(S, order, n)) \in 1 .. Cardinality(S)
           /\ \A m, n \in S : Cardinality(UpTo(S, order, m)) = Cardinality(UpTo(S, order, n)) => m = n
           /\ \A i \in 1 .. Cardinality(S) : \E n \in S : Cardinality(UpTo(S, order, n)) = i
<1> DEFINE rank == [n \in S |-> Cardinality(UpTo(S, order, n))]
<1>1. Cardinality(S) \in Nat
    BY FS_CardinalityType
<1>2. ASSUME NEW n \in S PROVE rank[n] \in 1 .. Cardinality(S)
  <2>1. UpTo(S, order, n) \in SUBSET S /\ n \in UpTo(S, order, n)
      BY DEF UpTo, IsOrder
  <2>2. /\ IsFiniteSet(UpTo(S, order, n)) /\ Cardinality(UpTo(S, order, n)) \in Nat
        /\ Cardinality(UpTo(S, order, n)) <= Cardinality(S)
      BY <2>1, FS_Subset, FS_CardinalityType
  <2>3. Cardinality(UpTo(S, order, n)) # 0
      BY <2>1, <2>2, FS_EmptySet
  <2> QED BY <1>1, <2>2, <2>3
<1>3. ASSUME NEW m \in S, NEW n \in S, rank[m] = rank[n] PROVE m = n
  <2>1. <<m, n>> \in order \/ <<n, m>> \in order
      BY DEF IsOrder
  <2> QED BY <1>3, <2>1, RanksGrow
<1>4. rank \in Injection(S, 1 .. Cardinality(S))
  <2>1. rank \in [S -> 1 .. Cardinality(S)]
      BY <1>2
  <2> QED BY <1>3, <2>1 DEF Injection, IsInjective
<1>5. IsFiniteSet(1 .. Cardinality(S)) /\ Cardinality(1 .. Cardinality(S)) = Cardinality(S)
    BY <1>1, FS_Interval
<1>6. rank \in Surjection(S, 1 .. Cardinality(S))
    BY <1>4, <1>5, FS_Injection
<1>7. \A i \in 1 .. Cardinality(S) : \E n \in S : rank[n] = i
    BY <1>6 DEF Surjection
<1> QED BY <1>1, <1>2, <1>3, <1>7

-----------------------------------------------------------------------------
(* The page that loops fibers *)

LoopHolding == LoopPage!Fiber \union {Removed}
IsLooped(fiber) == fiber.status = "Looped"

LEMMA NumbersOfCable ==
    ASSUME NEW c \in World.loops.Cable
    PROVE  /\ IsFiniteSet(LoopPage!Numbers(c))
           /\ \A n \in LoopPage!Numbers(c) : n[1] \in Int /\ n[2] \in Int /\ n = <<n[1], n[2]>>
           /\ \A n \in LoopPage!Numbers(c) : LoopPage!FiberOf(c, n) \in LoopPage!Fiber
<1> DEFINE b == World.loops.Kabels[c].buendel_anz
           f == World.loops.Kabels[c].faser_anz
<1>1. /\ b \in Nat /\ f \in Nat
      /\ LoopPage!Numbers(c) \subseteq World.loops.BundleNo \X World.loops.FiberNo
    BY LoopsKnown DEF LoopPage!LoopsKnown
<1>2. LoopPage!Numbers(c) = (1 .. b) \X (1 .. f)
    BY DEF LoopPage!Numbers
<1> HIDE DEF b, f
<1>3. IsFiniteSet(1 .. b) /\ IsFiniteSet(1 .. f)
    BY <1>1, FS_Interval
<1>4. IsFiniteSet(LoopPage!Numbers(c))
    BY <1>2, <1>3, FS_Product
<1>5. \A n \in LoopPage!Numbers(c) : n[1] \in Int /\ n[2] \in Int /\ n = <<n[1], n[2]>>
    BY <1>1, <1>2
<1>6. \A n \in LoopPage!Numbers(c) : LoopPage!FiberOf(c, n) \in LoopPage!Fiber
    BY <1>1 DEF LoopPage!FiberOf, LoopPage!Fiber
<1> QED BY <1>4, <1>5, <1>6

(* InOrder lists each number once. *)
LEMMA InOrderLists ==
    ASSUME NEW c \in World.loops.Cable, NEW S \in SUBSET LoopPage!Numbers(c)
    PROVE  /\ IsFiniteSet(S) /\ Cardinality(S) \in Nat
           /\ DOMAIN LoopPage!InOrder(S) = 1 .. Cardinality(S)
           /\ Len(LoopPage!InOrder(S)) = Cardinality(S)
           /\ \A i \in 1 .. Cardinality(S) : LoopPage!InOrder(S)[i] \in S
           /\ \A n \in S : \E i \in 1 .. Cardinality(S) : LoopPage!InOrder(S)[i] = n
<1> DEFINE order == {p \in S \X S : p[1][1] < p[2][1] \/ (p[1][1] = p[2][1] /\ p[1][2] <= p[2][2])}
<1>1. IsFiniteSet(S)
    BY NumbersOfCable, FS_Subset
<1>2. \A n \in S : n[1] \in Int /\ n[2] \in Int /\ n = <<n[1], n[2]>>
    BY NumbersOfCable
<1>3. \A m, n \in S : <<m, n>> \in order <=> (m[1] < n[1] \/ (m[1] = n[1] /\ m[2] <= n[2]))
    OBVIOUS
<1>4. \A n \in S : LoopPage!UpTo(S, n) = UpTo(S, order, n)
    BY <1>3 DEF LoopPage!UpTo, UpTo
<1> HIDE DEF order
<1>5. IsOrder(S, order)
    BY <1>2, <1>3 DEF IsOrder
<1>6. /\ Cardinality(S) \in Nat
      /\ \A n \in S : Cardinality(UpTo(S, order, n)) \in 1 .. Cardinality(S)
      /\ \A m, n \in S : Cardinality(UpTo(S, order, m)) = Cardinality(UpTo(S, order, n)) => m = n
      /\ \A i \in 1 .. Cardinality(S) : \E n \in S : Cardinality(UpTo(S, order, n)) = i
    BY <1>1, <1>5, RanksAreNumbers
<1>7. LoopPage!InOrder(S) = [i \in 1 .. Cardinality(S) |->
          CHOOSE n \in S : Cardinality(LoopPage!UpTo(S, n)) = i]
    BY DEF LoopPage!InOrder, LoopPage!Cardinality, Cardinality
<1>8. ASSUME NEW i \in 1 .. Cardinality(S)
      PROVE  /\ LoopPage!InOrder(S)[i] \in S
             /\ Cardinality(UpTo(S, order, LoopPage!InOrder(S)[i])) = i
    BY <1>4, <1>6, <1>7
<1>9. ASSUME NEW n \in S PROVE \E i \in 1 .. Cardinality(S) : LoopPage!InOrder(S)[i] = n
    BY <1>6, <1>8
<1>10. DOMAIN LoopPage!InOrder(S) = 1 .. Cardinality(S) /\ Len(LoopPage!InOrder(S)) = Cardinality(S)
  <2>1. LoopPage!InOrder(S) \in Seq(S)
      BY <1>6, <1>7, <1>8, SeqDef
  <2> QED BY <1>6, <1>7, <2>1, LenProperties
<1> QED BY <1>1, <1>6, <1>8, <1>9, <1>10

-----------------------------------------------------------------------------

(* A number that can be looped is one of both cables. *)
FibersFit(p) ==
    p.b # NoCable =>
        \A n \in DOMAIN p.fibers :
            /\ p.a # NoCable
            /\ p.fibers[n].status # "UsedElsewhere" =>
                  n \in LoopPage!Numbers(p.a) /\ n \in LoopPage!Numbers(p.b)

LoopFields == {"route", "state", "a", "b", "fibers", "saving"}
LoopPageOK(p) ==
    /\ DOMAIN p = LoopFields
    /\ p.route \in World.loops.Plan \union {Closed}
    /\ p.route = Closed => p.state = Pending /\ p.saving = FALSE
    /\ p.a \in World.loops.Cable \union {NoCable} /\ p.b \in World.loops.Cable \union {NoCable}
    /\ FibersFit(p)

(* held is what the page shows of the panel: loops in as many ports as     *)
(* there are, both sides with the same number.                             *)
ShowsLoops(what, held) ==
    /\ held \in [LoopPage!PanelSlots -> LoopHolding]
    /\ Cardinality(what.looped) <= Len(World.loops.PanelPorts) =>
          what.looped =
              {n \in LoopPage!Numbers(what.a) : \E port \in LoopPage!ToSet(World.loops.PanelPorts) :
                  /\ held[<<port, "Front">>] = LoopPage!FiberOf(what.a, n)
                  /\ held[<<port, "Back">>] = LoopPage!FiberOf(what.b, n)}

(* A request to store: what is not sent is stored already.                 *)
LoopStoreFits(what) ==
    /\ what.plan \in World.loops.Plan
    /\ \A s \in DOMAIN what.changes : what.changes[s] \in LoopPage!Row
    /\ what.seen = what.plan =>
          \E held : /\ ShowsLoops(what, held)
                    /\ \A s \in LoopPage!PanelSlots :
                          IF s \in DOMAIN what.changes THEN what.changes[s] = held[s]
                          ELSE held[s] = LoopPage!EffectivePortUsage(db, what.plan, s)
LoopsAreStored(what) ==
    what.seen = what.plan =>
        \E held : /\ ShowsLoops(what, held)
                  /\ \A s \in LoopPage!PanelSlots :
                        held[s] = LoopPage!EffectivePortUsage(db, what.plan, s)

LoopCallOK(c) ==
    /\ DOMAIN c = {"kind", "what", "answer"}
    /\ page.route # Closed
    /\ \/ /\ c.kind = "fetch" /\ page.state = Pending /\ page.saving = FALSE
          /\ c.what.plan \in World.loops.Plan
          /\ c.answer \notin {Unanswered, Failed} => c.answer = LoopPage!Situation(c.what.plan)
       \/ /\ c.kind = "store" /\ Shows(page) /\ page.saving = TRUE
          /\ c.answer \in {Unanswered, Failed, TRUE}
          /\ c.answer = Unanswered => LoopStoreFits(c.what)
          /\ c.answer = TRUE => LoopsAreStored(c.what)

LoopsCurrent ==
    Shows(page) =>
        \/ /\ page.state.plan \in World.loops.Plan
           /\ page.state = LoopPage!Situation(page.state.plan)
        \/ \E c \in calls : c.kind = "store" /\ c.answer = TRUE

LoopInv ==
    /\ db \in [LoopPage!Plans -> [LoopPage!Slot -> LoopPage!Row]]
    /\ LoopPageOK(page) /\ LoopsCurrent
    /\ \A c, d \in calls : c = d
    /\ \A c \in calls : LoopCallOK(c)

LEMMA LoopsAre ==
    /\ TRUE \notin {Unanswered, Failed} /\ Closed \notin World.loops.Plan
    /\ World.loops.Baseline \notin World.loops.Plan
    /\ NoRow # Removed /\ {NoRow, Removed} \intersect LoopPage!Fiber = {}
    /\ World.loops.Usages \subseteq [LoopPage!Plans -> [LoopPage!Slot -> LoopPage!Row]]
BY LoopsKnown DEF LoopPage!LoopsKnown, LoopPage!Known

-----------------------------------------------------------------------------
(* The cables and fibers shown *)

LEMMA LoopHolds ==
    ASSUME db \in [LoopPage!Plans -> [LoopPage!Slot -> LoopPage!Row]],
           NEW p \in LoopPage!Plans, NEW s \in LoopPage!Slot
    PROVE  LoopPage!EffectivePortUsage(db, p, s) \in LoopHolding
<1>1. World.loops.Baseline \in LoopPage!Plans
    BY DEF LoopPage!Plans
<1>2. db[p][s] \in LoopPage!Row /\ db[World.loops.Baseline][s] \in LoopPage!Row
    BY DEF LoopPage!Plans
<1> QED BY <1>2 DEF LoopPage!EffectivePortUsage, LoopPage!Row, LoopHolding

LEMMA AttachedIsCable ==
    ASSUME NEW situation, NEW side
    PROVE  LoopPage!Attached(situation, side) \in World.loops.Cable \union {NoCable}
BY DEF LoopPage!Attached, LoopPage!CablesHere

(* A fiber that only one of the cables has is used elsewhere. *)
BothFibers(a, b, n) ==
    {LoopPage!FiberOf(c, n) : c \in {k \in {a, b} : n \in LoopPage!Numbers(k)}}

LEMMA StatesFit ==
    ASSUME NEW situation, NEW a, NEW b, NEW p,
           p.fibers = LoopPage!States(situation, a, b), p.a = a, p.b = b
    PROVE  FibersFit(p)
<1>1. CASE NoCable \in {a, b}
    BY <1>1 DEF LoopPage!States, FibersFit
<1>2. CASE NoCable \notin {a, b}
  <2>1. ASSUME NEW n, n \notin LoopPage!Numbers(a) \/ n \notin LoopPage!Numbers(b)
        PROVE  Cardinality(BothFibers(a, b, n)) # 2
    <3>1. \A f, g \in BothFibers(a, b, n) : f = g
        BY <2>1 DEF BothFibers
    <3>2. CASE BothFibers(a, b, n) = {}
        BY <3>2, FS_EmptySet
    <3>3. CASE BothFibers(a, b, n) # {}
      <4>1. \E f : BothFibers(a, b, n) = {f}
          BY <3>1, <3>3
      <4> QED BY <4>1, FS_Singleton
    <3> QED BY <3>2, <3>3
  <2>2. PICK fibers : fibers = p.fibers
      OBVIOUS
  <2>3. /\ DOMAIN fibers = LoopPage!Numbers(a) \union LoopPage!Numbers(b)
        /\ \A n \in DOMAIN fibers :
              Cardinality(BothFibers(a, b, n)) # 2 => fibers[n].status = "UsedElsewhere"
      BY <1>2, <2>2 DEF LoopPage!States, BothFibers, LoopPage!Cardinality, Cardinality
  <2> QED BY <1>2, <2>1, <2>2, <2>3 DEF FibersFit
<1> QED BY <1>1, <1>2

-----------------------------------------------------------------------------
(* Steps *)

LEMMA LoopInit == ASSUME LoopPage!Init PROVE LoopInv
<1>1. db \in [LoopPage!Plans -> [LoopPage!Slot -> LoopPage!Row]] /\ calls = {}
    BY LoopsAre DEF LoopPage!Init
<1>2. /\ DOMAIN page = LoopFields /\ page.route = Closed /\ page.state = Pending /\ page.saving = FALSE
      /\ page.a = NoCable /\ page.b = NoCable
    BY DEF LoopPage!Init, LoopPage!Empty, LoopFields
<1> QED BY <1>1, <1>2 DEF LoopInv, LoopPageOK, FibersFit, Shows, LoopsCurrent

LEMMA LoopFormIsQuiet ==
    ASSUME LoopInv, LoopPage!Form
    PROVE  calls = {} /\ Shows(page) /\ page.route \in World.loops.Plan
           /\ page.state.plan \in World.loops.Plan
           /\ page.state = LoopPage!Situation(page.state.plan)
<1>1. Shows(page) /\ page.saving # TRUE
    BY DEF LoopPage!Form, LoopPage!Loaded, Shows
<1>2. calls = {}
    BY <1>1 DEF LoopInv, LoopCallOK, Shows
<1> QED BY <1>1, <1>2 DEF LoopInv, LoopPageOK, LoopsCurrent, Shows

LEMMA LoopEdited ==
    ASSUME LoopInv, LoopPage!Editing, DOMAIN page' = LoopFields,
           page'.route = page.route, page'.state = page.state,
           page'.a \in World.loops.Cable \union {NoCable}, page'.b \in World.loops.Cable \union {NoCable},
           FibersFit(page')
    PROVE  LoopInv'
<1>1. /\ calls = {} /\ Shows(page) /\ page.route \in World.loops.Plan
      /\ page.state.plan \in World.loops.Plan
      /\ page.state = LoopPage!Situation(page.state.plan)
    BY LoopFormIsQuiet DEF LoopPage!Editing
<1>2. calls' = {} /\ db' = db /\ Closed \notin World.loops.Plan
    BY <1>1, LoopsAre DEF LoopPage!Editing
<1>3. LoopsCurrent'
    BY <1>1, <1>2 DEF LoopsCurrent, LoopPage!Situation
<1>4. LoopPageOK(page')
    BY <1>1, <1>2 DEF LoopPageOK
<1>5. LoopPageOK(page)'
    BY <1>4 DEF LoopPageOK, FibersFit
<1> QED BY <1>2, <1>3, <1>5 DEF LoopInv

LEMMA LoopChooses ==
    ASSUME LoopInv, NEW c \in LoopPage!CablesHere, LoopPage!SelectCableA(c) \/ LoopPage!SelectCableB(c)
    PROVE  LoopInv'
<1>1. /\ DOMAIN page = LoopFields /\ FibersFit(page) /\ LoopPage!Editing
      /\ page.a \in World.loops.Cable \union {NoCable} /\ page.b \in World.loops.Cable \union {NoCable}
      /\ page.a = NoCable \/ page.b = NoCable
    BY DEF LoopInv, LoopPageOK, LoopPage!SelectCableA, LoopPage!SelectCableB, LoopPage!Choosing,
           LoopPage!Editing
<1>2. \A d \in LoopPage!CablesHere : d \in World.loops.Cable
    BY DEF LoopPage!CablesHere
<1>3. CASE page' = [page EXCEPT !.a = c]
  <2>1. /\ DOMAIN page' = LoopFields /\ page'.route = page.route /\ page'.state = page.state
        /\ page'.a = c /\ page'.b = page.b /\ page'.fibers = page.fibers
      BY <1>1, <1>3 DEF LoopFields
  <2>2. FibersFit(page')
      BY <1>1, <2>1 DEF FibersFit
  <2> QED BY <1>1, <1>2, <2>1, <2>2, LoopEdited
<1>4. ASSUME NEW a \in LoopPage!CablesHere \union {page.a}, NEW b \in LoopPage!CablesHere,
             page' = [page EXCEPT !.a = a, !.b = b, !.fibers = LoopPage!States(page.state, a, b)]
      PROVE  LoopInv'
  <2>1. /\ DOMAIN page' = LoopFields /\ page'.route = page.route /\ page'.state = page.state
        /\ page'.a = a /\ page'.b = b /\ page'.fibers = LoopPage!States(page.state, a, b)
      BY <1>1, <1>4 DEF LoopFields
  <2>2. FibersFit(page')
      BY <2>1, StatesFit
  <2> QED BY <1>1, <1>2, <2>1, <2>2, LoopEdited
<1>5. CASE LoopPage!SelectCableA(c)
  <2> DEFINE others == {d \in LoopPage!CablesHere \ {c} : LoopPage!SameSize(c, d)}
  <2>1. \/ page' = [page EXCEPT !.a = c]
        \/ \E d \in others : page' = [page EXCEPT !.a = c, !.b = d, !.fibers = LoopPage!States(page.state, c, d)]
      BY <1>5 DEF LoopPage!SelectCableA
  <2> QED BY <1>3, <1>4, <2>1
<1>6. CASE LoopPage!SelectCableB(c)
  <2>1. page' = [page EXCEPT !.b = c, !.fibers = LoopPage!States(page.state, page.a, c)]
      BY <1>6 DEF LoopPage!SelectCableB
  <2>2. [page EXCEPT !.b = c, !.fibers = LoopPage!States(page.state, page.a, c)]
            = [page EXCEPT !.a = page.a, !.b = c, !.fibers = LoopPage!States(page.state, page.a, c)]
      BY <1>1 DEF LoopFields
  <2> QED BY <1>4, <2>1, <2>2
<1> QED BY <1>5, <1>6

LEMMA LoopToggles ==
    ASSUME LoopInv, NEW n, LoopPage!ToggleFiber(n) \/ LoopPage!ResetFiber(n)
    PROVE  LoopInv'
<1>1. /\ DOMAIN page = LoopFields /\ FibersFit(page) /\ LoopPage!Editing /\ LoopPage!Usable(n)
      /\ page.a \in World.loops.Cable \union {NoCable} /\ page.b \in World.loops.Cable \union {NoCable}
    BY DEF LoopInv, LoopPageOK, LoopPage!ToggleFiber, LoopPage!ResetFiber, LoopPage!Pair, LoopPage!Editing
<1>2. /\ DOMAIN page' = LoopFields /\ page'.route = page.route /\ page'.state = page.state
      /\ page'.a = page.a /\ page'.b = page.b /\ DOMAIN page'.fibers = DOMAIN page.fibers
      /\ \A m \in DOMAIN page.fibers : m # n => page'.fibers[m] = page.fibers[m]
  <2>1. CASE LoopPage!ToggleFiber(n)
      BY <1>1, <2>1 DEF LoopFields, LoopPage!ToggleFiber
  <2>2. CASE LoopPage!ResetFiber(n)
      BY <1>1, <2>2 DEF LoopFields, LoopPage!ResetFiber
  <2> QED BY <2>1, <2>2
<1>3. FibersFit(page')
    BY <1>1, <1>2 DEF FibersFit, LoopPage!Usable
<1> QED BY <1>1, <1>2, <1>3, LoopEdited

(* A page without data asks for them. *)
LEMMA LoopFetches ==
    ASSUME LoopInv, NEW p \in World.loops.Plan, calls' = {LoopPage!Fetch(p)}, db' = db,
           DOMAIN page' = LoopFields, page'.route \in World.loops.Plan,
           page'.state = Pending, page'.saving = FALSE,
           page'.a = page.a, page'.b = page.b, page'.fibers = page.fibers
    PROVE  LoopInv'
<1> DEFINE r == LoopPage!Fetch(p)
<1>0. Closed \notin World.loops.Plan
    BY LoopsAre
<1>1. DOMAIN r = {"kind", "what", "answer"} /\ r.kind = "fetch" /\ r.what.plan = p /\ r.answer = Unanswered
    BY DEF LoopPage!Fetch, LoopPage!Request
<1>2. LoopCallOK(r)'
    BY <1>0, <1>1 DEF LoopCallOK
<1> HIDE DEF r
<1>3. \A c \in calls' : c = r
    BY DEF r
<1>4. (\A c, d \in calls : c = d)' /\ (\A c \in calls : LoopCallOK(c))'
    BY <1>2, <1>3 DEF LoopCallOK
<1>5. LoopPageOK(page)'
    BY <1>0 DEF LoopInv, LoopPageOK, FibersFit
<1> QED BY <1>4, <1>5 DEF LoopInv, LoopsCurrent, Shows

LEMMA LoopOpen ==
    ASSUME LoopInv, NEW p \in World.loops.Plan, LoopPage!Open(p)
    PROVE  LoopInv'
<1>1. DOMAIN page = LoopFields /\ p # Closed
    BY LoopsAre DEF LoopInv, LoopPageOK
<1>2. /\ DOMAIN page' = LoopFields /\ page'.route = p /\ page'.state = page.state /\ page'.saving = page.saving
      /\ page'.a = page.a /\ page'.b = page.b /\ page'.fibers = page.fibers /\ db' = db
    BY <1>1 DEF LoopPage!Open, LoopFields
<1>3. CASE page.route = Closed
  <2>1. calls' = {LoopPage!Fetch(p)} /\ page.state = Pending /\ page.saving = FALSE
      BY <1>3 DEF LoopInv, LoopPageOK, LoopPage!Open, LoopPage!Send, LoopPage!Exchange
  <2> QED BY <1>2, <2>1, LoopFetches
<1>4. CASE page.route # Closed
  <2>1. calls' = calls
      BY <1>4 DEF LoopPage!Open
  <2>2. (LoopPageOK(page) /\ LoopsCurrent)'
      BY <1>1, <1>2, <2>1 DEF LoopInv, LoopPageOK, FibersFit, Shows, LoopsCurrent, LoopPage!Situation
  <2>3. ASSUME NEW c \in calls PROVE LoopCallOK(c)'
    <3>1. LoopCallOK(c)
        BY DEF LoopInv
    <3>2. \A what : LoopStoreFits(what)' = LoopStoreFits(what) /\ LoopsAreStored(what)' = LoopsAreStored(what)
        BY <1>2 DEF LoopStoreFits, LoopsAreStored
    <3>3. \A q : LoopPage!Situation(q)' = LoopPage!Situation(q)
        BY <1>2 DEF LoopPage!Situation
    <3> QED BY <1>1, <1>2, <3>1, <3>2, <3>3 DEF LoopCallOK, Shows
  <2> QED BY <1>2, <2>1, <2>2, <2>3 DEF LoopInv
<1> QED BY <1>3, <1>4

-----------------------------------------------------------------------------
(* What is sent *)

(* The fiber each side is to hold, and what that shows. *)
LEMMA WantedShows ==
    ASSUME LoopPageOK(page), NoCable \notin {page.a, page.b}, NEW held, NEW what,
           held = [s \in LoopPage!PanelSlots |-> LoopPage!Wanted(s)],
           what.a = page.a, what.b = page.b,
           what.looped = {n \in DOMAIN page.fibers : page.fibers[n].status = "Looped"}
    PROVE  ShowsLoops(what, held)
<1> DEFINE ports == World.loops.PanelPorts
           S == what.looped
           list == LoopPage!InOrder(S)
<1>1. /\ page.a \in World.loops.Cable /\ page.b \in World.loops.Cable
      /\ S \subseteq LoopPage!Numbers(page.a) /\ S \subseteq LoopPage!Numbers(page.b)
    BY DEF LoopPageOK, FibersFit
<1>2. /\ IsFiniteSet(S) /\ Cardinality(S) \in Nat /\ Len(list) = Cardinality(S)
      /\ \A i \in 1 .. Cardinality(S) : list[i] \in S
      /\ \A n \in S : \E i \in 1 .. Cardinality(S) : list[i] = n
    BY <1>1, InOrderLists
<1>3. /\ ports \in Seq(World.loops.Port) /\ DOMAIN ports = 1 .. Len(ports) /\ Len(ports) \in Nat
      /\ \A i \in 1 .. Len(ports) : ports[i] \in World.loops.Port
      /\ \A i, j \in 1 .. Len(ports) : ports[i] = ports[j] => i = j
      /\ {"Front", "Back"} \subseteq World.loops.Side
    BY LoopsKnown, LenProperties, ElementOfSeq DEF LoopPage!LoopsKnown
<1>4. \A port : port \in LoopPage!ToSet(ports) <=> \E i \in 1 .. Len(ports) : ports[i] = port
    BY <1>3 DEF LoopPage!ToSet
<1>5. ASSUME NEW s \in LoopPage!PanelSlots
      PROVE  \E i \in 1 .. Len(ports) : ports[i] = s[1]
    BY DEF LoopPage!PanelSlots, LoopPage!Contains, LoopPage!Len
<1>6. ASSUME NEW i \in 1 .. Len(ports) PROVE LoopPage!PortNo(ports[i]) = i
    BY <1>3 DEF LoopPage!PortNo
<1>7. LoopPage!Looped = list
    BY DEF LoopPage!Looped
<1>8. Removed \notin LoopPage!Fiber
    BY LoopsAre
<1> HIDE DEF list, S, ports
<1>9. ASSUME NEW i \in 1 .. Len(ports), NEW side \in {"Front", "Back"}
      PROVE  /\ <<ports[i], side>> \in LoopPage!PanelSlots
             /\ held[<<ports[i], side>>] =
                    IF i > Cardinality(S) THEN Removed
                    ELSE LoopPage!FiberOf(IF side = "Front" THEN page.a ELSE page.b, list[i])
  <2>1. <<ports[i], side>> \in LoopPage!PanelSlots
      BY <1>3 DEF LoopPage!PanelSlots, LoopPage!Slot, LoopPage!Contains, LoopPage!Len, ports
  <2>2. LoopPage!Wanted(<<ports[i], side>>) =
            IF i > Cardinality(S) THEN Removed
            ELSE LoopPage!FiberOf(IF side = "Front" THEN page.a ELSE page.b, list[i])
      BY <1>2, <1>6, <1>7 DEF LoopPage!Wanted
  <2> QED BY <2>1, <2>2
<1>10. ASSUME NEW s \in LoopPage!PanelSlots PROVE held[s] \in LoopHolding
  <2>1. PICK i \in 1 .. Len(ports) : ports[i] = s[1]
      BY <1>5
  <2>2. LoopPage!PortNo(s[1]) = i
      BY <1>6, <2>1
  <2>3. held[s] = IF i > Cardinality(S) THEN Removed
                  ELSE LoopPage!FiberOf(IF s[2] = "Front" THEN page.a ELSE page.b, list[i])
      BY <1>2, <1>7, <2>2 DEF LoopPage!Wanted
  <2>4. i <= Cardinality(S) => list[i] \in LoopPage!Numbers(page.a) /\ list[i] \in LoopPage!Numbers(page.b)
      BY <1>1, <1>2, <1>3
  <2> QED BY <1>1, <1>2, <1>3, <2>3, <2>4, NumbersOfCable DEF LoopHolding
<1>11. ASSUME Cardinality(S) <= Len(ports), NEW n \in S
       PROVE  \E port \in LoopPage!ToSet(ports) :
                  /\ held[<<port, "Front">>] = LoopPage!FiberOf(what.a, n)
                  /\ held[<<port, "Back">>] = LoopPage!FiberOf(what.b, n)
  <2>1. PICK i \in 1 .. Cardinality(S) : list[i] = n
      BY <1>2
  <2>2. i \in 1 .. Len(ports) /\ ~ (i > Cardinality(S))
      BY <1>2, <1>3, <1>11
  <2> QED BY <1>4, <1>9, <2>1, <2>2
<1>12. ASSUME NEW n \in LoopPage!Numbers(what.a), NEW port \in LoopPage!ToSet(ports),
              held[<<port, "Front">>] = LoopPage!FiberOf(what.a, n)
       PROVE  n \in S
  <2>1. PICK i \in 1 .. Len(ports) : ports[i] = port
      BY <1>4
  <2>2. LoopPage!FiberOf(what.a, n) \in LoopPage!Fiber /\ n = <<n[1], n[2]>>
      BY <1>1, NumbersOfCable
  <2>3. i \in 1 .. Cardinality(S) /\ held[<<port, "Front">>] = LoopPage!FiberOf(page.a, list[i])
    <3>1. held[<<port, "Front">>] = IF i > Cardinality(S) THEN Removed
                                    ELSE LoopPage!FiberOf(page.a, list[i])
        BY <1>9, <2>1
    <3>2. held[<<port, "Front">>] # Removed
        BY <1>8, <1>12, <2>2
    <3>3. ~ (i > Cardinality(S))
        BY <3>1, <3>2
    <3> QED BY <1>2, <1>3, <3>1, <3>3
  <2>4. list[i] \in S /\ list[i] \in LoopPage!Numbers(page.a)
      BY <1>1, <1>2, <2>3
  <2>5. list[i] = <<list[i][1], list[i][2]>>
      BY <1>1, <2>4, NumbersOfCable
  <2>6. list[i][1] = n[1] /\ list[i][2] = n[2]
      BY <1>12, <2>3 DEF LoopPage!FiberOf
  <2> QED BY <2>2, <2>4, <2>5, <2>6
<1>13. S \subseteq LoopPage!Numbers(what.a)
    BY <1>1
<1>14. Cardinality(S) <= Len(ports) =>
          S = {n \in LoopPage!Numbers(what.a) : \E port \in LoopPage!ToSet(ports) :
                  /\ held[<<port, "Front">>] = LoopPage!FiberOf(what.a, n)
                  /\ held[<<port, "Back">>] = LoopPage!FiberOf(what.b, n)}
    BY <1>11, <1>12, <1>13
<1>15. held \in [LoopPage!PanelSlots -> LoopHolding]
    BY <1>10
<1> QED BY <1>14, <1>15 DEF ShowsLoops, S, ports

(* What is not sent is held already. *)
LEMMA LoopChangesFit ==
    ASSUME db \in [LoopPage!Plans -> [LoopPage!Slot -> LoopPage!Row]],
           NEW p \in World.loops.Plan, page.state = LoopPage!Situation(p), NEW held, NEW changes,
           held \in [LoopPage!PanelSlots -> LoopHolding],
           held = [s \in LoopPage!PanelSlots |-> LoopPage!Wanted(s)], changes = LoopPage!Changes
    PROVE  /\ \A s \in DOMAIN changes : changes[s] \in LoopPage!Row
           /\ \A s \in LoopPage!PanelSlots :
                 IF s \in DOMAIN changes THEN changes[s] = held[s]
                 ELSE held[s] = LoopPage!EffectivePortUsage(db, p, s)
<1>1. /\ \A s \in LoopPage!PanelSlots :
             page.state.usage[s] = LoopPage!EffectivePortUsage(db, p, s)
      /\ page.state.rows = {s \in LoopPage!PanelSlots : db[p][s] # NoRow \/ db[World.loops.Baseline][s] # NoRow}
    BY DEF LoopPage!Situation
<1> DEFINE differ == {s \in LoopPage!PanelSlots : IF LoopPage!Wanted(s) = Removed THEN s \in page.state.rows
                                                  ELSE page.state.usage[s] # LoopPage!Wanted(s)}
<1>2. DOMAIN changes = differ /\ \A s \in differ : changes[s] = LoopPage!Wanted(s)
    BY DEF LoopPage!Changes
<1>3. \A s \in LoopPage!PanelSlots : held[s] = LoopPage!Wanted(s)
    OBVIOUS
<1>4. ASSUME NEW s \in LoopPage!PanelSlots, s \notin differ
      PROVE  held[s] = LoopPage!EffectivePortUsage(db, p, s)
  <2>1. CASE LoopPage!Wanted(s) = Removed
    <3>1. db[p][s] = NoRow /\ db[World.loops.Baseline][s] = NoRow
        BY <1>1, <1>4, <2>1
    <3> QED BY <1>3, <2>1, <3>1 DEF LoopPage!EffectivePortUsage
  <2>2. CASE LoopPage!Wanted(s) # Removed
      BY <1>1, <1>3, <1>4, <2>2
  <2> QED BY <2>1, <2>2
<1>5. \A s \in LoopPage!PanelSlots : held[s] \in LoopPage!Row
    BY DEF LoopHolding, LoopPage!Row
<1>6. differ \subseteq LoopPage!PanelSlots
    OBVIOUS
<1> HIDE DEF differ
<1> QED BY <1>2, <1>3, <1>4, <1>5, <1>6

LEMMA LoopSave == ASSUME LoopInv, LoopPage!Save PROVE LoopInv'
<1>1. /\ calls = {} /\ Shows(page) /\ page.route \in World.loops.Plan
      /\ page.state.plan \in World.loops.Plan
      /\ page.state = LoopPage!Situation(page.state.plan)
    BY LoopFormIsQuiet DEF LoopPage!Save
<1>2. /\ DOMAIN page = LoopFields /\ LoopPageOK(page) /\ NoCable \notin {page.a, page.b} /\ db' = db
    BY DEF LoopInv, LoopPageOK, LoopPage!Save
<1>3. Closed \notin World.loops.Plan /\ Unanswered # TRUE
    BY LoopsAre
<1>4. CASE LoopPage!Changes = <<>>
  <2>1. /\ DOMAIN page' = LoopFields /\ page'.state = Pending /\ page'.saving = FALSE /\ page'.route = page.route
        /\ page'.a = page.a /\ page'.b = page.b /\ page'.fibers = page.fibers
      BY <1>2, <1>4 DEF LoopFields, LoopPage!Save, LoopPage!SaveUnchanged
  <2>2. calls' = {LoopPage!Fetch(page.route)}
      BY <1>1, <1>4 DEF LoopPage!Save, LoopPage!SaveUnchanged, LoopPage!Send, LoopPage!Exchange
  <2> QED BY <1>1, <1>2, <2>1, <2>2, LoopFetches
<1>5. CASE LoopPage!Changes # <<>>
  <2>1. /\ DOMAIN page' = LoopFields /\ page'.saving = TRUE /\ page'.state = page.state /\ page'.route = page.route
        /\ page'.a = page.a /\ page'.b = page.b /\ page'.fibers = page.fibers
      BY <1>2, <1>5 DEF LoopFields, LoopPage!Save
  <2>2. PICK r : calls' = {r} /\ r = [kind |-> "store", what |->
            [plan |-> page.route, changes |-> LoopPage!Changes, seen |-> page.state.plan, a |-> page.a,
             b |-> page.b, looped |-> {n \in DOMAIN page.fibers : page.fibers[n].status = "Looped"}],
            answer |-> Unanswered]
      BY <1>1, <1>5 DEF LoopPage!Save, LoopPage!Send, LoopPage!Exchange, LoopPage!Request
  <2>3. PICK what : what = r.what
      OBVIOUS
  <2>4. PICK changes : changes = LoopPage!Changes
      OBVIOUS
  <2>5. PICK held : held = [s \in LoopPage!PanelSlots |-> LoopPage!Wanted(s)]
      OBVIOUS
  <2>6. /\ DOMAIN r = {"kind", "what", "answer"} /\ r.kind = "store" /\ r.what = what /\ r.answer = Unanswered
        /\ what.plan = page.route /\ what.changes = changes /\ what.seen = page.state.plan
        /\ what.a = page.a /\ what.b = page.b
        /\ what.looped = {n \in DOMAIN page.fibers : page.fibers[n].status = "Looped"}
      BY <2>2, <2>3, <2>4
  <2>7. ShowsLoops(what, held)
      BY <1>2, <2>5, <2>6, WantedShows
  <2>8. /\ \A s \in DOMAIN changes : changes[s] \in LoopPage!Row
        /\ \A s \in LoopPage!PanelSlots :
              IF s \in DOMAIN changes THEN changes[s] = held[s]
              ELSE held[s] = LoopPage!EffectivePortUsage(db, page.state.plan, s)
      BY <1>1, <2>4, <2>5, <2>7, LoopChangesFit DEF LoopInv, ShowsLoops
  <2>9. LoopStoreFits(what)
      BY <1>1, <2>6, <2>7, <2>8 DEF LoopStoreFits
  <2>10. LoopStoreFits(what)'
      BY <1>2, <2>9 DEF LoopStoreFits
  <2>11. LoopCallOK(r)'
      BY <1>1, <1>3, <2>1, <2>6, <2>10 DEF LoopCallOK, Shows
  <2>12. LoopsCurrent'
      BY <1>1, <1>2, <2>1 DEF LoopsCurrent, LoopPage!Situation
  <2>13. LoopPageOK(page)'
      BY <1>1, <1>2, <1>3, <2>1 DEF LoopPageOK, FibersFit
  <2> QED BY <1>2, <2>2, <2>11, <2>12, <2>13 DEF LoopInv
<1> QED BY <1>4, <1>5

-----------------------------------------------------------------------------
(* Answers *)

LEMMA LoopTakes ==
    ASSUME LoopInv, NEW c \in calls, NEW sent, LoopPage!Exchange({c}, sent)
    PROVE  calls = {c} /\ calls' = sent /\ LoopCallOK(c)
BY DEF LoopInv, LoopPage!Exchange

LEMMA LoopArrives ==
    ASSUME LoopInv, NEW c \in calls, LoopPage!DataFetched(c) \/ LoopPage!FetchFailed(c)
    PROVE  LoopInv'
<1>1. /\ calls' = {} /\ LoopCallOK(c) /\ c.kind = "fetch" /\ c.answer # Unanswered /\ db' = db
    BY LoopTakes DEF LoopPage!DataFetched, LoopPage!FetchFailed, LoopPage!Arrival, LoopPage!Answered,
           LoopPage!Arrived
<1>2. DOMAIN page = LoopFields /\ page.route # Closed /\ FibersFit(page)
      /\ page.a \in World.loops.Cable \union {NoCable} /\ page.b \in World.loops.Cable \union {NoCable}
    BY <1>1 DEF LoopInv, LoopPageOK, LoopCallOK
<1>3. CASE LoopPage!FetchFailed(c)
  <2>1. /\ DOMAIN page' = LoopFields /\ page'.route = page.route /\ page'.state = Failed
        /\ page'.a = page.a /\ page'.b = page.b /\ page'.fibers = page.fibers
      BY <1>2, <1>3 DEF LoopPage!FetchFailed, LoopFields
  <2>2. LoopPageOK(page)'
      BY <1>2, <2>1 DEF LoopInv, LoopPageOK, FibersFit
  <2> QED BY <1>1, <2>1, <2>2 DEF LoopInv, LoopsCurrent, Shows
<1>4. CASE LoopPage!DataFetched(c)
  <2>1. PICK a, b : a = LoopPage!Attached(c.answer, "Front") /\ b = LoopPage!Attached(c.answer, "Back")
      OBVIOUS
  <2>2. page' = [page EXCEPT !.state = c.answer, !.a = a, !.b = b,
                             !.fibers = IF b = NoCable THEN @ ELSE LoopPage!States(c.answer, a, b)]
      BY <1>4, <2>1 DEF LoopPage!DataFetched
  <2>3. /\ DOMAIN page' = LoopFields /\ page'.route = page.route /\ page'.state = c.answer
        /\ page'.a = a /\ page'.b = b
        /\ b # NoCable => page'.fibers = LoopPage!States(c.answer, a, b)
      BY <1>2, <2>2 DEF LoopFields
  <2>4. a \in World.loops.Cable \union {NoCable} /\ b \in World.loops.Cable \union {NoCable}
      BY <2>1, AttachedIsCable
  <2>5. FibersFit(page')
    <3>1. CASE b = NoCable
        BY <2>3, <3>1 DEF FibersFit
    <3>2. CASE b # NoCable
        BY <2>3, <3>2, StatesFit
    <3> QED BY <3>1, <3>2
  <2>6. PICK p \in World.loops.Plan : c.answer = LoopPage!Situation(p)
      BY <1>1, <1>4 DEF LoopCallOK, LoopPage!DataFetched
  <2>7. p = c.answer.plan /\ \A q : LoopPage!Situation(q)' = LoopPage!Situation(q)
      BY <1>1, <2>6 DEF LoopPage!Situation
  <2>8. LoopsCurrent'
      BY <1>1, <2>3, <2>6, <2>7 DEF LoopsCurrent, LoopPage!Situation
  <2>9. LoopPageOK(page')
      BY <1>2, <2>3, <2>4, <2>5 DEF LoopInv, LoopPageOK
  <2>10. LoopPageOK(page)'
      BY <2>9 DEF LoopPageOK, FibersFit
  <2> QED BY <1>1, <2>8, <2>10 DEF LoopInv
<1> QED BY <1>3, <1>4

LEMMA LoopSaved == ASSUME LoopInv, NEW c \in calls, LoopPage!Saved(c) PROVE LoopInv'
<1>1. DOMAIN page = LoopFields /\ LoopPageOK(page)
    BY DEF LoopInv, LoopPageOK
<1>2. LoopCallOK(c) /\ c.kind = "store" /\ c.answer # Unanswered /\ db' = db
    BY DEF LoopInv, LoopPage!Saved, LoopPage!Answered
<1>3. page.route # Closed /\ page.route \in World.loops.Plan
    BY <1>1, <1>2 DEF LoopCallOK, LoopInv, LoopPageOK
<1>4. CASE c.answer = Failed
  <2>1. calls = {c} /\ calls' = {} /\ TRUE # Failed
      BY <1>4, LoopTakes, LoopsAre DEF LoopPage!Saved, LoopPage!Arrived
  <2>2. /\ DOMAIN page' = LoopFields /\ page'.route = page.route /\ page'.state = page.state
        /\ page'.a = page.a /\ page'.b = page.b /\ page'.fibers = page.fibers
      BY <1>1, <1>4 DEF LoopPage!Saved, LoopFields
  <2>3. LoopsCurrent'
    <3>1. Shows(page) => /\ page.state.plan \in World.loops.Plan
                         /\ page.state = LoopPage!Situation(page.state.plan)
        BY <1>4, <2>1 DEF LoopInv, LoopsCurrent
    <3> QED BY <1>2, <2>2, <3>1 DEF LoopsCurrent, Shows, LoopPage!Situation
  <2>4. LoopPageOK(page)'
      BY <1>1, <1>3, <2>2 DEF LoopPageOK, FibersFit
  <2> QED BY <1>2, <2>1, <2>3, <2>4 DEF LoopInv
<1>5. CASE c.answer # Failed
  <2>1. calls' = {LoopPage!Fetch(page.route)}
      BY <1>5, LoopTakes DEF LoopPage!Saved
  <2>2. /\ DOMAIN page' = LoopFields /\ page'.route = page.route /\ page'.state = Pending
        /\ page'.saving = FALSE /\ page'.a = page.a /\ page'.b = page.b /\ page'.fibers = page.fibers
      BY <1>1, <1>5 DEF LoopPage!Saved, LoopFields
  <2> QED BY <1>2, <1>3, <2>1, <2>2, LoopFetches
<1> QED BY <1>4, <1>5

-----------------------------------------------------------------------------
(* The backend *)

(* The only request is answered, and the page does not know yet.           *)
LEMMA LoopReplies ==
    ASSUME LoopInv, NEW c \in calls, NEW answer, LoopPage!Reply(c, answer), page' = page
    PROVE  \E r : /\ calls' = {r} /\ DOMAIN r = DOMAIN c
                  /\ r.kind = c.kind /\ r.what = c.what /\ r.answer = answer
<1> DEFINE r == [c EXCEPT !.answer = answer]
<1>1. calls' = {r} /\ LoopCallOK(c)
    BY LoopTakes DEF LoopPage!Reply
<1>2. /\ DOMAIN r = DOMAIN c /\ r.kind = c.kind /\ r.what = c.what /\ r.answer = answer
    BY <1>1 DEF LoopCallOK
<1> HIDE DEF r
<1> QED BY <1>1, <1>2

(* Nothing is stored. *)
LEMMA LoopAnswers ==
    ASSUME LoopInv, NEW c \in calls, c.answer = Unanswered, NEW answer,
           LoopPage!Reply(c, answer), page' = page, db' = db,
           \/ answer = Failed
           \/ c.kind = "fetch" /\ answer = LoopPage!Situation(c.what.plan)
    PROVE  LoopInv'
<1>1. PICK r : /\ calls' = {r} /\ DOMAIN r = DOMAIN c
               /\ r.kind = c.kind /\ r.what = c.what /\ r.answer = answer
    BY LoopReplies
<1>2. LoopCallOK(c) /\ calls = {c} /\ Unanswered # TRUE /\ Failed # TRUE
    BY LoopsAre DEF LoopInv
<1>3. \A p : LoopPage!Situation(p)' = LoopPage!Situation(p)
    BY DEF LoopPage!Situation
<1>4. LoopCallOK(r)'
  <2>1. CASE answer = Failed
    <3>1. \A what : LoopStoreFits(what) => LoopStoreFits(what)'
        BY DEF LoopStoreFits
    <3> QED BY <1>1, <1>2, <2>1, <3>1 DEF LoopCallOK, Shows
  <2>2. CASE c.kind = "fetch" /\ answer = LoopPage!Situation(c.what.plan)
      BY <1>1, <1>2, <1>3, <2>2 DEF LoopCallOK
  <2> QED BY <2>1, <2>2
<1>5. LoopsCurrent'
  <2>1. Shows(page) => /\ page.state.plan \in World.loops.Plan
                       /\ page.state = LoopPage!Situation(page.state.plan)
      BY <1>2 DEF LoopInv, LoopsCurrent
  <2> QED BY <2>1 DEF LoopsCurrent, Shows, LoopPage!Situation
<1>6. LoopPageOK(page)'
    BY DEF LoopInv, LoopPageOK, FibersFit
<1> QED BY <1>1, <1>4, <1>5, <1>6 DEF LoopInv

LEMMA LoopServeStore == ASSUME LoopInv, NEW c \in calls, LoopPage!ServeStore(c) PROVE LoopInv'
<1> DEFINE what == c.what
           slots == DOMAIN what.changes
           after == [db EXCEPT ![what.plan] =
                        [s \in LoopPage!Slot |-> IF s \in slots THEN what.changes[s] ELSE @[s]]]
<1>1. /\ c.kind = "store" /\ c.answer = Unanswered /\ page' = page
      /\ \/ LoopPage!Reply(c, Failed) /\ db' = db
         \/ LoopPage!Reply(c, TRUE) /\ db' = after
    BY DEF LoopPage!ServeStore, LoopPage!Waiting
<1>2. CASE LoopPage!Reply(c, Failed) /\ db' = db
    BY <1>1, <1>2, LoopAnswers
<1>3. CASE LoopPage!Reply(c, TRUE) /\ db' = after
  <2>1. PICK yes : yes = TRUE
      OBVIOUS
  <2>2. LoopPage!Reply(c, yes)
      BY <1>3, <2>1 DEF LoopPage!Reply
  <2>3. PICK r : /\ calls' = {r} /\ DOMAIN r = DOMAIN c
                 /\ r.kind = c.kind /\ r.what = c.what /\ r.answer = yes
      BY <1>1, <2>2, LoopReplies
  <2>4. /\ calls' = {r} /\ DOMAIN r = DOMAIN c
        /\ r.kind = c.kind /\ r.what = what /\ r.answer = TRUE
      BY <2>1, <2>3
  <2>5. LoopCallOK(c) /\ LoopStoreFits(what) /\ TRUE \notin {Unanswered, Failed}
      BY <1>1, LoopsAre DEF LoopInv, LoopCallOK
  <2>6. /\ what.plan \in LoopPage!Plans /\ World.loops.Baseline \in LoopPage!Plans
        /\ what.plan # World.loops.Baseline
      BY <2>5, LoopsAre DEF LoopStoreFits, LoopPage!Plans
  <2>7. /\ db' \in [LoopPage!Plans -> [LoopPage!Slot -> LoopPage!Row]]
        /\ db'[World.loops.Baseline] = db[World.loops.Baseline]
        /\ \A s \in LoopPage!Slot :
              db'[what.plan][s] = IF s \in slots THEN what.changes[s] ELSE db[what.plan][s]
      BY <1>3, <2>5, <2>6 DEF LoopInv, LoopStoreFits
  <2>8. ASSUME what.seen = what.plan, NEW held, ShowsLoops(what, held), NEW s \in LoopPage!PanelSlots,
               IF s \in slots THEN what.changes[s] = held[s]
               ELSE held[s] = LoopPage!EffectivePortUsage(db, what.plan, s)
        PROVE  held[s] = LoopPage!EffectivePortUsage(db', what.plan, s)
    <3>1. s \in LoopPage!Slot /\ held[s] \in LoopHolding
        BY <2>8 DEF LoopPage!PanelSlots, ShowsLoops
    <3>2. CASE s \in slots
      <4>1. db'[what.plan][s] = held[s]
          BY <2>7, <2>8, <3>1, <3>2
      <4>2. NoRow \notin LoopHolding
          BY LoopsAre DEF LoopHolding
      <4> QED BY <3>1, <4>1, <4>2 DEF LoopPage!EffectivePortUsage
    <3>3. CASE s \notin slots
        BY <2>7, <2>8, <3>1, <3>3 DEF LoopPage!EffectivePortUsage
    <3> QED BY <3>2, <3>3
  <2>9. LoopsAreStored(what)'
    <3> SUFFICES ASSUME what.seen = what.plan
                 PROVE  \E held : /\ ShowsLoops(what, held)
                                  /\ \A s \in LoopPage!PanelSlots :
                                        held[s] = LoopPage!EffectivePortUsage(db', what.plan, s)
        BY DEF LoopsAreStored, ShowsLoops
    <3>1. PICK held : /\ ShowsLoops(what, held)
                      /\ \A s \in LoopPage!PanelSlots :
                            IF s \in slots THEN what.changes[s] = held[s]
                            ELSE held[s] = LoopPage!EffectivePortUsage(db, what.plan, s)
        BY <2>5 DEF LoopStoreFits
    <3> QED BY <2>8, <3>1
  <2> HIDE DEF what, after, slots
  <2>10. LoopCallOK(r)'
      BY <1>1, <2>4, <2>5, <2>9 DEF LoopCallOK, Shows
  <2>11. LoopsCurrent'
      BY <1>1, <2>4 DEF LoopsCurrent
  <2>12. LoopPageOK(page)'
      BY <1>1 DEF LoopInv, LoopPageOK, FibersFit
  <2> QED BY <2>4, <2>7, <2>10, <2>11, <2>12 DEF LoopInv
<1> QED BY <1>1, <1>2, <1>3

LEMMA LoopStep == ASSUME LoopInv, [LoopPage!Next]_<<db, page, calls, spent>> PROVE LoopInv'
<1>1. CASE UNCHANGED <<db, page, calls, spent>>
  <2>1. page' = page /\ db' = db /\ calls' = calls
      BY <1>1
  <2>2. \A what : LoopStoreFits(what)' = LoopStoreFits(what) /\ LoopsAreStored(what)' = LoopsAreStored(what)
      BY <2>1 DEF LoopStoreFits, LoopsAreStored
  <2>3. \A p : LoopPage!Situation(p)' = LoopPage!Situation(p)
      BY <2>1 DEF LoopPage!Situation
  <2>4. \A c \in calls : LoopCallOK(c)'
      BY <2>1, <2>2, <2>3 DEF LoopInv, LoopCallOK, Shows
  <2>5. (LoopPageOK(page) /\ LoopsCurrent)'
      BY <2>1 DEF LoopInv, LoopPageOK, FibersFit, Shows, LoopsCurrent, LoopPage!Situation
  <2> QED BY <2>1, <2>4, <2>5 DEF LoopInv
<1>2. ASSUME NEW n, LoopPage!ToggleFiber(n) \/ LoopPage!ResetFiber(n) PROVE LoopInv'
    BY <1>2, LoopToggles
<1>3. ASSUME NEW c \in LoopPage!CablesHere, LoopPage!SelectCableA(c) \/ LoopPage!SelectCableB(c) PROVE LoopInv'
    BY <1>3, LoopChooses
<1>4. ASSUME NEW c \in calls, LoopPage!ServeFetch(c) PROVE LoopInv'
    BY <1>4, LoopAnswers DEF LoopPage!ServeFetch, LoopPage!Waiting
<1>5. ASSUME LoopPage!Refuse PROVE LoopInv'
    BY <1>5, LoopAnswers DEF LoopPage!Refuse
<1> QED BY <1>1, <1>2, <1>3, <1>4, <1>5, LoopOpen, LoopSave, LoopArrives, LoopSaved, LoopServeStore
        DEF LoopPage!Next

LoopKept == kind = "loops" => LoopInv

LEMMA LoopAlways == Spec => []LoopKept
<1>1. Init => LoopKept
    BY LoopInit DEF Init, LoopKept
<1>2. LoopKept /\ [Next]_vars => LoopKept'
  <2> SUFFICES ASSUME LoopKept, [Next]_vars, kind = "loops" PROVE LoopInv'
      BY DEF LoopKept, Next, vars
  <2>1. [LoopPage!Next]_<<db, page, calls, spent>>
      BY DEF Next, vars
  <2> QED BY <2>1, LoopStep DEF LoopKept
<1> QED BY <1>1, <1>2, PTL DEF Spec

(* Once the loops of a pair of cables are stored, the numbers looped on    *)
(* the panel are those the page showed as looped, whatever was looped      *)
(* before and whichever ports that took: each port in turn takes the next  *)
(* number on both sides (Wanted), what a side held else is overwritten,    *)
(* and what is not sent is held already (Changes).                         *)
THEOREM ShownLoopsAreStored == Spec => []LoopsStoredAsShown
<1>1. LoopKept => LoopsStoredAsShown
  <2> SUFFICES ASSUME LoopKept, kind = "loops", NEW c \in calls, c.kind = "store", c.answer = TRUE,
                      c.what.seen = c.what.plan, Cardinality(c.what.looped) <= Len(World.loops.PanelPorts)
               PROVE  c.what.looped =
                          {n \in LoopPage!Numbers(c.what.a) : \E port \in LoopPage!ToSet(World.loops.PanelPorts) :
                              /\ LoopPage!EffectivePortUsage(db, c.what.plan, <<port, "Front">>)
                                     = LoopPage!FiberOf(c.what.a, n)
                              /\ LoopPage!EffectivePortUsage(db, c.what.plan, <<port, "Back">>)
                                     = LoopPage!FiberOf(c.what.b, n)}
      BY DEF LoopsStoredAsShown, LoopPage!StoredAsShown, LoopPage!Cardinality, LoopPage!Len, Cardinality, Len
  <2>1. LoopsAreStored(c.what)
      BY DEF LoopKept, LoopInv, LoopCallOK
  <2>2. PICK held : /\ ShowsLoops(c.what, held)
                    /\ \A s \in LoopPage!PanelSlots :
                          held[s] = LoopPage!EffectivePortUsage(db, c.what.plan, s)
      BY <2>1 DEF LoopsAreStored
  <2>3. ASSUME NEW port \in LoopPage!ToSet(World.loops.PanelPorts)
        PROVE  <<port, "Front">> \in LoopPage!PanelSlots /\ <<port, "Back">> \in LoopPage!PanelSlots
    <3>1. PICK i \in 1 .. Len(World.loops.PanelPorts) : World.loops.PanelPorts[i] = port
        BY LoopsKnown, LenProperties DEF LoopPage!LoopsKnown, LoopPage!ToSet
    <3>2. port \in World.loops.Port /\ {"Front", "Back"} \subseteq World.loops.Side
        BY <3>1, LoopsKnown, ElementOfSeq DEF LoopPage!LoopsKnown
    <3> QED BY <3>1, <3>2 DEF LoopPage!PanelSlots, LoopPage!Slot, LoopPage!Contains, LoopPage!Len
  <2> QED BY <2>2, <2>3 DEF ShowsLoops
<1> QED BY <1>1, LoopAlways, PTL

-----------------------------------------------------------------------------
(* The question before a page is left *)

(* What the guard and the router keep. *)
GuardState ==
    [entries : Seq(World.guard.Address), at : Nat, shown : World.guard.Address, unsaved : BOOLEAN,
     pageUrl : World.guard.Address, leaving : BOOLEAN, dialog : Guarded!Dialog \union {NoDialog}]
GuardCall(c) ==
    DOMAIN c = {"kind", "what", "answer"} /\ c.answer \in {Unanswered, Failed, TRUE}

(* A place in a history of addresses. *)
Placed(p) == p \in GuardState /\ p.at \in 1 .. Len(p.entries)
(* While there are changes, the guard knows the address of their page. *)
Noted(p) == p.unsaved => p.pageUrl = p.shown

GuardInv ==
    /\ Placed(page) /\ Noted(page) /\ page.shown = Guarded!Url(page)
    /\ page.leaving = FALSE
    /\ \A c \in calls : GuardCall(c)

-----------------------------------------------------------------------------
(* Sequences of any elements A *)

LEMMA SingleSeq ==
    ASSUME NEW A, NEW a \in A
    PROVE  <<a>> \in Seq(A) /\ Len(<<a>>) = 1 /\ <<a>>[1] = a
OBVIOUS

LEMMA StartOfSeq ==
    ASSUME NEW A, NEW s \in Seq(A), NEW n \in 1 .. Len(s)
    PROVE  SubSeq(s, 1, n) \in Seq(A) /\ Len(SubSeq(s, 1, n)) = n
OBVIOUS

(* The first n elements and one more. *)
LEMMA CutAndAppend ==
    ASSUME NEW A, NEW s \in Seq(A), NEW n \in 1 .. Len(s), NEW a \in A
    PROVE  LET t == Append(SubSeq(s, 1, n), a)
           IN  t \in Seq(A) /\ Len(t) = n + 1 /\ t[n + 1] = a /\ n + 1 \in 1 .. Len(t)
BY StartOfSeq, AppendProperties

-----------------------------------------------------------------------------
(* The history *)

LEMMA PlacedUrl ==
    ASSUME NEW p, Placed(p)
    PROVE  Guarded!Url(p) \in World.guard.Address
BY DEF Placed, GuardState, Guarded!Url

(* A new entry is the address, and takes the place of those after.         *)
LEMMA PushedTo ==
    ASSUME NEW p, Placed(p), NEW url \in World.guard.Address
    PROVE  /\ Placed(Guarded!Pushed(p, url)) /\ Guarded!Url(Guarded!Pushed(p, url)) = url
           /\ Guarded!Pushed(p, url).shown = p.shown /\ Guarded!Pushed(p, url).unsaved = p.unsaved
           /\ Guarded!Pushed(p, url).pageUrl = p.pageUrl /\ Guarded!Pushed(p, url).leaving = p.leaving
           /\ Guarded!Pushed(p, url).dialog = p.dialog
<1> DEFINE longer == Append(SubSeq(p.entries, 1, p.at), url)
<1> DEFINE after == p.at + 1
<1> DEFINE q == [p EXCEPT !.entries = longer, !.at = after]
<1>1. p \in GuardState /\ p.entries \in Seq(World.guard.Address) /\ p.at \in 1 .. Len(p.entries)
    BY DEF Placed, GuardState
<1>2. /\ longer \in Seq(World.guard.Address) /\ Len(longer) = after /\ longer[after] = url
      /\ after \in Nat /\ after \in 1 .. Len(longer)
  <2> HIDE DEF after
  <2>1. p.at \in Nat
      BY <1>1 DEF Placed, GuardState
  <2>2. LET t == Append(SubSeq(p.entries, 1, p.at), url)
        IN  t \in Seq(World.guard.Address) /\ Len(t) = p.at + 1 /\ t[p.at + 1] = url /\ p.at + 1 \in 1 .. Len(t)
      BY <1>1, CutAndAppend, Zenon
  <2> QED BY <2>1, <2>2 DEF after
<1>3. Guarded!Pushed(p, url) = q
    BY DEF Guarded!Pushed
<1> HIDE DEF longer, after
<1>4. /\ q \in GuardState /\ q.entries = longer /\ q.at = after
      /\ q.shown = p.shown /\ q.unsaved = p.unsaved /\ q.pageUrl = p.pageUrl
      /\ q.leaving = p.leaving /\ q.dialog = p.dialog
    BY <1>1, <1>2 DEF GuardState
<1> HIDE DEF q
<1> QED BY <1>1, <1>2, <1>3, <1>4 DEF Placed, Guarded!Url

LEMMA ReplacedBy ==
    ASSUME NEW p, Placed(p), NEW url \in World.guard.Address
    PROVE  /\ Placed(Guarded!Replaced(p, url)) /\ Guarded!Url(Guarded!Replaced(p, url)) = url
           /\ Guarded!Replaced(p, url).shown = p.shown /\ Guarded!Replaced(p, url).unsaved = p.unsaved
           /\ Guarded!Replaced(p, url).pageUrl = p.pageUrl /\ Guarded!Replaced(p, url).leaving = p.leaving
           /\ Guarded!Replaced(p, url).dialog = p.dialog
<1> DEFINE entries == [p.entries EXCEPT ![p.at] = url]
<1> DEFINE q == [p EXCEPT !.entries = entries]
<1>1. p \in GuardState /\ p.entries \in Seq(World.guard.Address) /\ p.at \in 1 .. Len(p.entries)
    BY DEF Placed, GuardState
<1>2. entries \in Seq(World.guard.Address) /\ Len(entries) = Len(p.entries) /\ entries[p.at] = url
    BY <1>1
<1> HIDE DEF entries
<1>3. /\ q \in GuardState /\ q.entries = entries /\ q.at = p.at
      /\ q.shown = p.shown /\ q.unsaved = p.unsaved /\ q.pageUrl = p.pageUrl
      /\ q.leaving = p.leaving /\ q.dialog = p.dialog
    BY <1>1, <1>2 DEF GuardState
<1>4. Guarded!Replaced(p, url) = q
    BY DEF Guarded!Replaced, entries
<1> HIDE DEF q
<1> QED BY <1>1, <1>2, <1>3, <1>4 DEF Placed, Guarded!Url

-----------------------------------------------------------------------------
(* The router and the guard *)

(* The router shows the address; only changes of the same page stay.       *)
LEMMA RoutedShows ==
    ASSUME NEW p, Placed(p)
    PROVE  LET q == Guarded!Routed(p) IN
           /\ Placed(q) /\ Noted(q) /\ q.shown = Guarded!Url(q) /\ q.shown = Guarded!Url(p)
           /\ q.leaving = p.leaving /\ q.dialog = p.dialog
           /\ p.unsaved /\ ~ q.unsaved => World.guard.PageOf[q.shown] # World.guard.PageOf[p.shown]
<1> DEFINE r == [p EXCEPT !.shown = Guarded!Url(p), !.unsaved = p.unsaved /\ World.guard.PageOf[Guarded!Url(p)] = World.guard.PageOf[p.shown]]
<1> DEFINE n == [r EXCEPT !.pageUrl = Guarded!Url(r)]
<1>1. p \in GuardState /\ Guarded!Url(p) \in World.guard.Address /\ p.at \in 1 .. Len(p.entries)
    BY PlacedUrl DEF Placed
<1>2. /\ r \in GuardState /\ r.entries = p.entries /\ r.at = p.at /\ r.shown = Guarded!Url(p)
      /\ r.unsaved = (p.unsaved /\ World.guard.PageOf[Guarded!Url(p)] = World.guard.PageOf[p.shown])
      /\ r.leaving = p.leaving /\ r.dialog = p.dialog
    BY <1>1 DEF GuardState
<1> HIDE DEF r
<1>3. Guarded!Url(r) = Guarded!Url(p)
    BY <1>2 DEF Guarded!Url
<1>4. /\ n \in GuardState /\ n.entries = p.entries /\ n.at = p.at /\ n.shown = Guarded!Url(p)
      /\ n.unsaved = r.unsaved /\ n.pageUrl = Guarded!Url(p)
      /\ n.leaving = p.leaving /\ n.dialog = p.dialog
    BY <1>1, <1>2, <1>3 DEF GuardState
<1>5. Guarded!Routed(p) = IF r.unsaved THEN n ELSE r
    BY DEF Guarded!Routed, Guarded!Rendered, r
<1> HIDE DEF n
<1> QED BY <1>1, <1>2, <1>3, <1>4, <1>5 DEF Placed, Noted, Guarded!Url

(* A step in the history of a page with changes comes back to the page and *)
(* asks; else the router follows.                                          *)
LEMMA AfterPopState ==
    ASSUME NEW p, Placed(p), Noted(p)
    PROVE  LET q == Guarded!PopState(p) IN
           /\ Placed(q) /\ Noted(q) /\ q.shown = Guarded!Url(q) /\ q.leaving = p.leaving
           /\ Guarded!HasUnsaved(p) => q.unsaved /\ q.shown = p.shown
           /\ ~ Guarded!HasUnsaved(p) =>
                 /\ q.shown = Guarded!Url(p) /\ q.dialog = p.dialog
                 /\ p.unsaved /\ ~ q.unsaved =>
                       World.guard.PageOf[q.shown] # World.guard.PageOf[p.shown]
<1>1. CASE Guarded!HasUnsaved(p)
  <2> DEFINE c == Guarded!Pushed(p, p.pageUrl)
  <2> DEFINE q == [c EXCEPT !.dialog = [to |-> Guarded!Url(p), replace |-> TRUE]]
  <2>1. p.pageUrl \in World.guard.Address /\ p.pageUrl = p.shown /\ p.unsaved
      BY <1>1 DEF Guarded!HasUnsaved, Noted, Placed, GuardState
  <2>2. /\ c \in GuardState /\ c.at \in 1 .. Len(c.entries) /\ c.entries[c.at] = p.pageUrl
        /\ c.shown = p.shown /\ c.unsaved = p.unsaved /\ c.pageUrl = p.pageUrl /\ c.leaving = p.leaving
      BY <2>1, PushedTo DEF Placed, Guarded!Url
  <2> HIDE DEF c
  <2>3. [to |-> Guarded!Url(p), replace |-> TRUE] \in Guarded!Dialog
      BY PlacedUrl DEF Guarded!Dialog
  <2>4. /\ q \in GuardState /\ q.entries = c.entries /\ q.at = c.at /\ q.shown = c.shown
        /\ q.unsaved = c.unsaved /\ q.pageUrl = c.pageUrl /\ q.leaving = c.leaving
      BY <2>2, <2>3 DEF GuardState
  <2>5. Guarded!PopState(p) = q
      BY <1>1 DEF Guarded!PopState, Guarded!CameBack, c
  <2> HIDE DEF q
  <2> QED BY <1>1, <2>1, <2>2, <2>4, <2>5 DEF Placed, Noted, Guarded!Url
<1>2. CASE ~ Guarded!HasUnsaved(p)
    BY <1>2, RoutedShows DEF Guarded!PopState
<1> QED BY <1>1, <1>2

(* Following the question's link: the page's changes are given up.         *)
LEMMA AfterDiscard ==
    ASSUME NEW p, Placed(p), Noted(p), p.leaving = TRUE, NEW url \in World.guard.Address, NEW replace \in BOOLEAN
    PROVE  LET q == Guarded!Left(Guarded!WentTo(p, url, replace)) IN
           /\ Placed(q) /\ Noted(q) /\ q.shown = Guarded!Url(q) /\ q.shown = url
           /\ q.leaving = FALSE /\ q.dialog = p.dialog
<1> DEFINE m == IF replace THEN Guarded!Replaced(p, url) ELSE Guarded!Pushed(p, url)
<1> DEFINE q == Guarded!PopState(m)
<1>1. /\ Placed(m) /\ Noted(m) /\ Guarded!Url(m) = url /\ m.leaving = TRUE /\ m.dialog = p.dialog
    BY PushedTo, ReplacedBy DEF Noted
<1> HIDE DEF m
<1>2. ~ Guarded!HasUnsaved(m)
    BY <1>1 DEF Guarded!HasUnsaved
<1>3. /\ Placed(q) /\ Noted(q) /\ q.shown = Guarded!Url(q) /\ q.shown = url /\ q.dialog = p.dialog
  <2>1. q = Guarded!Routed(m)
      BY <1>2 DEF Guarded!PopState
  <2> QED BY <1>1, <2>1, RoutedShows
<1>4. Guarded!WentTo(p, url, replace) = q
    BY DEF Guarded!WentTo, m
<1> HIDE DEF q
<1> DEFINE l == [q EXCEPT !.leaving = FALSE]
<1>5. /\ l \in GuardState /\ l.entries = q.entries /\ l.at = q.at /\ l.shown = q.shown
      /\ l.unsaved = q.unsaved /\ l.pageUrl = q.pageUrl /\ l.leaving = FALSE /\ l.dialog = q.dialog
    BY <1>3 DEF Placed, GuardState
<1>6. Guarded!Left(Guarded!WentTo(p, url, replace)) = l
    BY <1>4 DEF Guarded!Left
<1> HIDE DEF l
<1> QED BY <1>3, <1>5, <1>6 DEF Placed, Noted, Guarded!Url

-----------------------------------------------------------------------------
(* The invariant for a page p: all but the calls. *)
PageInv(p) == Placed(p) /\ Noted(p) /\ p.shown = Guarded!Url(p) /\ p.leaving = FALSE
LossOf(p) == page.unsaved /\ ~ p.unsaved => World.guard.PageOf[p.shown] # World.guard.PageOf[page.shown]

LEMMA GuardInit ==
    ASSUME Guarded!Known, Guarded!Init
    PROVE  GuardInv
<1>1. page = [entries |-> <<World.guard.Start>>, at |-> 1, shown |-> World.guard.Start, unsaved |-> FALSE,
              pageUrl |-> World.guard.Start, leaving |-> FALSE, dialog |-> NoDialog] /\ calls = {}
    BY DEF Guarded!Init
<1>2. <<World.guard.Start>> \in Seq(World.guard.Address) /\ Len(<<World.guard.Start>>) = 1 /\ <<World.guard.Start>>[1] = World.guard.Start
    BY SingleSeq DEF Guarded!Known
<1> QED BY <1>1, <1>2 DEF GuardInv, Placed, Noted, GuardState, Guarded!Url, Guarded!Known

(* The page after each action, apart from the answers.                     *)
LEMMA EditStep ==
    ASSUME GuardInv, Guarded!Edit
    PROVE  PageInv(page') /\ page'.unsaved
<1> DEFINE p == [page EXCEPT !.unsaved = TRUE]
<1> DEFINE q == [p EXCEPT !.pageUrl = Guarded!Url(p)]
<1>1. /\ p \in GuardState /\ p.entries = page.entries /\ p.at = page.at /\ p.shown = page.shown
      /\ p.unsaved = TRUE /\ p.leaving = FALSE
    BY DEF GuardInv, Placed, GuardState
<1> HIDE DEF p
<1>2. Guarded!Url(p) = page.shown /\ page.shown \in World.guard.Address
    BY <1>1, PlacedUrl DEF Guarded!Url, GuardInv
<1>3. /\ q \in GuardState /\ q.entries = page.entries /\ q.at = page.at /\ q.shown = page.shown
      /\ q.unsaved = TRUE /\ q.leaving = FALSE /\ q.pageUrl = page.shown
    BY <1>1, <1>2 DEF GuardState
<1>4. page' = q
    BY <1>1 DEF Guarded!Edit, Guarded!Rendered, p
<1> HIDE DEF q
<1> QED BY <1>3, <1>4 DEF PageInv, GuardInv, Placed, Noted, Guarded!Url

LEMMA ClickLinkStep ==
    ASSUME GuardInv, NEW to \in World.guard.Address, Guarded!ClickLink(to)
    PROVE  PageInv(page') /\ (page.unsaved => page'.unsaved)
<1>1. CASE Guarded!HasUnsaved(page)
  <2> DEFINE q == [page EXCEPT !.dialog = [to |-> to, replace |-> FALSE]]
  <2>1. [to |-> to, replace |-> FALSE] \in Guarded!Dialog
      BY DEF Guarded!Dialog
  <2>2. /\ q \in GuardState /\ q.entries = page.entries /\ q.at = page.at /\ q.shown = page.shown
        /\ q.unsaved = page.unsaved /\ q.leaving = page.leaving /\ q.pageUrl = page.pageUrl
      BY <2>1 DEF GuardInv, Placed, GuardState
  <2>3. page' = q
      BY <1>1 DEF Guarded!ClickLink, Guarded!Becomes
  <2> HIDE DEF q
  <2> QED BY <2>2, <2>3 DEF PageInv, GuardInv, Placed, Noted, Guarded!Url
<1>2. CASE ~ Guarded!HasUnsaved(page)
  <2>1. page' = Guarded!Routed(Guarded!Pushed(page, to)) /\ page.unsaved = FALSE
      BY <1>2 DEF Guarded!ClickLink, Guarded!Becomes, Guarded!HasUnsaved, GuardInv, Placed, GuardState
  <2>2. Placed(Guarded!Pushed(page, to)) /\ Guarded!Pushed(page, to).leaving = FALSE
      BY PushedTo DEF GuardInv
  <2> QED BY <2>1, <2>2, RoutedShows DEF PageInv
<1> QED BY <1>1, <1>2

LEMMA BrowseStep ==
    ASSUME GuardInv, NEW i \in DOMAIN page.entries, Guarded!Browse(i)
    PROVE  PageInv(page') /\ (page.unsaved => page'.unsaved)
<1> DEFINE p == [page EXCEPT !.at = i]
<1>1. i \in 1 .. Len(page.entries)
    BY DEF GuardInv, Placed, GuardState
<1>2. /\ p \in GuardState /\ p.entries = page.entries /\ p.at = i /\ p.shown = page.shown
      /\ p.unsaved = page.unsaved /\ p.leaving = FALSE /\ p.pageUrl = page.pageUrl
    BY <1>1 DEF GuardInv, Placed, GuardState
<1>3. page' = Guarded!PopState(p)
    BY DEF Guarded!Browse, Guarded!Becomes
<1> HIDE DEF p
<1>4. Placed(p) /\ Noted(p)
    BY <1>1, <1>2 DEF Placed, Noted, GuardInv
<1>5. page.unsaved => Guarded!HasUnsaved(p)
    BY <1>2 DEF Guarded!HasUnsaved
<1> QED BY <1>2, <1>3, <1>4, <1>5, AfterPopState DEF PageInv

LEMMA DiscardStep ==
    ASSUME GuardInv, Guarded!Discard
    PROVE  PageInv(page') /\ page'.shown = page.dialog.to /\ page'.dialog = NoDialog
<1> DEFINE p == [page EXCEPT !.dialog = NoDialog, !.leaving = TRUE]
<1>1. /\ p \in GuardState /\ p.entries = page.entries /\ p.at = page.at /\ p.shown = page.shown
      /\ p.unsaved = page.unsaved /\ p.leaving = TRUE /\ p.pageUrl = page.pageUrl
      /\ p.dialog = NoDialog
    BY DEF GuardInv, Placed, GuardState
<1>2. page.dialog.to \in World.guard.Address /\ page.dialog.replace \in BOOLEAN
    BY DEF Guarded!Discard, GuardInv, Placed, GuardState, Guarded!Dialog
<1>3. page' = Guarded!Left(Guarded!WentTo(p, page.dialog.to, page.dialog.replace))
    BY DEF Guarded!Discard, Guarded!Becomes
<1> HIDE DEF p
<1>4. Placed(p) /\ Noted(p)
    BY <1>1 DEF Placed, Noted, GuardInv
<1> QED BY <1>1, <1>2, <1>3, <1>4, AfterDiscard DEF PageInv

LEMMA KeepStep ==
    ASSUME GuardInv, Guarded!Keep
    PROVE  PageInv(page') /\ (page.unsaved => page'.unsaved)
<1> DEFINE q == [page EXCEPT !.dialog = NoDialog]
<1>1. /\ q \in GuardState /\ q.entries = page.entries /\ q.at = page.at /\ q.shown = page.shown
      /\ q.unsaved = page.unsaved /\ q.leaving = page.leaving /\ q.pageUrl = page.pageUrl
    BY DEF GuardInv, Placed, GuardState
<1>2. page' = q
    BY DEF Guarded!Keep
<1> HIDE DEF q
<1> QED BY <1>1, <1>2 DEF PageInv, GuardInv, Placed, Noted, Guarded!Url

(* Changes go once a save was answered.                                    *)
LEMMA SavedStep ==
    ASSUME GuardInv, NEW c \in calls, Guarded!Saved(c)
    PROVE  PageInv(page') /\ (page.unsaved /\ ~ page'.unsaved => Guarded!Stored \/ Guarded!Overwritten)
<1>1. c.kind = "save" /\ c.answer \in {Failed, TRUE} /\ c \in calls \ calls'
    BY DEF Guarded!Saved, Guarded!Answered, Guarded!Becomes, GuardInv, GuardCall
<1>2. CASE c.answer = Failed /\ page' = page
    BY <1>2 DEF PageInv, GuardInv
<1>3. CASE c.answer # Failed
  <2> DEFINE p == [page EXCEPT !.unsaved = FALSE]
  <2>1. /\ p \in GuardState /\ p.entries = page.entries /\ p.at = page.at /\ p.shown = page.shown
        /\ p.unsaved = FALSE /\ p.leaving = FALSE
      BY DEF GuardInv, Placed, GuardState
  <2>2. page' = p \/ \E to \in World.guard.Address : page' = Guarded!Routed(Guarded!Pushed(p, to))
      BY <1>3 DEF Guarded!Saved, Guarded!Becomes
  <2> HIDE DEF p
  <2>3. PageInv(p)
      BY <2>1 DEF PageInv, GuardInv, Placed, Noted, Guarded!Url
  <2>4. ASSUME NEW to \in World.guard.Address, page' = Guarded!Routed(Guarded!Pushed(p, to)) PROVE PageInv(page')
    <3>1. Placed(Guarded!Pushed(p, to)) /\ Guarded!Pushed(p, to).leaving = FALSE
        BY <2>3, PushedTo DEF PageInv
    <3> QED BY <2>4, <3>1, RoutedShows DEF PageInv
  <2>5. PageInv(page')
      BY <2>2, <2>3, <2>4
  <2>6. Guarded!Done(c, "save")
      BY <1>1, <1>3 DEF Guarded!Done
  <2> QED BY <2>5, <2>6 DEF Guarded!Stored, Guarded!Overwritten
<1> QED BY <1>2, <1>3 DEF Guarded!Saved, Guarded!Becomes

(* The changes go with the object that was deleted.                        *)
LEMMA DeletedStep ==
    ASSUME GuardInv, NEW c \in calls, Guarded!Deleted(c)
    PROVE  PageInv(page') /\ (page.unsaved /\ ~ page'.unsaved => Guarded!WithObject)
<1>1. c.kind = "delete" /\ c.answer \in {Failed, TRUE} /\ c \in calls \ calls'
    BY DEF Guarded!Deleted, Guarded!Answered, Guarded!Becomes, GuardInv, GuardCall
<1>2. CASE c.answer = Failed /\ page' = page
    BY <1>2 DEF PageInv, GuardInv
<1>3. ASSUME c.answer # Failed, NEW to \in World.guard.Address, page' = Guarded!Routed(Guarded!Pushed(page, to))
      PROVE  PageInv(page') /\ Guarded!WithObject
  <2>1. Placed(Guarded!Pushed(page, to)) /\ Guarded!Pushed(page, to).leaving = FALSE
      BY PushedTo DEF GuardInv
  <2>2. PageInv(page')
      BY <1>3, <2>1, RoutedShows DEF PageInv
  <2> QED BY <1>1, <1>3, <2>2 DEF Guarded!WithObject, Guarded!Done
<1> QED BY <1>2, <1>3 DEF Guarded!Deleted, Guarded!Becomes

(* Requests are those that store, and are answered by success or failure.  *)
LEMMA CallsStep ==
    ASSUME GuardInv, Guarded!Next
    PROVE  \A d \in calls' : GuardCall(d)
<1>1. ASSUME NEW k, Guarded!Asking(k) PROVE \A d \in calls' : GuardCall(d)
  <2>1. PICK w : calls' = calls \union {[kind |-> k, what |-> w, answer |-> Unanswered]}
      BY <1>1 DEF Guarded!Asking, Guarded!Send, Guarded!Request, Guarded!Exchange
  <2>2. GuardCall([kind |-> k, what |-> w, answer |-> Unanswered])
      BY DEF GuardCall
  <2> QED BY <2>1, <2>2 DEF GuardInv
<1>2. ASSUME NEW c \in calls, NEW answer \in {Failed, TRUE}, Guarded!Reply(c, answer) PROVE \A d \in calls' : GuardCall(d)
  <2>1. GuardCall(c)
      BY DEF GuardInv
  <2>2. GuardCall([c EXCEPT !.answer = answer])
      BY <2>1 DEF GuardCall
  <2> QED BY <1>2, <2>2 DEF Guarded!Reply, Guarded!Exchange, GuardInv
<1>3. ASSUME NEW p, NEW done, Guarded!Becomes(p, done) PROVE \A d \in calls' : GuardCall(d)
    BY <1>3 DEF Guarded!Becomes, GuardInv
<1>4. ASSUME NEW c \in calls, Guarded!Serve(c) PROVE \A d \in calls' : GuardCall(d)
    BY <1>2, <1>4 DEF Guarded!Serve
<1>5. ASSUME NEW c \in calls, Guarded!Saved(c) \/ Guarded!Deleted(c) PROVE \A d \in calls' : GuardCall(d)
    BY <1>3, <1>5 DEF Guarded!Saved, Guarded!Deleted
<1>6. ASSUME Guarded!Refuse PROVE \A d \in calls' : GuardCall(d)
    BY <1>2, <1>6 DEF Guarded!Refuse
<1>7. ASSUME Guarded!Edit \/ Guarded!Keep PROVE \A d \in calls' : GuardCall(d)
    BY <1>7 DEF Guarded!Edit, Guarded!Keep, GuardInv
<1>8. ASSUME Guarded!Discard PROVE \A d \in calls' : GuardCall(d)
    BY <1>3, <1>8 DEF Guarded!Discard
<1>9. ASSUME NEW to \in World.guard.Address, Guarded!ClickLink(to) PROVE \A d \in calls' : GuardCall(d)
    BY <1>3, <1>9 DEF Guarded!ClickLink
<1>10. ASSUME NEW i \in DOMAIN page.entries, Guarded!Browse(i) PROVE \A d \in calls' : GuardCall(d)
    BY <1>3, <1>10 DEF Guarded!Browse
<1> QED BY <1>1, <1>4, <1>5, <1>6, <1>7, <1>8, <1>9, <1>10 DEF Guarded!Next, Guarded!Save, Guarded!Delete

(* Every step keeps the invariant, and loses no changes without a choice.  *)
LEMMA GuardStep ==
    ASSUME GuardInv, Guarded!Next
    PROVE  GuardInv' /\ Guarded!LossIsChosen
<1>1. \A d \in calls' : GuardCall(d)
    BY CallsStep
<1>2. PageInv(page') /\ Guarded!LossIsChosen
  <2>1. CASE Guarded!Edit
      BY <2>1, EditStep DEF Guarded!LossIsChosen
  <2>2. CASE Guarded!Discard
    <3>1. PageInv(page') /\ page'.shown = page.dialog.to /\ page'.dialog = NoDialog
        BY <2>2, DiscardStep
    <3>2. page' = [page' EXCEPT !.dialog = NoDialog, !.shown = page.dialog.to]
        BY <3>1 DEF PageInv, Placed, GuardState
    <3> QED BY <2>2, <3>1, <3>2 DEF Guarded!LossIsChosen, Guarded!Discarding, Guarded!Discard
  <2>3. CASE Guarded!Keep
      BY <2>3, KeepStep DEF Guarded!LossIsChosen
  <2>4. CASE Guarded!Save \/ Guarded!Delete \/ Guarded!Refuse \/ \E c \in calls : Guarded!Serve(c)
      BY <2>4 DEF Guarded!Save, Guarded!Delete, Guarded!Asking, Guarded!Refuse, Guarded!Serve, Guarded!LossIsChosen, PageInv, GuardInv
  <2>5. CASE \E to \in World.guard.Address : Guarded!ClickLink(to)
      BY <2>5, ClickLinkStep DEF Guarded!LossIsChosen
  <2>6. CASE \E i \in DOMAIN page.entries : Guarded!Browse(i)
      BY <2>6, BrowseStep DEF Guarded!LossIsChosen
  <2>7. CASE \E c \in calls : Guarded!Saved(c)
      BY <2>7, SavedStep DEF Guarded!LossIsChosen
  <2>8. CASE \E c \in calls : Guarded!Deleted(c)
      BY <2>8, DeletedStep DEF Guarded!LossIsChosen
  <2> QED BY <2>1, <2>2, <2>3, <2>4, <2>5, <2>6, <2>7, <2>8 DEF Guarded!Next
<1> QED BY <1>1, <1>2 DEF GuardInv, PageInv, Placed, Noted, Guarded!Url

GuardKept == kind = "guard" => GuardInv

LEMMA GuardAlways == Spec => []GuardKept
<1>1. Init => GuardKept
    BY GuardKnown, GuardInit DEF Init, GuardKept
<1>2. GuardKept /\ [Next]_vars => GuardKept'
  <2> SUFFICES ASSUME GuardKept, [Next]_vars, kind = "guard" PROVE GuardInv'
      BY DEF GuardKept, Next, vars
  <2>1. CASE UNCHANGED vars
      BY <2>1 DEF vars, GuardKept, GuardInv, Placed, Noted, GuardState, Guarded!Url
  <2>2. CASE Guarded!Next
      BY <2>2, GuardStep DEF GuardKept
  <2> QED BY <2>1, <2>2 DEF Next
<1> QED BY <1>1, <1>2, PTL DEF Spec

(* The address is the one of the page shown, whatever was clicked, asked   *)
(* and browsed: a step the guard catches is undone by a new entry for the  *)
(* page, whose address it knows as long as there are changes (Noted).      *)
THEOREM AddressIsShown == Spec => []ShownIsTheAddress
<1>1. GuardKept => ShownIsTheAddress
    BY DEF GuardKept, GuardInv, ShownIsTheAddress, Guarded!ShownIsTheAddress
<1> QED BY <1>1, GuardAlways, PTL

(* Changes are lost only if the user discards them at the question, or     *)
(* deletes their object, or a save was answered: then they were stored,    *)
(* but for those entered since it was sent.                                *)
THEOREM NoLossUnasked == Spec => LossIsChosen
<1>1. GuardKept /\ [Next]_vars => [kind = "guard" => Guarded!LossIsChosen]_vars
    BY GuardStep DEF GuardKept, Next
<1> QED BY <1>1, GuardAlways, PTL DEF Spec, LossIsChosen
=============================================================================
