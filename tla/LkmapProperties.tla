--------------------------- MODULE LkmapProperties ---------------------------
(* What must hold of the delivery to the Leitungskataster. *)
EXTENDS Lkmap

TypeOK ==
    /\ PageTypeOK
    /\ DOMAIN page = DOMAIN Empty
    /\ \A i \in DOMAIN db.deliveries : db.deliveries[i].created <= db.now
    /\ \A s \in Schacht : db.schacht[s].changed <= db.now /\ db.schacht[s].owner \in Owner

(***************************************************************************)
(* What is not as it was last delivered is dated later than that delivery, *)
(* so the week to deliver begins with it: an object that differs from the  *)
(* one delivered, whether the change was its own or one of its owner, type *)
(* or manholes (the triggers), and a duct that was not delivered.  (A      *)
(* manhole that was not may be as old as it is: only its duct changed.)    *)
(***************************************************************************)
ChangesAreDated ==
    Marked(db.deliveries) # {} =>
        LET last == LastOf(db.deliveries)
            later(row) == row.changed > last.created
            differs(old, object) == \E x \in old : x.id = object.id /\ x # object
        IN  /\ \A s \in DeliveredSchaechte(db) :
                  differs(last.files.schaechte, LkPunkt(db, s)) => later(db.schacht[s])
            /\ \A t \in DeliveredDucts(db) :
                  LkLinie(db, t) \notin last.files.ducts => later(db.duct[t])

(***************************************************************************)
(* "Ob sich seit der letzten Lieferung etwas geaendert hat, sagt der       *)
(* Vergleich der Pruefsumme mit der des aktuellen Exports"                 *)
(* (docs/leitungskataster.md): the page says so of the delivery that       *)
(* reached the Checkservice last.                                          *)
(***************************************************************************)
ComparedWithTheLast ==
    LET state == State(Export(db), db.now)
        reachedLast == CHOOSE i \in Marked(db.deliveries) :
                           \A j \in Marked(db.deliveries) : db.deliveries[j].delivered <= db.deliveries[i].delivered
    IN  state.kind \in {"Changed", "QuarterDue", "UpToDate"} =>
            (state.kind = "Changed" <=> Files(db) # db.deliveries[reachedLast].files)
=============================================================================
